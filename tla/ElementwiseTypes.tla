---------------------------- MODULE ElementwiseTypes ----------------------------
(***************************************************************************)
(* The C expressions that src/pyopencl/elementwise.py writes for operands  *)
(* of real and complex types, of single and double precision, and the      *)
(* types that the operators of Array (src/pyopencl/array.py) ask for.      *)
(* Complex numbers are structures in C: only the functions of              *)
(* pyopencl-complex.h take them, and nothing converts them implicitly.     *)
(***************************************************************************)
EXTENDS Integers

VARIABLES
  operation,  \* the operator, and what it is applied to
  expression  \* what the kernel assigns to z[i], if it is written

typevars == <<operation, expression>>

Dtypes == [complex : BOOLEAN, double : BOOLEAN]
(* The other operand of an array: an array or a numpy scalar, whose type   *)
(* counts, or a number of Python's, of which only the kind counts.         *)
Operands == [dtype : Dtypes, array : {TRUE}, weak : {FALSE}]
            \cup [dtype : Dtypes, array : {FALSE}, weak : {FALSE}]
            \cup [dtype : [complex : BOOLEAN, double : {TRUE}], array : {FALSE}, weak : {TRUE}]
OperatorNames == {"add", "sub", "rsub", "neg", "mul", "div", "rdiv", "pow", "rpow", "iadd", "isub", "imul", "astype"}

(* An expression: its type, whether a C compiler takes it, and whether a   *)
(* double went through single precision in it.                             *)
E(dtype, ok, narrowed) ==
  [is |-> IF ok THEN "typed" ELSE "rejected", dtype |-> dtype, narrowed |-> narrowed]
Operand(dtype) == E(dtype, TRUE, FALSE)
Real(double) == [complex |-> FALSE, double |-> double]
Either(a, b) == [complex |-> a.complex \/ b.complex, double |-> a.double \/ b.double]

-----------------------------------------------------------------------------
(* pyopencl-complex.h, for TP of type root: a TP argument has to be of     *)
(* that very structure, a REAL_TP argument is converted to its precision.  *)
IsTP(e, root) == e.is = "typed" /\ e.dtype = root
IsReal(e) == e.is = "typed" /\ ~e.dtype.complex
Narrows(e, double) == e.narrowed \/ (e.dtype.double /\ ~double)

FuncTPTP(root, a, b)   == E(root, IsTP(a, root) /\ IsTP(b, root), a.narrowed \/ b.narrowed)
FuncTPReal(root, a, b) == E(root, IsTP(a, root) /\ IsReal(b), a.narrowed \/ Narrows(b, root.double))
FuncRealTP(root, a, b) == E(root, IsReal(a) /\ IsTP(b, root), b.narrowed \/ Narrows(a, root.double))
fromreal(root, a) == E(root, IsReal(a), Narrows(a, root.double))
cast(root, a)     == E(root, a.is = "typed" /\ a.dtype.complex, Narrows(a, root.double))

(* The operators of C, on numbers; pow needs both of one type.             *)
Operator(a, b)  == E(Either(a.dtype, b.dtype), IsReal(a) /\ IsReal(b), a.narrowed \/ b.narrowed)
CCast(dtype, a) == E(dtype, IsReal(a), Narrows(a, dtype.double))
CPow(a, b)      == E(a.dtype, IsReal(a) /\ IsReal(b) /\ a.dtype = b.dtype, a.narrowed \/ b.narrowed)

(* complex_dtype_to_name raises for a type that is not complex.            *)
Without(is) == [is |-> is, dtype |-> Real(FALSE), narrowed |-> FALSE]
Named(dtype, e) == IF dtype.complex THEN e ELSE Without("raises")
Casted(root, e) == IF e.dtype # root THEN cast(root, e) ELSE e

-----------------------------------------------------------------------------
(* Mutant: a real operand is only converted next to a complex one of its type. *)
axpbyz_unconverted(x, y, z) ==
  LET ax == IF x.complex THEN FuncTPTP(x, Operand(x), Operand(x)) ELSE Operator(Operand(x), Operand(x))
      by == IF y.complex THEN FuncTPTP(y, Operand(y), Operand(y)) ELSE Operator(Operand(y), Operand(y))
      by_ == IF x.complex /\ ~y.complex THEN fromreal(x, by) ELSE by
  IN  IF x.complex \/ y.complex
        THEN Named(z, FuncTPTP(z, cast(z, ax), cast(z, by_)))
        ELSE Operator(ax, by_)

(* get_axpbyz_kernel: z = a * x + b * y, a of the type of x, b of that of y.*)
axpbyz(x, y, z) ==
  LET ax == IF x.complex THEN FuncTPTP(x, Operand(x), Operand(x)) ELSE Operator(Operand(x), Operand(x))
      by == IF y.complex THEN FuncTPTP(y, Operand(y), Operand(y)) ELSE Operator(Operand(y), Operand(y))
      by_ == IF x.complex /\ ~y.complex THEN fromreal(x, by) ELSE by
      ax_ == IF ~x.complex /\ y.complex THEN fromreal(y, ax) ELSE ax
  IN  IF x.complex \/ y.complex
        THEN Named(z, FuncTPTP(z, cast(z, ax_), cast(z, by_)))
        ELSE Operator(ax_, by_)

(* get_axpbz_kernel: z = a * x + b.                                        *)
axpbz(a, x, b, z) ==
  LET a_ == IF a.complex THEN Casted(z, Operand(a)) ELSE Operand(a)
      x_ == IF x.complex THEN Casted(z, Operand(x)) ELSE Operand(x)
      ax == IF x.complex THEN IF a.complex THEN FuncTPTP(z, a_, x_) ELSE FuncRealTP(z, a_, x_)
            ELSE IF a.complex THEN FuncTPReal(z, a_, x_) ELSE Operator(a_, x_)
      ax_ == IF z.complex THEN cast(z, IF a.complex \/ x.complex THEN ax ELSE fromreal(z, ax)) ELSE ax
      b_  == IF z.complex THEN cast(z, IF b.complex THEN Operand(b) ELSE fromreal(z, Operand(b)))
                          ELSE Operand(b)
  IN  IF a.complex \/ x.complex \/ b.complex THEN Named(z, FuncTPTP(z, ax_, b_)) ELSE Operator(ax_, b_)

(* get_multiply_kernel.                                                    *)
multiply(x, y, z) ==
  LET x_ == IF x.complex THEN Casted(z, Operand(x)) ELSE Operand(x)
      y_ == IF y.complex THEN Casted(z, Operand(y)) ELSE Operand(y)
  IN  CASE x.complex /\ y.complex   -> Named(z, FuncTPTP(z, x_, y_))
        [] x.complex /\ ~y.complex  -> Named(z, FuncTPReal(z, x_, y_))
        [] ~x.complex /\ y.complex  -> Named(z, FuncRealTP(z, x_, y_))
        [] ~x.complex /\ ~y.complex -> Operator(x_, y_)

(* get_divide_kernel: x / y.  (divide, rdivide and divider take what mul,  *)
(* rmul and mulr take.)                                                    *)
divide(x, y, z) ==
  LET casts == z.complex /\ x # y
      x_ == IF casts /\ x.complex THEN Casted(z, Operand(x)) ELSE Operand(x)
      y_ == IF casts /\ y.complex THEN Casted(z, Operand(y)) ELSE Operand(y)
      whole(e) == Named(z, cast(z, e))
  IN  CASE x.complex /\ y.complex   -> whole(FuncTPTP(z, x_, y_))
        [] x.complex /\ ~y.complex  -> whole(FuncTPReal(z, x_, y_))
        [] ~x.complex /\ y.complex  -> whole(FuncRealTP(z, x_, y_))
        [] ~x.complex /\ ~y.complex -> IF z.complex THEN whole(Operator(x_, y_)) ELSE Operator(x_, y_)

(* get_rdivide_elwise_kernel: y / x, y a scalar.                           *)
rdivide(x, y, z) ==
  LET casts == z.complex /\ x # y
      x_ == IF casts /\ x.complex THEN Casted(z, Operand(x)) ELSE Operand(x)
      y_ == IF casts /\ y.complex THEN Casted(z, Operand(y)) ELSE Operand(y)
  IN  CASE x.complex /\ y.complex   -> Named(z, FuncTPTP(z, y_, x_))
        [] x.complex /\ ~y.complex  -> Named(z, FuncRealTP(z, y_, x_))
        [] ~x.complex /\ y.complex  -> Named(z, FuncTPReal(z, y_, x_))
        [] ~x.complex /\ ~y.complex -> Operator(y_, x_)

(* get_pow_kernel: base x, exponent y; powr and rpow take what mulr and    *)
(* rmul take.                                                              *)
power(x, y, z) ==
  LET converted(d) ==
        IF x = y \/ d = z THEN Operand(d)
        ELSE IF ~z.complex THEN CCast(z, Operand(d))
        ELSE IF d.complex THEN cast(z, Operand(d)) ELSE Operand(d)
      x_ == converted(x)
      y_ == converted(y)
  IN  CASE x.complex /\ y.complex   -> Named(z, FuncTPTP(z, x_, y_))
        [] x.complex /\ ~y.complex  -> Named(z, FuncTPReal(z, x_, y_))
        [] ~x.complex /\ y.complex  -> Named(z, FuncRealTP(z, x_, y_))
        [] ~x.complex /\ ~y.complex -> CPow(x_, y_)

(* get_copy_kernel.                                                        *)
copied(from, to) ==
  LET src == IF to.complex /\ ~from.complex THEN fromreal(to, Operand(from)) ELSE Operand(from)
  IN  IF to.complex /\ from # to THEN cast(to, src) ELSE src

-----------------------------------------------------------------------------
(* _get_common_dtype (of the compyte library): what numpy makes of it.     *)
Common(x, other) ==
  IF other.weak THEN [complex |-> x.complex \/ other.dtype.complex, double |-> x.double]
                ELSE Either(x, other.dtype)

(* Array.__add__ ... astype: the kernel, and the types of its arguments;   *)
(* -1 and 0 are integers.  (a / b of a number b multiplies by 1 / b.)      *)
ResultType(op, x, other) ==
  CASE op \in {"iadd", "isub", "imul", "neg"} -> x
    [] op = "astype" -> other.dtype
    [] OTHER -> Common(x, other)
Generated(op, x, other) ==
  LET y == other.dtype
      z == ResultType(op, x, other)
      int == Real(FALSE)
  IN CASE op \in {"add", "sub", "iadd", "isub"} /\ other.array -> axpbyz(x, y, z)
       [] op = "add" /\ ~other.array -> axpbz(x, x, z, z)
       [] op \in {"sub", "iadd", "isub"} /\ ~other.array -> axpbz(x, x, y, z)
       [] op = "rsub" -> axpbz(x, x, z, z)
       [] op = "neg" -> axpbz(int, x, int, z)
       [] op \in {"mul", "imul"} /\ other.array -> multiply(x, y, z)
       [] op \in {"mul", "div"} /\ ~other.array -> axpbz(z, x, x, z)
       [] op = "imul" /\ ~other.array -> axpbz(y, x, x, z)
       [] op = "div" /\ other.array -> divide(x, y, z)
       [] op = "rdiv" -> rdivide(x, z, z)
       [] op = "pow" -> power(x, y, z)
       [] op = "rpow" -> power(z, x, z)
       [] op = "astype" -> copied(x, y)

(* rsub, rdiv and rpow are called for scalars, astype for a type.          *)
TypesInit ==
  /\ operation \in [op : OperatorNames, x : Dtypes, other : Operands]
  /\ operation.op \in {"rsub", "rdiv", "rpow"} => ~operation.other.array
  /\ operation.op = "astype" => operation.other.array
  /\ expression = Without("none")

(* The expression is written, and assigned to z[i].                        *)
GenerateKernel ==
  /\ expression = Without("none")
  /\ expression' = Generated(operation.op, operation.x, operation.other)
  /\ UNCHANGED operation

TypesNext == GenerateKernel
TypesSpec == TypesInit /\ [][TypesNext]_typevars

-----------------------------------------------------------------------------
(* For all operands the expression has the type of the result (or one that *)
(* C converts to it), and no operand loses precision that the result has.  *)
(* It raises exactly where a complex number does not fit into a real array *)
(* in place.  Not for astype from complex to real, which the compiler      *)
(* refuses, nor, as to precision, for sums of a single precision complex   *)
(* and a double precision real array, which axpbyz rounds to single.       *)
ExpressionsAreTyped ==
  LET z == ResultType(operation.op, operation.x, operation.other)
      other == operation.other
      in_place == operation.op \in {"iadd", "isub", "imul"}
      mixed_sum == operation.op \in {"add", "sub"} /\ other.array /\ other.dtype.complex # operation.x.complex
  IN  expression.is # "none" =>
        CASE in_place /\ other.dtype.complex /\ ~operation.x.complex -> expression.is = "raises"
          [] operation.op = "astype" /\ operation.x.complex /\ ~z.complex -> TRUE
          [] OTHER ->
               /\ expression.is = "typed" /\ expression.dtype.complex = z.complex
               /\ z.complex => expression.dtype = z
               /\ z.double /\ ~mixed_sum => ~expression.narrowed
=============================================================================
