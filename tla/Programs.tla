-------------------------------- MODULE Programs --------------------------------
(***************************************************************************)
(* Programs and the kernels made of them: Program of                       *)
(* src/pyopencl/__init__.py, the memoized functions that make kernels      *)
(* (tools.py) and the code that invoker.py generates to set a kernel's     *)
(* arguments and enqueue it.                                               *)
(*                                                                         *)
(* Threads take turns where a thread lets go of the interpreter: while a   *)
(* program is built, and between any two arguments of a kernel.  Some      *)
(* devices take a complex number as two arguments (pocl) or not at all     *)
(* (apple).  A slot of a kernel holds <<call, argument, part>>.            *)
(***************************************************************************)
EXTENDS Integers, SequencesExt, FiniteSets

CONSTANTS
  Threads,
  Signatures,    \* the argument lists of kernels
  max_fp_args,   \* floating-point registers for arguments: 8
  MaxCalls       \* bound on the calls that all threads start

Kinds == {"vector", "vector_offset", "other", "int", "float", "complex64", "complex128"}
ASSUME ProgramsAssumption ==
  /\ max_fp_args \in Nat /\ MaxCalls \in Nat
  /\ Signatures \subseteq Seq(Kinds)

VARIABLES
  bug,       \* has_struct_arg_count_bug of the devices: "none", "pocl", "apple"
  memo,      \* signatures -> kernel, what the functions remember of a context
  cleared,   \* how often the memory of the functions was cleared
  program,   \* the Program that the threads share
  kernels,   \* kernels -> signature, setters, content of the slots
  thread,    \* threads -> where the thread is
  calls,     \* calls started so far
  launched   \* the kernel that was enqueued last, or none

programvars == <<bug, memo, cleared, program, kernels, thread, calls, launched>>

No == 0
Idle == [at |-> "idle"]

-----------------------------------------------------------------------------
(* get_arg_list_scalar_arg_dtypes: the arguments of a call.                *)
ArgDtypes(args) ==
  FlattenSeq([i \in DOMAIN args |->
    CASE args[i] = "vector" -> <<"None">>
      [] args[i] = "vector_offset" -> <<"None", "int">>
      [] OTHER -> <<args[i]>>])

Whole(i) == <<<<i, "all">>>>
Split(i) == <<<<i, "real">>, <<i, "imag">>>>

(* Two doubles take two registers and an argument each, where the bug is,  *)
(* while there are two registers left.                                     *)
Fits(dtypes, i, used) == dtypes[i] = "complex128" /\ used + 2 <= max_fp_args

(* What each argument becomes, and one after the other: used[i - 1]        *)
(* registers are taken before argument i.                                  *)
Parts(dtypes, used) ==
  [i \in DOMAIN dtypes |-> IF bug = "pocl" /\ Fits(dtypes, i, used[i - 1]) THEN Split(i) ELSE Whole(i)]

(* How a device takes arguments of these types: two floats share a         *)
(* register, and what does not fit takes none.                             *)
DeviceRegisters(dtypes) ==
  LET registers[i \in 0 .. Len(dtypes)] ==
        IF i = 0 THEN 0
        ELSE registers[i - 1] + IF Fits(dtypes, i, registers[i - 1]) THEN 2
                                ELSE IF dtypes[i] \in {"float", "complex64"} THEN 1 ELSE 0
  IN  registers
DeviceSlots(dtypes) == FlattenSeq(Parts(dtypes, DeviceRegisters(dtypes)))

(* generate_specific_arg_handling_body counts two for any complex number.  *)
fp_arg_count(dtypes) ==
  LET count[i \in 0 .. Len(dtypes)] ==
        IF i = 0 THEN 0
        ELSE count[i - 1] + CASE dtypes[i] \in {"complex64", "complex128"} -> 2
                              [] dtypes[i] = "float" -> 1
                              [] OTHER -> 0
  IN  count

(* Which argument, or part of it, is set as the kernel's first, second,    *)
(* ... argument.                                                           *)
SpecificBody(dtypes) ==
  [setters |-> FlattenSeq(Parts(dtypes, fp_arg_count(dtypes))),
   raised  |-> bug = "apple" /\ \E i \in DOMAIN dtypes : Fits(dtypes, i, fp_arg_count(dtypes)[i - 1])]

(* generate_generic_arg_handling_body: one after the other.                *)
GenericBody(num_args) == [i \in 1 .. num_args |-> <<i, "all">>]

(* Mutant: the number of arguments is not compared with the kernel's. *)
HandlingBodyUnchecked(sig, specific) ==
  LET dtypes == ArgDtypes(sig)
  IN  IF specific THEN [setters |-> SpecificBody(dtypes).setters, raised |-> SpecificBody(dtypes).raised]
      ELSE [setters |-> GenericBody(Len(DeviceSlots(dtypes))), raised |-> FALSE]

(* _generate_enqueue_and_set_args_module: the body for a kernel with or    *)
(* without set_scalar_arg_dtypes.  Without them, the caller passes as many *)
(* arguments as the device says there are.                                 *)
HandlingBody(sig, specific) ==
  LET dtypes   == ArgDtypes(sig)
      num_args == Len(DeviceSlots(dtypes))
      body     == SpecificBody(dtypes)
  IN  IF specific
      THEN [setters |-> body.setters, raised |-> body.raised \/ Len(body.setters) # num_args]
      ELSE [setters |-> GenericBody(num_args), raised |-> num_args # Len(dtypes)]

(* kernel_init and set_scalar_arg_dtypes: a new kernel, no argument set.   *)
NewKernel(sig, body) ==
  [sig |-> sig, setters |-> body.setters, slots |-> [p \in DOMAIN body.setters |-> << >>]]

-----------------------------------------------------------------------------
ProgramsInit ==
  /\ bug \in {"none", "pocl", "apple"}
  /\ memo = [s \in Signatures |-> No] /\ cleared = 0
  /\ program = [_prg |-> "none", _context |-> TRUE, attached |-> FALSE]
  /\ kernels = << >> /\ calls = 0
  /\ thread = [t \in Threads |-> Idle]
  /\ launched = << >>

Begin(t) == thread[t].at = "idle" /\ calls < MaxCalls /\ calls' = calls + 1
Becomes(t, record) == thread' = [thread EXCEPT ![t] = record]

(* A thread that calls kernel k: no argument is set yet.  alone says that  *)
(* no other thread is in a call of the same kernel; what is wanted is told *)
(* from the arguments that the caller has.                                 *)
Calling(t, k, sig, call) ==
  [at |-> "args", knl |-> k, sig |-> sig, call |-> call, next |-> 1, alone |-> TRUE]

(* first_arg_dependent_memoize, and the nested one: a kernel remembered,   *)
(* or the function is called.                                              *)
GetKernel(t, sig) ==
  /\ Begin(t)
  /\ Becomes(t, IF memo[sig] # No THEN Calling(t, memo[sig], sig, calls')
                ELSE [at |-> "function", sig |-> sig, call |-> calls', cleared |-> cleared])
  /\ UNCHANGED <<bug, memo, cleared, program, kernels, launched>>

(* The function builds a program, makes a kernel and tells it the types of *)
(* its arguments; it may raise.  What it made is stored in the dictionary  *)
(* that the thread found, even if that was cleared meanwhile.              *)
MakeKernel(t) ==
  LET me   == thread[t]
      body == HandlingBody(me.sig, TRUE)
  IN  /\ me.at = "function"
      /\ IF body.raised THEN Becomes(t, Idle) /\ UNCHANGED <<kernels, memo>>
         ELSE /\ kernels' = Append(kernels, NewKernel(me.sig, body))
              /\ memo' = IF me.cleared = cleared THEN [memo EXCEPT ![me.sig] = Len(kernels')] ELSE memo
              /\ Becomes(t, Calling(t, Len(kernels'), me.sig, me.call))
      /\ UNCHANGED <<bug, cleared, program, calls, launched>>
FunctionFails(t) ==
  /\ thread[t].at = "function" /\ Becomes(t, Idle)
  /\ UNCHANGED <<bug, memo, cleared, program, kernels, calls, launched>>

(* clear_first_arg_caches                                                  *)
ClearCaches ==
  /\ cleared = 0 /\ cleared' = 1
  /\ memo' = [s \in Signatures |-> No]
  /\ UNCHANGED <<bug, program, kernels, thread, calls, launched>>

-----------------------------------------------------------------------------
(* Program.__getattr__ of a kernel: a kernel of its own for every access.  *)
(* There is one only if the program is built, and the access makes an      *)
(* uncached program if there is none (_get_prg).                           *)
_get_prg == IF program._prg = "none" THEN [program EXCEPT !._prg = "raw"] ELSE program
KernelOfProgram(t, sig) ==
  LET body == HandlingBody(sig, FALSE) IN
  /\ Begin(t)
  /\ IF program._prg # "built"
     THEN program' = _get_prg /\ UNCHANGED <<kernels, thread>>
     ELSE /\ program' = [program EXCEPT !.attached = TRUE]
          /\ IF body.raised THEN UNCHANGED <<kernels, thread>>
             ELSE /\ kernels' = Append(kernels, NewKernel(sig, body))
                  /\ Becomes(t, Calling(t, Len(kernels'), sig, calls'))
  /\ UNCHANGED <<bug, memo, cleared, launched>>

(* build: with a _prg, that one is built; without, the cache is asked (or  *)
(* the source built, without a cache).  A program without its context      *)
(* raises.                                                                 *)
BuildProgram(t, cached) ==
  /\ Begin(t) /\ program._context
  /\ program' = IF cached THEN program ELSE _get_prg
  /\ Becomes(t, [at |-> "build", cached |-> program'._prg = "none"])
  /\ UNCHANGED <<bug, memo, cleared, kernels, launched>>

(* A cached build sets _prg and deletes _context, so that the second of    *)
(* two threads raises, after it has set _prg.  An uncached one concerns    *)
(* the _prg it began with; the driver refuses to build a program that has  *)
(* kernels.                                                                *)
BuildEnds(t, built) ==
  /\ thread[t].at = "build" /\ Becomes(t, Idle)
  /\ program' =
       IF thread[t].cached
       THEN IF built THEN [_prg |-> "built", _context |-> FALSE, attached |-> FALSE] ELSE program
       ELSE IF program._context /\ ~program.attached
            THEN [program EXCEPT !._prg = IF built THEN "built" ELSE "raw"] ELSE program
  /\ UNCHANGED <<bug, memo, cleared, kernels, calls, launched>>

(* compile, then link_program, whose result is a Program of its own.       *)
CompileProgram(t) ==
  /\ Begin(t) /\ program._context /\ ~program.attached
  /\ program' = [program EXCEPT !._prg = "compiled"]
  /\ UNCHANGED <<bug, memo, cleared, kernels, thread, launched>>
LinkProgram(t) ==
  /\ Begin(t) /\ program._prg = "compiled" /\ \A u \in Threads : thread[u].at # "build"
  /\ program' = [_prg |-> "built", _context |-> TRUE, attached |-> FALSE]
  /\ UNCHANGED <<bug, memo, cleared, kernels, thread, launched>>

-----------------------------------------------------------------------------
(* The generated code sets the arguments one by one ...                    *)
SetArg(t) ==
  LET me == thread[t]
      others == {u \in Threads \ {t} : thread[u].at = "args" /\ thread[u].knl = me.knl}
  IN
  /\ me.at = "args" /\ me.next <= Len(kernels[me.knl].setters)
  /\ kernels' = [kernels EXCEPT ![me.knl].slots[me.next] = <<me.call>> \o kernels[me.knl].setters[me.next]]
  /\ thread' = [u \in Threads |->
       IF u = t THEN [me EXCEPT !.next = @ + 1, !.alone = @ /\ others = {}]
       ELSE IF u \in others THEN [thread[u] EXCEPT !.alone = FALSE] ELSE thread[u]]
  /\ UNCHANGED <<bug, memo, cleared, program, calls, launched>>

(* ... or raises at one of them (wrap_in_error_handler), and the arguments *)
(* before it stay set.                                                     *)
ArgFails(t) ==
  /\ thread[t].at = "args" /\ thread[t].next <= Len(kernels[thread[t].knl].setters)
  /\ Becomes(t, Idle)
  /\ UNCHANGED <<bug, memo, cleared, program, kernels, calls, launched>>

(* enqueue_nd_range_kernel takes the arguments as they are set now.        *)
Enqueue(t) ==
  LET me == thread[t] IN
  /\ me.at = "args" /\ me.next = Len(kernels[me.knl].setters) + 1
  /\ launched' = <<[slots |-> kernels[me.knl].slots, sig |-> me.sig,
                     call |-> me.call, alone |-> me.alone]>>
  /\ Becomes(t, Idle)
  /\ UNCHANGED <<bug, memo, cleared, program, kernels, calls>>

ProgramsNext ==
  \/ ClearCaches
  \/ \E t \in Threads :
       \/ \E sig \in Signatures : GetKernel(t, sig) \/ KernelOfProgram(t, sig)
       \/ MakeKernel(t) \/ FunctionFails(t)
       \/ \E b \in BOOLEAN : BuildProgram(t, b) \/ BuildEnds(t, b)
       \/ CompileProgram(t) \/ LinkProgram(t)
       \/ SetArg(t) \/ ArgFails(t) \/ Enqueue(t)

ProgramsSpec == ProgramsInit /\ [][ProgramsNext]_programvars

-----------------------------------------------------------------------------
(* A kernel that is enqueued gets the arguments of its own call, each      *)
(* where the device takes it, whatever was set or failed to be set before, *)
(* whether it was remembered, made anew or made by two threads at once.    *)
(* The one exception is what the documentation of Kernel.__call__ excludes,*)
(* two threads in calls of the same kernel.  A program that has given up   *)
(* its context never needs it again.                                       *)
KernelRunsWithItsArguments ==
  /\ launched # << >> =>
       LET run  == launched[1]
           want == DeviceSlots(ArgDtypes(run.sig))
       IN  run.alone => run.slots = [p \in DOMAIN want |-> <<run.call>> \o want[p]]
  /\ ~program._context => program._prg = "built"
=============================================================================
