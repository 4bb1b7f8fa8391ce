---------------------------- MODULE MCRadixOrder ----------------------------
(* A radix sort of values and keys whose sort_arg_names are in another     *)
(* order than its arguments.                                               *)
EXTENDS Algorithms

MCJobs ==
  [kind : {"radix"}, ary : [1 .. 3 -> 0 .. 3], satisfying : {{1}}, sort_arg_names : {<<"keys", "values">>},
   bits_at_a_time : {1, 2}, key_bits : {2}, eliminate : {FALSE}]
=============================================================================
