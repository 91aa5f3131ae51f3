------------------------------ MODULE RollBack ------------------------------
(***************************************************************************)
(* The height-stamped undo history of lib/state/rollback.rs.               *)
(*                                                                         *)
(* A RollBack<T> is a non-empty list of values, each with the sidechain    *)
(* height at which it was set.  It is modelled as a sequence of stamped    *)
(* values; the empty sequence stands for the `None` that `pop` returns     *)
(* when the list had a single value, and for a key with no database entry. *)
(***************************************************************************)
EXTENDS Naturals, Sequences

\* HeightStamped<T>.
HeightStamped(T) == [value : T, height : Nat]

\* RollBack<T>, with <<>> for "no entry".
RollBackOf(T) == Seq(HeightStamped(T))

\* RollBack::latest; the history must not be empty.
Latest(rb) == rb[Len(rb)]

\* RollBack::push fails iff the latest value has a greater height.  A push to
\* an absent entry is RollBack::new.
CanPush(rb, height) == rb # << >> => Latest(rb).height =< height

\* RollBack::push, and RollBack::new on an absent entry.
Push(rb, value, height) == Append(rb, [value |-> value, height |-> height])

\* The history that RollBack::pop leaves; <<>> when the last value goes.
Pop(rb) == SubSeq(rb, 1, Len(rb) - 1)

=============================================================================
