---------------------------- MODULE ChangeSignal ----------------------------
(***************************************************************************)
(* What the file watcher promises to its callback, without its queue, its  *)
(* debounce timer and its tasks.                                           *)
(*                                                                         *)
(* Changes are unseen until a call of the callback covers them, and a call *)
(* covers only changes reported before it started.  Calls never overlap.   *)
(* A change whose burst went quiet during a call (late) is covered by the  *)
(* very next call, which starts as that call returns: one follow-up,       *)
(* however many bursts there were.  Nothing is dropped before the watch    *)
(* stops.                                                                  *)
(***************************************************************************)
CONSTANT Events  \* the changes

VARIABLES unseen,    \* changes no call covers yet
          late,      \* those of them whose burst went quiet during the call
          covering,  \* the changes the running call covers; {} without a call
          stopped

signalVars == <<unseen, late, covering, stopped>>

Init == unseen = {} /\ late = {} /\ covering = {} /\ stopped = FALSE

Change(e) ==
    /\ e \notin unseen \cup covering
    /\ unseen' = unseen \cup {e}
    /\ UNCHANGED <<late, covering, stopped>>

\* A burst goes quiet while nothing runs: a call starts.
Call(burst) ==
    /\ ~stopped
    /\ covering = {}
    /\ burst # {} /\ burst \subseteq unseen
    /\ covering' = burst
    /\ unseen' = unseen \ burst
    /\ UNCHANGED <<late, stopped>>

\* A burst goes quiet during a call.
Defer(burst) ==
    /\ ~stopped
    /\ covering # {}
    /\ burst # {} /\ burst \subseteq unseen \ late
    /\ late' = late \cup burst
    /\ UNCHANGED <<unseen, covering, stopped>>

\* A call returns; everything late is covered by the one follow-up.
Return ==
    /\ covering # {}
    /\ covering' = late
    /\ unseen' = unseen \ late
    /\ late' = {}
    /\ UNCHANGED stopped

Stop ==
    /\ ~stopped
    /\ stopped' = TRUE
    /\ unseen' \subseteq unseen
    /\ late' = {}
    /\ covering' = {}

Next == \/ \E e \in Events : Change(e)
        \/ \E burst \in SUBSET unseen : Call(burst) \/ Defer(burst)
        \/ Return
        \/ Stop

Spec == Init /\ [][Next]_signalVars
=============================================================================
