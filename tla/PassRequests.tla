---------------------------- MODULE PassRequests ----------------------------
(***************************************************************************)
(* What the refresh queue promises to the watchers that feed it, without   *)
(* its dictionaries, events and locks.                                     *)
(*                                                                         *)
(* Each key (job kind and branch) has a set of outstanding requests: those *)
(* that arrived since its last pass started.  A pass starts alone, takes   *)
(* every outstanding request of the most urgent key at once, and is told   *)
(* what the whole set asks for.  Nothing else ever removes a request.      *)
(***************************************************************************)
EXTENDS Integers, FiniteSets, FiniteSetsExt

CONSTANTS Keys,   \* the job keys
          Paths,  \* the changed paths a request may name
          Heads,  \* the commits a ref event may report
          Stamps, \* the arrival numbers, naturals
          None    \* no head known: the request must always run

VARIABLES outstanding,  \* key |-> its requests since its last pass started
          pass          \* what the running pass was told, or None

Priorities == 0..3

Request == [paths    : SUBSET Paths,
            priority : Priorities,
            sequence : Stamps,
            refHead  : Heads \cup {None}]

-----------------------------------------------------------------------------
(* What a set of requests asks for. *)

\* A request without paths asks for the whole branch and absorbs the others.
PathsAsked(R) ==
    IF \E r \in R : r.paths = {} THEN {} ELSE UNION {r.paths : r \in R}

\* One request that must always run makes the pass unconditional; otherwise
\* the newest request knows the newest head.
HeadAsked(R) ==
    IF \E r \in R : r.refHead = None
    THEN None
    ELSE (CHOOSE r \in R : \A q \in R : q.sequence <= r.sequence).refHead

PriorityAsked(R) == Min({r.priority : r \in R})

FirstAsked(R) == Min({r.sequence : r \in R})

\* The most urgent member decides the class of a key, its oldest request the
\* order within the class.
MoreUrgent(R, S) ==
    \/ PriorityAsked(R) < PriorityAsked(S)
    \/ /\ PriorityAsked(R) = PriorityAsked(S)
       /\ FirstAsked(R) < FirstAsked(S)

-----------------------------------------------------------------------------
Init == /\ outstanding = [k \in Keys |-> {}]
        /\ pass = None

Ask(k, r) ==
    /\ \A j \in Keys : \A q \in outstanding[j] : q.sequence < r.sequence
    /\ outstanding' = [outstanding EXCEPT ![k] = @ \cup {r}]
    /\ UNCHANGED pass

Begin(k) ==
    /\ pass = None
    /\ outstanding[k] # {}
    /\ \A j \in Keys \ {k} :
          outstanding[j] # {} => MoreUrgent(outstanding[k], outstanding[j])
    /\ pass' = [key     |-> k,
                paths   |-> PathsAsked(outstanding[k]),
                refHead |-> HeadAsked(outstanding[k])]
    /\ outstanding' = [outstanding EXCEPT ![k] = {}]

End == /\ pass # None
       /\ pass' = None
       /\ UNCHANGED outstanding

Next == \/ \E k \in Keys : (\E r \in Request : Ask(k, r)) \/ Begin(k)
        \/ End

Spec == Init /\ [][Next]_<<outstanding, pass>>
=============================================================================
