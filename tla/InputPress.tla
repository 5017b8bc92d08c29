----------------------------- MODULE InputPress -----------------------------
(***************************************************************************)
(* What the input service promises its subscribers, key by key: a Press   *)
(* opens a press with a fresh sequence counter; a press is either short   *)
(* (a Short published just before its Release) or long (one Long, then    *)
(* any number of Repeats, then the Release, with no Short).  Every event  *)
(* of a press carries that press's sequence counter.                      *)
(*                                                                         *)
(* A key already down when the service starts has no Press; its release  *)
(* is reported like a short press.                                        *)
(***************************************************************************)
EXTENDS Naturals, Sequences

CONSTANTS
    NumKeys,      \* keys 1..NumKeys, in input_pins order
    CounterMax    \* largest value of the sequence counter before it wraps

Keys == 1..NumKeys
Counter == 0..CounterMax

VARIABLES
    phase,        \* [Keys -> {"up", "down", "long"}]
    seq_of,       \* sequence counter of each key's current press
    counter,      \* last sequence counter handed out
    events        \* published events, in order

Ev(type, k, s) == [type |-> type, key |-> k, seq |-> s]

Init ==
    /\ phase \in [Keys -> {"up", "down"}]
    /\ seq_of \in [Keys -> Counter]
    /\ counter \in Counter
    /\ events = <<>>

Press(k) ==
    /\ phase[k] = "up"
    /\ counter' = (counter + 1) % (CounterMax + 1)
    /\ seq_of' = [seq_of EXCEPT ![k] = counter']
    /\ phase' = [phase EXCEPT ![k] = "down"]
    /\ events' = Append(events, Ev("Press", k, counter'))

Long(k) ==
    /\ phase[k] = "down"
    /\ phase' = [phase EXCEPT ![k] = "long"]
    /\ events' = Append(events, Ev("Long", k, seq_of[k]))
    /\ UNCHANGED <<seq_of, counter>>

Repeat(k) ==
    /\ phase[k] = "long"
    /\ events' = Append(events, Ev("Repeat", k, seq_of[k]))
    /\ UNCHANGED <<phase, seq_of, counter>>

Release(k) ==
    /\ phase[k] # "up"
    /\ phase' = [phase EXCEPT ![k] = "up"]
    /\ events' = events
                 \o (IF phase[k] = "down" THEN <<Ev("Short", k, seq_of[k])>> ELSE <<>>)
                 \o <<Ev("Release", k, seq_of[k])>>
    /\ UNCHANGED <<seq_of, counter>>

Next == \E k \in Keys : Press(k) \/ Long(k) \/ Repeat(k) \/ Release(k)

Spec == Init /\ [][Next]_<<phase, seq_of, counter, events>>
=============================================================================
