---------------------------- MODULE ExclusiveLease ----------------------------
(***************************************************************************)
(* What the Lease interface (stepLease/lease.go) promises, whatever the    *)
(* backend, in terms of what its clients hold in their hands: a claim on a *)
(* step is good until its deadline or until its owner gives it up, and no  *)
(* claim is granted or extended while another client's is good.            *)
(***************************************************************************)
EXTENDS Naturals

CONSTANTS Leasables, Owners, Duration, NoClaim

VARIABLES clock, claims     \* [Owners -> [of : Leasables, until : Nat] or NoClaim]

leaseVars == <<clock, claims>>

Good(c, s) == claims[c] # NoClaim /\ claims[c].of = s /\ clock < claims[c].until

Unclaimed(s, c) == \A b \in Owners \ {c} : ~Good(b, s)

Grant(c, s) ==
    /\ Unclaimed(s, c) /\ ~Good(c, s)
    /\ claims' = [claims EXCEPT ![c] = [of |-> s, until |-> clock + Duration]]
    /\ UNCHANGED clock

Extend(c) ==
    /\ claims[c] # NoClaim
    /\ clock <= claims[c].until
    /\ Unclaimed(claims[c].of, c)
    /\ claims' = [claims EXCEPT ![c].until = clock + Duration]
    /\ UNCHANGED clock

GiveUp(c) == claims' = [claims EXCEPT ![c] = NoClaim] /\ UNCHANGED clock

Pass == clock' = clock + 1 /\ UNCHANGED claims

ExclusiveInit == clock = 0 /\ claims = [c \in Owners |-> NoClaim]

ExclusiveNext ==
    \/ \E c \in Owners : Extend(c) \/ GiveUp(c) \/ \E s \in Leasables : Grant(c, s)
    \/ Pass

ExclusiveSpec == ExclusiveInit /\ [][ExclusiveNext]_leaseVars
=============================================================================
