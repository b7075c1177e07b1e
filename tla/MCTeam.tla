------------------------------- MODULE MCTeam -------------------------------
(* WebTeam on small instances. *)
EXTENDS WebTeam, TLC

\* Which message is which matters to nobody.
Symmetry == Permutations(Msgs)

\* No account at first.
NoAccount == {<<>>}
OneActive == "n1" :> "active"

\* Everyone may sign in as an owner, who may open every page.
AllOwners == [a \in Accounts |-> "owner"]

\* The default channel, the channel of a team with an unread message, and two direct
\* conversations that only their time tells apart.
FourRooms ==
  "r1" :> [type |-> "channel", team |-> Nil, starred |-> TRUE, unread |-> 0]
    @@ "r2" :> [type |-> "team", team |-> "t0", starred |-> FALSE, unread |-> 1]
    @@ "r3" :> [type |-> "direct", team |-> Nil, starred |-> FALSE, unread |-> 0]
    @@ "r4" :> [type |-> "direct", team |-> Nil, starred |-> FALSE, unread |-> 0]
ThreeOfThem == <<"r3", "r2", "r1">>

\* One assistant, in the default team; the other team is empty.
OneAssistant == <<[id |-> "a1", team |-> Nil, role |-> "assistant", terminal |-> "offline"]>>
TwoTeams == <<[team |-> "t0", members |-> <<"a1">>], [team |-> "t1", members |-> <<>>]>>

\* The profile shows what it is by default when it is empty; sounds are then off.
SoundsOff == [s \in Sections |-> IF s = "profile" THEN 0 ELSE 1]
\* Nothing is stored, or a key for one provider and a second below another mode.
NoneOrTwoKeys ==
  {Untouched, [values |-> [s \in Sections |-> 0], auth |-> "p1" :> "key" @@ "p2" :> "spare"]}

\* Two requests are open at the start, one of high risk; the third is decided.
TwoOpen == "q1" :> "pending" @@ "q2" :> "pending" @@ "q3" :> "approved"

\* Each member is in the team of its number.
TeamOfMember == ("m1" :> "t1") @@ ("m2" :> "t2")
=============================================================================
