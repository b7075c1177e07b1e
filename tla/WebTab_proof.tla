---------------------------- MODULE WebTab_proof ----------------------------
(***************************************************************************)
(* The wire of a tab: which requests are open after one is sent, answered  *)
(* or settled, for bags of any size; selections from a list, and the sizes *)
(* of finite sets.                                                         *)
(***************************************************************************)
EXTENDS WebTab, TLAPS

WF == INSTANCE WellFoundedInduction

LEMMA AddOpens ==
  ASSUME NEW B, NEW x
  PROVE  BagToSet(BagAdd(B, x)) = BagToSet(B) \cup {x}
BY DEF BagToSet, BagAdd

LEMMA RemoveCloses ==
  ASSUME NEW B, NEW x
  PROVE  /\ BagToSet(BagRemove(B, x)) \subseteq BagToSet(B)
         /\ BagToSet(B) \subseteq BagToSet(BagRemove(B, x)) \cup {x}
BY DEF BagToSet, BagRemove

LEMMA AskOpens ==
  ASSUME NEW x, Ask(x)
  PROVE  Open' = Open \cup {x}
BY AddOpens DEF Open, Ask

\* Another copy of r may stay open.
LEMMA ReplyOpens ==
  ASSUME NEW r, NEW x, Reply(r, x)
  PROVE  Open' \subseteq Open \cup {x} /\ Open \subseteq Open' \cup {r} /\ x \in Open'
BY AddOpens, RemoveCloses DEF Open, Reply

LEMMA SettleOpens ==
  ASSUME NEW r, wire' = Settled(r)
  PROVE  Open' \subseteq Open /\ Open \subseteq Open' \cup {r}
BY RemoveCloses DEF Open, Settled

\* A handler goes on with its next request.
LEMMA FollowOpens ==
  ASSUME NEW r, NEW x, wire' = BagAdd(Settled(r), x)
  PROVE  Open' \subseteq Open \cup {x} /\ Open \subseteq Open' \cup {r} /\ x \in Open'
BY AddOpens, RemoveCloses DEF Open, Settled

\* The requests that may be open stay so if what is sent is one of them.
LEMMA AskKept ==
  ASSUME NEW A, Open \subseteq A, NEW x \in A, Ask(x)
  PROVE  Open' \subseteq A
BY AskOpens

LEMMA ReplyKept ==
  ASSUME NEW A, Open \subseteq A, NEW r, NEW x \in A, Reply(r, x)
  PROVE  Open' \subseteq A
BY ReplyOpens

LEMMA SettleKept ==
  ASSUME NEW A, Open \subseteq A, NEW r, wire' = Settled(r)
  PROVE  Open' \subseteq A
BY SettleOpens

LEMMA FollowKept ==
  ASSUME NEW A, Open \subseteq A, NEW r, NEW x \in A, wire' = BagAdd(Settled(r), x)
  PROVE  Open' \subseteq A
BY FollowOpens

LEMMA MountOpens ==
  ASSUME NEW p, NEW s, NEW v, NEW S, Mounting(p, s, v, SetToBag(S))
  PROVE  Open' = S
BY DEF Mounting, Open, BagToSet, SetToBag

LEMMA MountEmpty ==
  ASSUME NEW p, NEW s, NEW v, Mounting(p, s, v, EmptyBag)
  PROVE  Open' = {}
BY DEF Mounting, Open, BagToSet, EmptyBag, SetToBag
-----------------------------------------------------------------------------
(* How many copies of a request are open.                                   *)

LEMMA AskCopies ==
  ASSUME NEW x, Ask(x)
  PROVE  /\ \A y : y # x => Copies(y)' = Copies(y)
         /\ x \notin Open => Copies(x)' = 1
BY DEF Ask, Copies, BagAdd, Open, BagToSet

\* What is put for r closes the last copy of r.
LEMMA SettleCopies ==
  ASSUME NEW r, wire' = Settled(r)
  PROVE  /\ \A y : y # r => Copies(y)' = Copies(y)
         /\ r \in Open /\ Copies(r) = 1 => r \notin Open'
BY DEF Settled, Copies, BagRemove, Open, BagToSet

LEMMA FollowCopies ==
  ASSUME NEW r, NEW x, wire' = BagAdd(Settled(r), x)
  PROVE  /\ \A y : y # r /\ y # x => Copies(y)' = Copies(y)
         /\ r \in Open /\ Copies(r) = 1 /\ x # r => r \notin Open'
         /\ x \notin Open => Copies(x)' = 1
         /\ r \in Open /\ Copies(r) = 1 /\ x = r => Copies(x)' = 1
<1> DEFINE B == Settled(r)
<1>1. /\ \A y : y # r => (y \in DOMAIN B <=> y \in DOMAIN wire)
      /\ \A y \in DOMAIN B : y # r => B[y] = wire[y]
      /\ r \in DOMAIN wire /\ wire[r] = 1 => r \notin DOMAIN B
      /\ r \notin DOMAIN wire => r \notin DOMAIN B
  BY DEF Settled, BagRemove
<1> HIDE DEF B
<1>2. wire' = BagAdd(B, x)
  BY DEF B
<1>3. /\ \A y : y # x => (y \in DOMAIN wire' <=> y \in DOMAIN B)
      /\ \A y \in DOMAIN B : y # x => wire'[y] = B[y]
      /\ x \notin DOMAIN B => x \in DOMAIN wire' /\ wire'[x] = 1
  BY <1>2 DEF BagAdd
<1>4. \A y : y # r /\ y # x => Copies(y)' = Copies(y)
  BY <1>1, <1>3 DEF Copies
<1>5. x \notin Open => Copies(x)' = 1
  BY <1>1, <1>3 DEF Copies, Open, BagToSet
<1> QED BY <1>1, <1>3, <1>4, <1>5 DEF Copies, Open, BagToSet

\* A reply in place of a request.
LEMMA ReplyCopies ==
  ASSUME NEW r, NEW x, Reply(r, x)
  PROVE  /\ \A y : y # r /\ y # x => Copies(y)' = Copies(y)
         /\ r \in Open /\ Copies(r) = 1 /\ x # r => r \notin Open'
         /\ x \notin Open => Copies(x)' = 1
         /\ r \in Open /\ Copies(r) = 1 /\ x = r => Copies(x)' = 1
BY FollowCopies DEF Reply, Settled

\* Some requests become others.
LEMMA BecomeOpens ==
  ASSUME NEW B, NEW f, NEW y
  PROVE  y \in BagToSet(Become(B, f)) <=>
           \/ y \in BagToSet(B) /\ y \notin DOMAIN f
           \/ \E s \in DOMAIN f : s \in BagToSet(B) /\ y = f[s]
BY DEF Become, BagToSet, (+)

LEMMA DetachOpens ==
  ASSUME NEW B, NEW S, NEW y
  PROVE  y \in BagToSet(Detached(B, S)) <=>
           \/ y \in BagToSet(B) /\ y \notin S
           \/ \E s \in S : s \in BagToSet(B) /\ y = [s EXCEPT !.live = FALSE]
<1> DEFINE f == [r \in S |-> [r EXCEPT !.live = FALSE]]
<1>1. Detached(B, S) = Become(B, f) /\ DOMAIN f = S /\ \A s \in S : f[s] = [s EXCEPT !.live = FALSE]
  BY DEF Detached
<1> HIDE DEF f
<1>2. y \in BagToSet(Become(B, f)) <=>
           \/ y \in BagToSet(B) /\ y \notin DOMAIN f
           \/ \E s \in DOMAIN f : s \in BagToSet(B) /\ y = f[s]
  BY BecomeOpens
<1> QED BY <1>1, <1>2

LEMMA BecomeCopies ==
  ASSUME NEW B, NEW f, NEW y \in BagToSet(B), y \notin DOMAIN f, \A s \in DOMAIN f : f[s] # y,
         B[y] = 1
  PROVE  Become(B, f)[y] = 1
BY DEF Become, BagToSet, (+)

LEMMA BecomeOnes ==
  ASSUME NEW B, NEW f, \A x \in BagToSet(B) : B[x] = 1,
         \A s \in DOMAIN f : s \in BagToSet(B) => f[s] \notin BagToSet(B) \ DOMAIN f
  PROVE  \A x \in BagToSet(Become(B, f)) : Become(B, f)[x] = 1
<1> DEFINE S == DOMAIN f \cap DOMAIN B
           P == [r \in DOMAIN B \ S |-> B[r]]
           Q == [y \in {f[s] : s \in S} |-> B[CHOOSE s \in S : f[s] = y]]
<1>1. Become(B, f) = P (+) Q
  BY DEF Become
<1>2. \A y \in DOMAIN Q : Q[y] = 1
  <2> SUFFICES ASSUME NEW y \in DOMAIN Q PROVE Q[y] = 1
    OBVIOUS
  <2>1. \E s \in S : f[s] = y
    OBVIOUS
  <2>2. (CHOOSE s \in S : f[s] = y) \in S
    BY <2>1
  <2> QED BY <2>2 DEF BagToSet
<1>3. \A x \in DOMAIN P : P[x] = 1 /\ x \notin DOMAIN Q
  BY DEF BagToSet
<1> HIDE DEF P, Q
<1>4. \A x \in DOMAIN P \cup DOMAIN Q : (P (+) Q)[x] = 1
  BY <1>2, <1>3 DEF (+)
<1> QED BY <1>1, <1>4 DEF BagToSet, (+)

LEMMA DetachCopies ==
  ASSUME NEW B, NEW S, NEW y \in BagToSet(B), y \notin S,
         \A s \in S : [s EXCEPT !.live = FALSE] # y, B[y] = 1
  PROVE  Detached(B, S)[y] = 1
<1> DEFINE f == [r \in S |-> [r EXCEPT !.live = FALSE]]
<1>1. Detached(B, S) = Become(B, f) /\ DOMAIN f = S /\ \A s \in S : f[s] = [s EXCEPT !.live = FALSE]
  BY DEF Detached
<1> HIDE DEF f
<1>2. Become(B, f)[y] = 1
  BY <1>1, BecomeCopies
<1> QED BY <1>1, <1>2

-----------------------------------------------------------------------------
(***************************************************************************)
(* Chains.  A chain C is the requests that one handler has open; D is what *)
(* a step makes of it.  It has one request at most, if it starts when it   *)
(* is empty, goes on in place of a request of its own, and if no other     *)
(* request joins it or leaves it.                                          *)
(***************************************************************************)
LEMMA ChainAsk ==
  ASSUME NEW C, NEW D, NEW x, C \subseteq Open, D \subseteq Open', Ask(x), OneAtMost(C),
         \A y \in Open : y \in D <=> y \in C, x \in D => C = {}
  PROVE  /\ D = C \cup (D \cap {x})
         /\ \A y, z \in D : y = z /\ Copies(y)' = 1
<1>1. Open' = Open \cup {x}
  BY AskOpens
<1>2. /\ \A y : y # x => Copies(y)' = Copies(y)
      /\ x \notin Open => Copies(x)' = 1
  BY AskCopies
<1> QED BY <1>1, <1>2 DEF OneAtMost

LEMMA ChainFollow ==
  ASSUME NEW C, NEW D, NEW r \in Open, NEW x, C \subseteq Open, D \subseteq Open',
         wire' = BagAdd(Settled(r), x), OneAtMost(C),
         \A y \in Open : y \in Open' => (y \in D <=> y \in C), x \in D => r \in C
  PROVE  /\ r \in C => D = D \cap {x}
         /\ r \notin C => D = C
         /\ \A y, z \in D : y = z /\ Copies(y)' = 1
<1>1. Open' \subseteq Open \cup {x} /\ Open \subseteq Open' \cup {r} /\ x \in Open'
  BY FollowOpens
<1>2. /\ \A y : y # r /\ y # x => Copies(y)' = Copies(y)
      /\ r \in Open /\ Copies(r) = 1 /\ x # r => r \notin Open'
      /\ x \notin Open => Copies(x)' = 1
      /\ r \in Open /\ Copies(r) = 1 /\ x = r => Copies(x)' = 1
  BY FollowCopies
<1>3. CASE r \in C
  <2>1. C = {r} /\ Copies(r) = 1
    BY <1>3 DEF OneAtMost
  <2> QED BY <1>1, <1>2, <1>3, <2>1
<1>4. CASE r \notin C
  <2>1. D = C
    BY <1>1, <1>4
  <2> QED BY <1>2, <1>4, <2>1 DEF OneAtMost
<1> QED BY <1>3, <1>4

LEMMA ChainReply ==
  ASSUME NEW C, NEW D, NEW r \in Open, NEW x, C \subseteq Open, D \subseteq Open',
         Reply(r, x), OneAtMost(C),
         \A y \in Open : y \in Open' => (y \in D <=> y \in C), x \in D => r \in C
  PROVE  /\ r \in C => D = D \cap {x}
         /\ r \notin C => D = C
         /\ \A y, z \in D : y = z /\ Copies(y)' = 1
BY ChainFollow DEF Reply, Settled

LEMMA ChainSettle ==
  ASSUME NEW C, NEW D, NEW r \in Open, C \subseteq Open, D \subseteq Open',
         wire' = Settled(r), OneAtMost(C),
         \A y \in Open : y \in Open' => (y \in D <=> y \in C)
  PROVE  /\ r \in C => D = {}
         /\ r \notin C => D = C
         /\ \A y, z \in D : y = z /\ Copies(y)' = 1
<1>1. Open' \subseteq Open /\ Open \subseteq Open' \cup {r}
  BY SettleOpens
<1>2. /\ \A y : y # r => Copies(y)' = Copies(y)
      /\ r \in Open /\ Copies(r) = 1 => r \notin Open'
  BY SettleCopies
<1>3. CASE r \in C
  <2>1. C = {r} /\ Copies(r) = 1
    BY <1>3 DEF OneAtMost
  <2> QED BY <1>1, <1>2, <1>3, <2>1
<1>4. CASE r \notin C
  <2>1. D = C
    BY <1>1, <1>4
  <2> QED BY <1>2, <1>4, <2>1 DEF OneAtMost
<1> QED BY <1>3, <1>4

-----------------------------------------------------------------------------
(* Answers keep what was asked.                                             *)

LEMMA AnswerKeeps ==
  ASSUME NEW r
  PROVE  /\ DOMAIN Answered(r) = DOMAIN r
         /\ "stage" \in DOMAIN r => Answered(r)["stage"] = "ok"
         /\ \A k \in DOMAIN r : k # "stage" => Answered(r)[k] = r[k]
BY DEF Answered

LEMMA AnswerWithKeeps ==
  ASSUME NEW r, NEW f
  PROVE  /\ DOMAIN AnsweredWith(r, f) = DOMAIN r \cup DOMAIN f
         /\ \A k \in DOMAIN r : k \notin DOMAIN f /\ k # "stage" => AnsweredWith(r, f)[k] = r[k]
         /\ \A k \in DOMAIN f : AnsweredWith(r, f)[k] = f[k]
BY DEF Answered, AnsweredWith, Joined

LEMMA AnswerWithAsks ==
  ASSUME NEW r, {"op", "stage"} \subseteq DOMAIN r, NEW f, DOMAIN f \cap {"op", "stage"} = {}
  PROVE  /\ {"op", "stage"} \subseteq DOMAIN AnsweredWith(r, f)
         /\ AnsweredWith(r, f).op = r.op /\ AnsweredWith(r, f).stage = "ok"
<1> DEFINE x == AnsweredWith(r, f)
<1>1. DOMAIN x = DOMAIN r \cup DOMAIN f
      /\ \A k \in DOMAIN r : k \notin DOMAIN f /\ k # "stage" => x[k] = r[k]
  BY AnswerWithKeeps
<1>2. x["stage"] = "ok"
  BY DEF AnsweredWith, Answered, Joined
<1> HIDE DEF x
<1>3. x["op"] = r["op"]
  BY <1>1
<1> QED BY <1>1, <1>2, <1>3 DEF x

-----------------------------------------------------------------------------
\* A set with one element at most has that many.
LEMMA CountsOne ==
  ASSUME NEW x, NEW T, T \subseteq {x}
  PROVE  Cardinality(T) = IF T = {} THEN 0 ELSE 1
<1> DEFINE Counts(f) == f = [S \in SUBSET T |-> IF S = {} THEN 0 ELSE 1 + f[S \ {CHOOSE y : y \in S}]]
           count == [S \in SUBSET T |-> IF S = {} THEN 0 ELSE 1]
           CS == CHOOSE f : Counts(f)
<1>1. Counts(count)
  <2>1. ASSUME NEW S \in SUBSET T, S # {}
        PROVE  S \ {CHOOSE y : y \in S} = {} /\ {} \in SUBSET T
    <3>1. (CHOOSE y : y \in S) \in S
      BY <2>1
    <3> QED BY <3>1
  <2>2. \A S \in SUBSET T : count[S] = IF S = {} THEN 0 ELSE 1 + count[S \ {CHOOSE y : y \in S}]
    BY <2>1
  <2> QED BY <2>2
<1>2. Counts(CS)
  <2> HIDE DEF Counts, count
  <2> QED BY <1>1
<1>3. Cardinality(T) = CS[T]
  BY DEF Cardinality
<1>4. CS[{}] = 0 /\ CS[T] = IF T = {} THEN 0 ELSE 1 + CS[T \ {CHOOSE y : y \in T}]
  <2> HIDE DEF CS
  <2> QED BY <1>2
<1>5. T # {} => T \ {CHOOSE y : y \in T} = {}
  <2>1. T # {} => (CHOOSE y : y \in T) \in T
    OBVIOUS
  <2> QED BY <2>1
<1> HIDE DEF CS
<1> QED BY <1>3, <1>4, <1>5

-----------------------------------------------------------------------------
(***************************************************************************)
(* What is selected of a sequence.  The library's theorems about induction *)
(* have an operator as parameter, which the provers cannot instantiate;    *)
(* the members of a set serve as well.                                     *)
(***************************************************************************)
LEMMA SetInduction ==
  ASSUME NEW S, 0 \in S, \A n \in Nat : n \in S => n + 1 \in S
  PROVE  \A n \in Nat : n \in S
<1> DEFINE R == {ss \in Nat \X Nat : ss[1] < ss[2]}
           T == Nat \ S
<1>1. SUFFICES ASSUME T # {} PROVE FALSE
  OBVIOUS
<1>2. PICK x \in T : \A y \in T : <<y, x>> \notin R
  <2>1. T \subseteq Nat /\ WF!IsWellFoundedOn(R, Nat)
    BY WF!NatLessThanWellFounded DEF WF!OpToRel
  <2> HIDE DEF T, R
  <2> QED BY <1>1, <2>1, WF!WFMin
<1>3. x - 1 \in Nat /\ x - 1 < x /\ x - 1 \notin S
  BY <1>2
<1> QED BY <1>2, <1>3

\* of is what is selected of the beginnings of s.
Selects(of, s, P) ==
  of = [n \in 0..Len(s) |-> IF n = 0 THEN <<>>
                            ELSE IF n \in P THEN Append(of[n - 1], s[n]) ELSE of[n - 1]]

LEMMA SelectionExists ==
  ASSUME NEW s, Len(s) \in Nat, NEW P
  PROVE  \E of : Selects(of, s, P) /\ Selected(s, P) = of[Len(s)]
<1> DEFINE Value(g, n) == IF n = 0 THEN <<>>
                          ELSE IF n \in P THEN Append(g[n - 1], s[n]) ELSE g[n - 1]
           Done == {m \in Nat : \E g : g = [n \in 0..m |-> Value(g, n)]}
<1>1. 0 \in Done
  <2> DEFINE g == [n \in 0..0 |-> <<>>]
  <2>1. g = [n \in 0..0 |-> Value(g, n)]
    OBVIOUS
  <2> QED BY <2>1
<1>2. ASSUME NEW m \in Nat, m \in Done PROVE m + 1 \in Done
  <2>1. PICK g : g = [n \in 0..m |-> Value(g, n)]
    BY <1>2
  <2> DEFINE h == [n \in 0..(m + 1) |-> IF n \in 0..m THEN g[n] ELSE Value(g, n)]
  <2>2. \A n \in 0..m : h[n] = g[n] /\ g[n] = Value(g, n)
    <3>1. DOMAIN h = 0..(m + 1) /\ \A n \in 0..m : h[n] = g[n]
      OBVIOUS
    <3>2. \A n \in 0..m : g[n] = Value(g, n)
      <4> HIDE DEF Value
      <4> QED BY <2>1
    <3> HIDE DEF h, Value
    <3> QED BY <3>1, <3>2
  <2>3. ASSUME NEW n \in 0..(m + 1) PROVE h[n] = Value(h, n)
    <3>1. h[n] = Value(g, n)
      BY <2>2
    <3>2. n # 0 => h[n - 1] = g[n - 1]
      BY <2>2
    <3> QED BY <3>1, <3>2
  <2>4. h = [n \in 0..(m + 1) |-> Value(h, n)]
    BY <2>3
  <2> HIDE DEF h, Value
  <2> QED BY <2>4
<1>3. Len(s) \in Done
  <2> HIDE DEF Done
  <2> QED BY <1>1, <1>2, SetInduction
<1>4. \E g : Selects(g, s, P)
  BY <1>3 DEF Selects
<1> DEFINE of == CHOOSE f : Selects(f, s, P)
<1>5. Selects(of, s, P)
  BY <1>4
<1>6. Selected(s, P) = of[Len(s)]
  BY DEF Selected, Selects
<1> HIDE DEF of
<1> QED BY <1>5, <1>6

\* It is made of elements of s at positions of P, in their order, and takes none
\* of them twice.
LEMMA SelectedInOrder ==
  ASSUME NEW T, NEW s \in Seq(T), NEW P
  PROVE  LET o == Selected(s, P)
         IN  /\ o \in Seq(T)
             /\ \A i \in 1..Len(o) : \E k \in P \cap (1..Len(s)) : o[i] = s[k]
             /\ \A i, j \in 1..Len(o) :
                  i < j => \E k, l \in 1..Len(s) : k < l /\ o[i] = s[k] /\ o[j] = s[l]
<1> DEFINE Good(o, m) ==
             /\ o \in Seq(T)
             /\ \A i \in DOMAIN o : \E k \in P \cap (1..m) : o[i] = s[k]
             /\ \A i, j \in DOMAIN o :
                  i < j => \E k, l \in 1..m : k < l /\ o[i] = s[k] /\ o[j] = s[l]
<1>1. PICK of : Selects(of, s, P) /\ Selected(s, P) = of[Len(s)]
  BY SelectionExists
<1>2. \A n \in 0..Len(s) : of[n] = IF n = 0 THEN <<>>
                                   ELSE IF n \in P THEN Append(of[n - 1], s[n]) ELSE of[n - 1]
  BY <1>1 DEF Selects
<1> DEFINE Done == {n \in Nat : n <= Len(s) => Good(of[n], n)}
<1>3. 0 \in Done
  <2>1. of[0] = <<>> /\ <<>> \in Seq(T) /\ DOMAIN <<>> = {}
    BY <1>2
  <2>2. Good(of[0], 0)
    BY <2>1
  <2> HIDE DEF Good
  <2> QED BY <2>2
<1>4. ASSUME NEW n \in Nat, n \in Done PROVE n + 1 \in Done
  <2>1. SUFFICES ASSUME n + 1 <= Len(s) PROVE Good(of[n + 1], n + 1)
    OBVIOUS
  <2>2. Good(of[n], n)
    BY <1>4, <2>1
  <2>3. of[n + 1] = IF n + 1 \in P THEN Append(of[n], s[n + 1]) ELSE of[n]
    BY <1>2, <2>1
  <2> DEFINE o == of[n]
  <2>4. CASE n + 1 \notin P
    BY <2>2, <2>3, <2>4
  <2>5. CASE n + 1 \in P
    <3> DEFINE q == Append(o, s[n + 1])
    <3>1. s[n + 1] \in T /\ o \in Seq(T)
      BY <2>1, <2>2
    <3>2. /\ q \in Seq(T) /\ Len(q) = Len(o) + 1 /\ DOMAIN q = 1..(Len(o) + 1)
          /\ \A i \in 1..Len(o) : q[i] = o[i]
          /\ q[Len(o) + 1] = s[n + 1] /\ DOMAIN o = 1..Len(o) /\ Len(o) \in Nat
      BY <3>1
    <3>3. \A i \in DOMAIN q : i \in DOMAIN o \/ i = Len(o) + 1
      BY <3>2
    <3>4. of[n + 1] = q
      BY <2>3, <2>5
    <3>0. /\ \A i \in DOMAIN o : \E k \in P \cap (1..n) : o[i] = s[k]
          /\ \A i, j \in DOMAIN o :
               i < j => \E k, l \in 1..n : k < l /\ o[i] = s[k] /\ o[j] = s[l]
      BY <2>2
    <3>e. \A i \in DOMAIN o : q[i] = o[i]
      BY <3>2
    <3> HIDE DEF q, o
    <3>5. \A i \in DOMAIN o : \E k \in P \cap (1..n) : q[i] = s[k]
      BY <3>0, <3>e
    <3>6. ASSUME NEW i \in DOMAIN o, NEW j \in DOMAIN o, i < j
          PROVE  \E k, l \in 1..n : k < l /\ q[i] = s[k] /\ q[j] = s[l]
      <4>1. q[i] = o[i] /\ q[j] = o[j]
        BY <3>e
      <4>2. PICK k, l \in 1..n : k < l /\ o[i] = s[k] /\ o[j] = s[l]
        BY <3>0, <3>6
      <4> QED BY <4>1, <4>2
    <3>7. \A i \in DOMAIN q : \E k \in P \cap (1..(n + 1)) : q[i] = s[k]
      BY <2>5, <3>2, <3>3, <3>5
    <3>8. ASSUME NEW i \in DOMAIN q, NEW j \in DOMAIN q, i < j
          PROVE  \E k, l \in 1..(n + 1) : k < l /\ q[i] = s[k] /\ q[j] = s[l]
      <4>1. CASE i \in DOMAIN o /\ j \in DOMAIN o
        BY <3>6, <3>8, <4>1
      <4>2. CASE i \in DOMAIN o /\ j = Len(o) + 1
        BY <3>2, <3>5, <4>2
      <4>3. i # Len(o) + 1
        BY <3>2, <3>8
      <4> QED BY <3>2, <3>3, <3>8, <4>1, <4>2, <4>3
    <3> QED BY <3>2, <3>4, <3>7, <3>8
  <2> QED BY <2>4, <2>5
<1>5. Len(s) \in Done
  <2> HIDE DEF Done
  <2> QED BY <1>3, <1>4, SetInduction
<1> DEFINE o == Selected(s, P)
<1>6. Good(o, Len(s))
  BY <1>1, <1>5
<1> HIDE DEF o
<1>7. o \in Seq(T) /\ DOMAIN o = 1..Len(o)
  BY <1>6
<1>p. \A i, j \in DOMAIN o :
        i < j => \E k, l \in 1..Len(s) : k < l /\ o[i] = s[k] /\ o[j] = s[l]
  BY <1>6
<1>8. ASSUME NEW i \in 1..Len(o), NEW j \in 1..Len(o), i < j
      PROVE  \E k, l \in 1..Len(s) : k < l /\ o[i] = s[k] /\ o[j] = s[l]
  <2> HIDE DEF Good
  <2>1. i \in DOMAIN o /\ j \in DOMAIN o
    BY <1>7
  <2> QED BY <1>p, <1>8, <2>1
<1>9. \A i \in 1..Len(o) : \E k \in P \cap (1..Len(s)) : o[i] = s[k]
  BY <1>6, <1>7
<1> QED BY <1>7, <1>8, <1>9 DEF o

LEMMA SelectedIsOf ==
  ASSUME NEW T, NEW s \in Seq(T), NEW P
  PROVE  LET o == Selected(s, P)
         IN  /\ o \in Seq(T)
             /\ \A i \in DOMAIN o : \E k \in P \cap (1..Len(s)) : o[i] = s[k]
             /\ \A i, j \in DOMAIN o :
                  i # j => \E k, l \in 1..Len(s) : k # l /\ o[i] = s[k] /\ o[j] = s[l]
<1> DEFINE o == Selected(s, P)
<1>1. o \in Seq(T)
  BY SelectedInOrder
<1>a. ASSUME NEW i \in 1..Len(o), NEW j \in 1..Len(o), i < j
      PROVE  \E k, l \in 1..Len(s) : k < l /\ o[i] = s[k] /\ o[j] = s[l]
  BY <1>a, SelectedInOrder
<1>b. ASSUME NEW i \in 1..Len(o) PROVE \E k \in P \cap (1..Len(s)) : o[i] = s[k]
  BY SelectedInOrder
<1>2. ASSUME NEW i \in DOMAIN o, NEW j \in DOMAIN o, i # j
      PROVE  \E k, l \in 1..Len(s) : k # l /\ o[i] = s[k] /\ o[j] = s[l]
  <2> HIDE DEF o
  <2>1. i \in 1..Len(o) /\ j \in 1..Len(o) /\ Len(o) \in Nat
    BY <1>1
  <2>2. CASE i < j
    <3>1. PICK k, l \in 1..Len(s) : k < l /\ o[i] = s[k] /\ o[j] = s[l]
      BY <1>a, <2>1, <2>2
    <3> QED BY <3>1
  <2>3. CASE j < i
    <3>1. PICK k, l \in 1..Len(s) : k < l /\ o[j] = s[k] /\ o[i] = s[l]
      BY <1>a, <2>1, <2>3
    <3> QED BY <3>1
  <2> QED BY <1>2, <2>1, <2>2, <2>3
<1>3. DOMAIN o = 1..Len(o)
  BY <1>1
<1>4. \A i \in DOMAIN o : \E k \in P \cap (1..Len(s)) : o[i] = s[k]
  BY <1>3, <1>b
<1> QED BY <1>1, <1>2, <1>4

\* An element at a position that is selected is kept.
LEMMA SelectedHasAll ==
  ASSUME NEW T, NEW s \in Seq(T), NEW P, NEW k \in P \cap (1..Len(s))
  PROVE  \E i \in DOMAIN Selected(s, P) : Selected(s, P)[i] = s[k]
<1> DEFINE Has(o, n) == o \in Seq(T) /\ (k <= n => \E i \in DOMAIN o : o[i] = s[k])
<1>1. PICK of : Selects(of, s, P) /\ Selected(s, P) = of[Len(s)]
  BY SelectionExists
<1>2. \A n \in 0..Len(s) : of[n] = IF n = 0 THEN <<>>
                                   ELSE IF n \in P THEN Append(of[n - 1], s[n]) ELSE of[n - 1]
  BY <1>1 DEF Selects
<1> DEFINE Done == {n \in Nat : n <= Len(s) => Has(of[n], n)}
<1>3. 0 \in Done
  <2>1. of[0] = <<>> /\ <<>> \in Seq(T) /\ ~(k <= 0)
    BY <1>2
  <2>2. Has(of[0], 0)
    BY <2>1
  <2> HIDE DEF Has
  <2> QED BY <2>2
<1>4. ASSUME NEW n \in Nat, n \in Done PROVE n + 1 \in Done
  <2>1. SUFFICES ASSUME n + 1 <= Len(s) PROVE Has(of[n + 1], n + 1)
    OBVIOUS
  <2>2. Has(of[n], n)
    BY <1>4, <2>1
  <2>3. of[n + 1] = IF n + 1 \in P THEN Append(of[n], s[n + 1]) ELSE of[n]
    BY <1>2, <2>1
  <2>4. CASE n + 1 \notin P
    BY <2>2, <2>3, <2>4
  <2>5. CASE n + 1 \in P
    <3> DEFINE o == of[n]
               q == Append(o, s[n + 1])
    <3>1. s[n + 1] \in T /\ o \in Seq(T)
      BY <2>1, <2>2
    <3>2. /\ q \in Seq(T) /\ \A i \in DOMAIN o : i \in DOMAIN q /\ q[i] = o[i]
          /\ Len(o) + 1 \in DOMAIN q /\ q[Len(o) + 1] = s[n + 1]
      BY <3>1
    <3>3. of[n + 1] = q
      BY <2>3, <2>5
    <3>4. k <= n => \E i \in DOMAIN o : o[i] = s[k]
      BY <2>2
    <3> HIDE DEF q, o
    <3>5. k <= n \/ k = n + 1 \/ ~(k <= n + 1)
      OBVIOUS
    <3>6. k <= n + 1 => \E i \in DOMAIN q : q[i] = s[k]
      BY <3>2, <3>4, <3>5
    <3> QED BY <3>2, <3>3, <3>6
  <2> QED BY <2>4, <2>5
<1>5. Len(s) \in Done
  <2> HIDE DEF Done
  <2> QED BY <1>3, <1>4, SetInduction
<1>6. Has(of[Len(s)], Len(s)) /\ k <= Len(s)
  BY <1>5
<1> QED BY <1>1, <1>6

-----------------------------------------------------------------------------
(* Numbers and sizes.                                                       *)

\* A set of naturals has a least element.
LEMMA LeastExists ==
  ASSUME NEW S \in SUBSET Nat, S # {}
  PROVE  Min(S) \in S /\ \A x \in S : Min(S) <= x
<1>1. \E x \in S : \A y \in S : x <= y
  <2> SUFFICES ASSUME \A x \in S : ~(\A y \in S : x <= y)
               PROVE  FALSE
    OBVIOUS
  <2> DEFINE T == {n \in Nat : \A m \in S : n <= m}
  <2>1. 0 \in T
    OBVIOUS
  <2>2. \A n \in Nat : n \in T => n + 1 \in T
    OBVIOUS
  <2> HIDE DEF T
  <2>3. \A n \in Nat : n \in T
    BY <2>1, <2>2, SetInduction
  <2>4. PICK s : s \in S
    OBVIOUS
  <2>5. s + 1 \in T
    BY <2>3, <2>4
  <2> QED BY <2>4, <2>5 DEF T
<1> QED BY <1>1 DEF Min

\* The theorems on finite sets are about definitions of its own, which are the same.
Finite == INSTANCE FiniteSetTheorems

LEMMA SameFinite ==
  ASSUME NEW S
  PROVE  IsFiniteSet(S) <=> Finite!IsFiniteSet(S)
BY DEF IsFiniteSet, Finite!IsFiniteSet

LEMMA SameCount ==
  ASSUME NEW S
  PROVE  Cardinality(S) = Finite!Cardinality(S)
BY DEF Cardinality, Finite!Cardinality

LEMMA SubsetCount ==
  ASSUME NEW S, IsFiniteSet(S), NEW T \in SUBSET S
  PROVE  /\ IsFiniteSet(T) /\ Cardinality(T) \in Nat /\ Cardinality(S) \in Nat
         /\ Cardinality(T) <= Cardinality(S)
         /\ Cardinality(T) = Cardinality(S) => T = S
<1>1. /\ Finite!IsFiniteSet(T) /\ Finite!Cardinality(T) <= Finite!Cardinality(S)
      /\ Finite!Cardinality(S) = Finite!Cardinality(T) => S = T
  BY SameFinite, Finite!FS_Subset
<1>2. Finite!Cardinality(T) \in Nat /\ Finite!Cardinality(S) \in Nat
  BY <1>1, SameFinite, Finite!FS_CardinalityType
<1> QED BY <1>1, <1>2, SameFinite, SameCount

\* Disjoint parts of a finite set.
LEMMA PartsCount ==
  ASSUME NEW U, IsFiniteSet(U), NEW S \in SUBSET U, NEW T \in SUBSET U, S \cap T = {}
  PROVE  /\ {Cardinality(S), Cardinality(T), Cardinality(S \cup T), Cardinality(U)} \subseteq Nat
         /\ Cardinality(S \cup T) = Cardinality(S) + Cardinality(T)
         /\ Cardinality(S) + Cardinality(T) <= Cardinality(U)
<1>1. /\ IsFiniteSet(S) /\ IsFiniteSet(T) /\ Cardinality(S \cup T) <= Cardinality(U)
      /\ {Cardinality(S), Cardinality(T), Cardinality(S \cup T), Cardinality(U)} \subseteq Nat
  <2>1. S \cup T \in SUBSET U
    OBVIOUS
  <2> QED BY <2>1, SubsetCount
<1>2. Finite!Cardinality(S \cup T)
        = Finite!Cardinality(S) + Finite!Cardinality(T) - Finite!Cardinality(S \cap T)
  BY <1>1, SameFinite, Finite!FS_Union
<1>3. Finite!Cardinality(S \cap T) = 0
  BY Finite!FS_EmptySet
<1>4. Cardinality(S \cup T) = Cardinality(S) + Cardinality(T)
  BY <1>1, <1>2, <1>3, SameCount
<1> QED BY <1>1, <1>4

\* A set of n elements that is told apart by numbers below n has one for each.
LEMMA EachOnce ==
  ASSUME NEW S, IsFiniteSet(S), NEW f \in [S -> 0..(Cardinality(S) - 1)],
         \A x, y \in S : x # y => f[x] # f[y]
  PROVE  \A k \in 0..(Cardinality(S) - 1) : \E x \in S : f[x] = k
<1> DEFINE n == Cardinality(S)
           T == 0..(n - 1)
<1>1. n \in Nat
  BY SubsetCount
<1>2. Finite!IsFiniteSet(T) /\ Finite!Cardinality(T) = n
  BY <1>1, Finite!FS_Interval
<1>3. Finite!Cardinality(S) = n
  BY SameCount
<1> HIDE DEF n
<1>4. f \in Finite!Injection(S, T)
  BY DEF Finite!Injection, Finite!IsInjective, n
<1>5. f \in Finite!Surjection(S, T)
  BY <1>2, <1>3, <1>4, Finite!FS_Injection
<1> QED BY <1>5 DEF Finite!Surjection, n
=============================================================================
