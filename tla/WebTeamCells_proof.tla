-------------------------- MODULE WebTeamCells_proof --------------------------
(***************************************************************************)
(* The cells and rows of the pages of WebTeam that several handlers write, *)
(* and that belong together.  As in WebTeam_proof, each part has the       *)
(* invariant of one page and shows that its mounting starts it and its     *)
(* steps keep it.  The theorem is at the end.                              *)
(***************************************************************************)
EXTENDS WebTeam_proof

-----------------------------------------------------------------------------
(***************************************************************************)
(* The composer.  The entry that is highlighted is among the candidates,   *)
(* and a file that was picked is in one place: a loop that still reads it, *)
(* the draft, a message on its way or a message that is posted.            *)
(***************************************************************************)
LEMMA ComposerStep ==
  ASSUME [Next]_tab, route' = "composer"
  PROVE  \/ UNCHANGED tab
         \/ route = "none" /\ (\E c \in Convs : ComposerMounted(c))
         \/ route = "composer" /\ ComposerNext
<1>1. CASE route = "none" /\ OpenPage
  BY <1>1 DEF OpenPage, ChatMounted, ComposerMounted, StoreMounted, SidebarMounted,
     SessionsMounted, SocketMounted, MembersMounted, TeamRosterMounted,
     NoticesMounted, NodesMounted, NamespacesMounted, SystemMounted,
     SettingsMounted, LedgerMounted, ApprovalsMounted, SignInMounted, Mounting
<1>2. CASE route = "composer" /\ Next
  BY <1>2 DEF Next
<1> QED BY <1>1, <1>2, PageStep

ComposerCells == {"active", "switching", "status", "draft", "index", "pending", "loops", "picked"}

\* The entry that is highlighted is among the candidates.
MenusInv ==
  /\ DOMAIN page = ComposerCells
  /\ page.draft \in Draft /\ (page.draft.menu # Nil => page.draft.n > 0)
  /\ DOMAIN page.index = Menus
  /\ \A m \in Menus :
       page.index[m] \in Nat /\ page.index[m] < (IF page.draft.menu = m THEN page.draft.n ELSE 1)

LEMMA MenusStart ==
  ASSUME NEW c, ComposerMounted(c)
  PROVE  MenusInv'
BY CandidatesAssumption DEF ComposerMounted, Mounting, MenusInv, ComposerCells, Blank, Draft, Menus

\* A change of the draft.
LEMMA MenusWritten ==
  ASSUME MenusInv, NEW d \in Draft, d.menu # Nil => d.n > 0, page' = Written(page, d)
  PROVE  MenusInv'
<1>0. /\ DOMAIN page = ComposerCells /\ DOMAIN page.index = Menus
      /\ \A m \in Menus : page.index[m] \in Nat
      /\ d.n \in Nat
  BY CandidatesAssumption DEF MenusInv, Draft
<1>1. /\ DOMAIN page' = ComposerCells /\ page'.draft = d /\ page'.index = IndexWithin(d, page.index)
  BY <1>0 DEF Written, ComposerCells
<1>2. ASSUME NEW m \in Menus
      PROVE  /\ page'.index[m] \in Nat
             /\ page'.index[m] < (IF d.menu = m THEN d.n ELSE 1)
  <2> DEFINE n == IF d.menu = m THEN d.n ELSE 0
  <2>1. page'.index[m] = IF page.index[m] >= n THEN 0 ELSE page.index[m]
    BY <1>1 DEF IndexWithin
  <2>2. d.menu = m => d.n > 0
    BY CandidatesAssumption
  <2> QED BY <1>0, <2>1, <2>2
<1>3. DOMAIN page'.index = Menus
  BY <1>1 DEF IndexWithin
<1> QED BY <1>1, <1>2, <1>3 DEF MenusInv

LEMMA MenusEdited ==
  ASSUME MenusInv,
         \/ \E d \in Draft : TypeDraft(d)
         \/ InsertCommandSlash \/ PickFromMenu \/ EscapeMenu
         \/ \E down \in BOOLEAN : MoveInMenu(down)
  PROVE  MenusInv'
<1>w. Blank \in Draft /\ Blank.menu = Nil
  BY CandidatesAssumption DEF Blank, Draft
<1>0. /\ Blank \in Draft /\ Words \in Draft /\ Blank.menu = Nil /\ Words.menu = Nil
  BY <1>w DEF Words, Draft
<1>1. ASSUME NEW d \in Draft, TypeDraft(d) PROVE MenusInv'
  <2>1. d.menu # Nil => d.n > 0
    BY <1>1, CandidatesAssumption DEF TypeDraft, Draft
  <2> QED BY <1>1, <2>1, MenusWritten DEF TypeDraft
<1>2. CASE InsertCommandSlash
  <2>1. PICK menu \in {"command", Nil} :
          page' = Written(page, [Words EXCEPT !.menu = menu, !.n = IF menu = Nil THEN 0 ELSE MaxCandidates])
    BY <1>2 DEF InsertCommandSlash
  <2> DEFINE d == [Words EXCEPT !.menu = menu, !.n = IF menu = Nil THEN 0 ELSE MaxCandidates]
  <2>a. PICK v : v = IF menu = Nil THEN 0 ELSE MaxCandidates
    OBVIOUS
  <2>b. v \in 0..MaxCandidates /\ menu \in Menus \cup {Nil} /\ (menu # Nil => v > 0)
    BY <2>a, CandidatesAssumption DEF Menus
  <2>c. [Words EXCEPT !.menu = menu, !.n = v] \in Draft
    BY <1>0, <2>b DEF Draft
  <2>d. d = [Words EXCEPT !.menu = menu, !.n = v]
    BY <2>a
  <2>e. d.menu = menu /\ d.n = v
    BY <1>0, <2>d DEF Draft
  <2>2. d \in Draft /\ (d.menu # Nil => d.n > 0)
    <3> HIDE DEF d
    <3> QED BY <2>b, <2>c, <2>d, <2>e
  <2> HIDE DEF d
  <2> QED BY <2>1, <2>2, MenusWritten DEF d
<1>3. CASE PickFromMenu
  BY <1>0, <1>3, MenusWritten DEF PickFromMenu
<1>4. ASSUME NEW m \in Menus, NEW v \in Nat, page' = [page EXCEPT !.index[m] = v],
             v < (IF page.draft.menu = m THEN page.draft.n ELSE 1)
      PROVE  MenusInv'
  <2>1. /\ page'.index = [page.index EXCEPT ![m] = v] /\ page'.draft = page.draft
        /\ DOMAIN page' = ComposerCells
    BY <1>4 DEF MenusInv, ComposerCells
  <2> QED BY <1>4, <2>1 DEF MenusInv
<1>5. CASE EscapeMenu
  <2>1. CASE page.draft.menu = "command"
    <3>1. page' = [page EXCEPT !.index["command"] = 0]
      BY <1>5, <2>1 DEF EscapeMenu
    <3>2. page.draft.n > 0
      BY <2>1, CandidatesAssumption DEF MenusInv, Menus
    <3> QED BY <1>4, <2>1, <3>1, <3>2 DEF Menus
  <2>2. CASE page.draft.menu # "command"
    <3>1. PICK d \in {Blank, Words} : page' = Written(page, d)
      BY <1>5, <2>2 DEF EscapeMenu
    <3> QED BY <1>0, <3>1, MenusWritten
  <2> QED BY <2>1, <2>2
<1>6. ASSUME NEW down \in BOOLEAN, MoveInMenu(down) PROVE MenusInv'
  <2> DEFINE m == page.draft.menu
             n == page.draft.n
             i == page.index[m]
             v == IF down THEN (i + 1) % n ELSE (i + n - 1) % n
  <2>1. m \in Menus /\ n \in Nat /\ n > 0
    BY <1>6, CandidatesAssumption DEF MoveInMenu, MenusInv, Draft
  <2>2. i \in Nat /\ i < n
    BY <2>1 DEF MenusInv
  <2>3. page' = [page EXCEPT !.index[m] = v]
    BY <1>6 DEF MoveInMenu
  <2>4. v \in Nat /\ v < n
    <3> HIDE DEF i, n
    <3>1. i + 1 \in Int /\ i + n - 1 \in Int
      BY <2>1, <2>2
    <3>2. \A k \in Int : k % n \in 0..(n - 1)
      BY <2>1
    <3> QED BY <2>1, <3>1, <3>2
  <2> HIDE DEF v
  <2> QED BY <1>4, <2>1, <2>3, <2>4
<1> QED BY <1>1, <1>2, <1>3, <1>5, <1>6

\* The other steps leave the menus, or close them.
LEMMA MenusKept ==
  ASSUME MenusInv, ComposerNext
  PROVE  MenusInv'
<1>0. DOMAIN page = ComposerCells
  BY DEF MenusInv
<1>1. ASSUME page'.draft = page.draft, page'.index = page.index, DOMAIN page' = DOMAIN page
      PROVE  MenusInv'
  BY <1>1 DEF MenusInv
<1>2. ASSUME NEW input, NEW files, PickFiles(input, files) PROVE MenusInv'
  BY <1>0, <1>1, <1>2 DEF PickFiles, ComposerCells
<1>3. ASSUME NEW l, NEW ok, FileRead(l, ok) PROVE MenusInv'
  BY <1>0, <1>1, <1>3 DEF FileRead, ComposerCells
<1>4. ASSUME NEW i, RemovePending(i) PROVE MenusInv'
  BY <1>0, <1>1, <1>4 DEF RemovePending, ComposerCells
<1>5. ASSUME DeliveryReported \/ RetryDraft \/ \E c \in Convs : SwitchDraft(c) PROVE MenusInv'
  BY <1>0, <1>1, <1>5 DEF DeliveryReported, RetryDraft, SwitchDraft, ComposerCells
<1>6. ASSUME NEW r, NEW ok, ServeComposer(r) \/ DraftSent(r, ok) \/ DraftSwitched(r, ok)
      PROVE  MenusInv'
  BY <1>0, <1>1, <1>6 DEF ServeComposer, DraftSent, DraftSwitched, ComposerCells
<1>7. CASE SendDraft
  <2>1. page' = Taken(page)
    BY <1>7 DEF SendDraft
  <2> DEFINE w == Written(page, Blank)
  <2>2. /\ DOMAIN w = ComposerCells /\ w.draft = Blank /\ w.index = IndexWithin(Blank, page.index)
    BY <1>0 DEF Written, ComposerCells
  <2>3. /\ DOMAIN page' = ComposerCells /\ page'.draft = Blank
        /\ page'.index = IndexWithin(Blank, page.index)
    <3> HIDE DEF w
    <3>1. page' = [w EXCEPT !.status = "sending", !.pending = <<>>]
      BY <2>1 DEF Taken, w
    <3> QED BY <2>2, <3>1 DEF ComposerCells
  <2>4. Blank \in Draft /\ Blank.menu = Nil /\ DOMAIN page.index = Menus
        /\ \A m \in Menus : page.index[m] \in Nat
    BY CandidatesAssumption DEF Blank, Draft, MenusInv
  <2>5. \A m \in Menus : Blank.menu # m
    BY <2>4, CandidatesAssumption
  <2>6. \A m \in Menus : IndexWithin(Blank, page.index)[m] = 0
    BY <2>4, <2>5 DEF IndexWithin
  <2>7. DOMAIN IndexWithin(Blank, page.index) = Menus
    BY DEF IndexWithin
  <2> QED BY <2>3, <2>4, <2>5, <2>6, <2>7 DEF MenusInv
<1> QED BY <1>2, <1>3, <1>4, <1>5, <1>6, <1>7, MenusEdited DEF ComposerNext

-----------------------------------------------------------------------------
\* The files that a loop has still to read or has read.
Looped(l) == ToSet(l.rest) \cup ToSet(l.next)

LoopSound(l) ==
  /\ DOMAIN l = {"input", "rest", "next", "latest"}
  /\ l.rest \in Seq(Files) /\ l.next \in Seq(Files) /\ l.rest # <<>>
  /\ IsInjective(l.rest) /\ IsInjective(l.next) /\ ToSet(l.rest) \cap ToSet(l.next) = {}

LoopsSound(L) ==
  /\ \A l \in L : LoopSound(l)
  /\ \A l, k \in L : l # k => Looped(l) \cap Looped(k) = {}

Reading(L) == UNION {Looped(l) : l \in L}

\* The messages on their way that file f is part of.
Carrying(f) == {r \in Pending("send") : r.stage = "sent" /\ f \in ToSet(r.files)}

DraftRequest(r) ==
  /\ {"op", "stage"} \subseteq DOMAIN r
  /\ r.op = "send" => "files" \in DOMAIN r /\ r.files \in Seq(Files)

\* A file is in one place, or was never picked.
FilesInv ==
  /\ DOMAIN page = ComposerCells
  /\ LoopsSound(page.loops)
  /\ page.pending \in Seq(Files) /\ IsInjective(page.pending)
  /\ DOMAIN server = {"posted"}
  /\ \A r \in Open : DraftRequest(r)
  /\ \A f \in Files :
       /\ OneAtMost(Carrying(f))
       /\ Carrying(f) # {} => f \in page.picked /\ f \notin server.posted
       /\ f \in server.posted => f \in page.picked
       /\ f \in ToSet(page.pending) => f \in page.picked /\ f \notin server.posted /\ Carrying(f) = {}
       /\ f \in Reading(page.loops) =>
            /\ f \in page.picked /\ f \notin server.posted /\ Carrying(f) = {}
            /\ f \notin ToSet(page.pending)

LEMMA FilesStart ==
  ASSUME NEW c, ComposerMounted(c)
  PROVE  FilesInv'
<1>1. Open' = {}
  BY MountEmpty DEF ComposerMounted
<1>2. /\ DOMAIN page' = ComposerCells /\ page'.loops = {} /\ page'.pending = <<>>
      /\ page'.picked = {} /\ server' = [posted |-> {}]
  BY DEF ComposerMounted, Mounting, ComposerCells
<1>3. \A f : Carrying(f)' = {}
  BY <1>1 DEF Carrying, Pending
<1>4. <<>> \in Seq(Files) /\ IsInjective(<<>>) /\ ToSet(<<>>) = {} /\ Reading({}) = {}
  BY DEF IsInjective, ToSet, Reading
<1>5. LoopsSound({})
  BY DEF LoopsSound
<1>6. DOMAIN server' = {"posted"} /\ server'.posted = {}
  BY <1>2
<1> QED BY <1>1, <1>2, <1>3, <1>4, <1>5, <1>6 DEF FilesInv, OneAtMost

\* The loops that are left of some, each with no more files.
LEMMA LoopsShrink ==
  ASSUME NEW L, LoopsSound(L), NEW M, NEW g,
         \A m \in M : g[m] \in L /\ LoopSound(m) /\ Looped(m) \subseteq Looped(g[m]),
         \A m, k \in M : g[m] = g[k] => m = k
  PROVE  LoopsSound(M) /\ Reading(M) \subseteq Reading(L)
<1>1. ASSUME NEW m \in M, NEW k \in M, m # k PROVE Looped(m) \cap Looped(k) = {}
  BY <1>1 DEF LoopsSound
<1>2. Reading(M) \subseteq Reading(L)
  BY DEF Reading
<1> QED BY <1>1, <1>2 DEF LoopsSound

LEMMA HeadAndTail ==
  ASSUME NEW s \in Seq(Files), s # <<>>
  PROVE  /\ Head(s) \in ToSet(s) /\ Tail(s) \in Seq(Files)
         /\ ToSet(Tail(s)) \subseteq ToSet(s)
         /\ IsInjective(s) => IsInjective(Tail(s)) /\ Head(s) \notin ToSet(Tail(s))
<1>1. /\ Len(s) \in Nat /\ Len(s) > 0 /\ DOMAIN s = 1..Len(s) /\ Head(s) = s[1]
      /\ Tail(s) \in Seq(Files) /\ DOMAIN Tail(s) = 1..(Len(s) - 1)
      /\ \A i \in 1..(Len(s) - 1) : Tail(s)[i] = s[i + 1]
  OBVIOUS
<1>2. \A i \in 1..(Len(s) - 1) : i + 1 \in 1..Len(s) /\ i + 1 # 1
  BY <1>1
<1>3. ASSUME IsInjective(s) PROVE IsInjective(Tail(s)) /\ Head(s) \notin ToSet(Tail(s))
  <2>1. ASSUME NEW i \in DOMAIN Tail(s), NEW j \in DOMAIN Tail(s), Tail(s)[i] = Tail(s)[j] PROVE i = j
    <3>1. s[i + 1] = s[j + 1] /\ i + 1 \in DOMAIN s /\ j + 1 \in DOMAIN s /\ i \in Nat /\ j \in Nat
      BY <1>1, <1>2, <2>1
    <3> QED BY <1>3, <3>1 DEF IsInjective
  <2>2. ASSUME NEW i \in DOMAIN Tail(s) PROVE Tail(s)[i] # Head(s)
    <3>1. i + 1 \in DOMAIN s /\ 1 \in DOMAIN s /\ i + 1 # 1 /\ Tail(s)[i] = s[i + 1] /\ Head(s) = s[1]
      BY <1>1, <1>2
    <3> QED BY <1>3, <3>1 DEF IsInjective
  <2> QED BY <2>1, <2>2 DEF IsInjective, ToSet
<1>4. ToSet(Tail(s)) \subseteq ToSet(s)
  BY <1>1, <1>2 DEF ToSet
<1> QED BY <1>1, <1>3, <1>4 DEF ToSet

LEMMA FileAppended ==
  ASSUME NEW s \in Seq(Files), NEW f \in Files
  PROVE  /\ Append(s, f) \in Seq(Files) /\ ToSet(Append(s, f)) = ToSet(s) \cup {f}
         /\ IsInjective(s) /\ f \notin ToSet(s) => IsInjective(Append(s, f))
<1>1. /\ Append(s, f) \in Seq(Files) /\ DOMAIN s = 1..Len(s) /\ Len(s) \in Nat
      /\ DOMAIN Append(s, f) = 1..(Len(s) + 1) /\ Append(s, f)[Len(s) + 1] = f
      /\ \A i \in 1..Len(s) : Append(s, f)[i] = s[i]
  OBVIOUS
<1>2. \A i \in 1..(Len(s) + 1) : i \in 1..Len(s) \/ i = Len(s) + 1
  BY <1>1
<1> QED BY <1>1, <1>2 DEF ToSet, IsInjective

LEMMA FilesJoined ==
  ASSUME NEW s \in Seq(Files), NEW t \in Seq(Files)
  PROVE  /\ s \o t \in Seq(Files) /\ ToSet(s \o t) = ToSet(s) \cup ToSet(t)
         /\ IsInjective(s) /\ IsInjective(t) /\ ToSet(s) \cap ToSet(t) = {} => IsInjective(s \o t)
<1> DEFINE o == s \o t
<1>1. /\ o \in Seq(Files) /\ Len(s) \in Nat /\ Len(t) \in Nat /\ Len(o) = Len(s) + Len(t)
      /\ DOMAIN s = 1..Len(s) /\ DOMAIN t = 1..Len(t) /\ DOMAIN o = 1..(Len(s) + Len(t))
      /\ \A i \in 1..(Len(s) + Len(t)) : o[i] = IF i <= Len(s) THEN s[i] ELSE t[i - Len(s)]
  OBVIOUS
<1> HIDE DEF o
<1>2. \A i \in 1..Len(s) : i \in DOMAIN o /\ o[i] = s[i]
  BY <1>1
<1>3. \A i \in 1..Len(t) : i + Len(s) \in DOMAIN o /\ o[i + Len(s)] = t[i]
  BY <1>1
<1>4. \A i \in DOMAIN o : \/ i \in 1..Len(s) /\ o[i] = s[i]
                          \/ i - Len(s) \in 1..Len(t) /\ o[i] = t[i - Len(s)]
  BY <1>1
<1>5. ToSet(o) = ToSet(s) \cup ToSet(t)
  <2>1. ToSet(o) \subseteq ToSet(s) \cup ToSet(t)
    BY <1>1, <1>4 DEF ToSet
  <2>2. ToSet(s) \subseteq ToSet(o)
    BY <1>1, <1>2 DEF ToSet
  <2>3. ToSet(t) \subseteq ToSet(o)
    BY <1>1, <1>3 DEF ToSet
  <2> QED BY <2>1, <2>2, <2>3
<1>6. ASSUME IsInjective(s), IsInjective(t), ToSet(s) \cap ToSet(t) = {},
             NEW i \in DOMAIN o, NEW j \in DOMAIN o, o[i] = o[j]
      PROVE  i = j
  <2>1. CASE i \in 1..Len(s) /\ o[i] = s[i] /\ j \in 1..Len(s) /\ o[j] = s[j]
    BY <1>1, <1>6, <2>1 DEF IsInjective
  <2>2. CASE i - Len(s) \in 1..Len(t) /\ o[i] = t[i - Len(s)]
               /\ j - Len(s) \in 1..Len(t) /\ o[j] = t[j - Len(s)]
    <3>1. i - Len(s) = j - Len(s)
      BY <1>1, <1>6, <2>2 DEF IsInjective
    <3> QED BY <1>1, <3>1
  <2>3. CASE i \in 1..Len(s) /\ o[i] = s[i] /\ j - Len(s) \in 1..Len(t) /\ o[j] = t[j - Len(s)]
    BY <1>1, <1>6, <2>3 DEF ToSet
  <2>4. CASE j \in 1..Len(s) /\ o[j] = s[j] /\ i - Len(s) \in 1..Len(t) /\ o[i] = t[i - Len(s)]
    BY <1>1, <1>6, <2>4 DEF ToSet
  <2> QED BY <1>4, <2>1, <2>2, <2>3, <2>4
<1>7. IsInjective(s) /\ IsInjective(t) /\ ToSet(s) \cap ToSet(t) = {} => IsInjective(o)
  BY <1>6 DEF IsInjective
<1> QED BY <1>1, <1>5, <1>7 DEF o

LEMMA FileTaken ==
  ASSUME NEW s \in Seq(Files), NEW i \in DOMAIN s
  PROVE  /\ RemoveAt(s, i) \in Seq(Files) /\ ToSet(RemoveAt(s, i)) \subseteq ToSet(s)
         /\ IsInjective(s) => IsInjective(RemoveAt(s, i))
<1> DEFINE u == SubSeq(s, 1, i - 1)
           v == SubSeq(s, i + 1, Len(s))
<1>1. i \in 1..Len(s) /\ Len(s) \in Nat /\ DOMAIN s = 1..Len(s)
  OBVIOUS
<1>2. /\ u \in Seq(Files) /\ DOMAIN u = 1..(i - 1) /\ \A k \in 1..(i - 1) : u[k] = s[k]
  BY <1>1
<1>3. /\ v \in Seq(Files) /\ DOMAIN v = 1..(Len(s) - i) /\ \A k \in 1..(Len(s) - i) : v[k] = s[i + k]
  BY <1>1
<1> HIDE DEF u, v
<1>4. ToSet(u) \subseteq ToSet(s) /\ ToSet(v) \subseteq ToSet(s)
  <2>1. /\ \A k \in 1..(i - 1) : k \in DOMAIN s
        /\ \A k \in 1..(Len(s) - i) : i + k \in DOMAIN s
    BY <1>1
  <2> QED BY <1>2, <1>3, <2>1 DEF ToSet
<1>5. ASSUME IsInjective(s) PROVE IsInjective(u) /\ IsInjective(v) /\ ToSet(u) \cap ToSet(v) = {}
  <2>1. IsInjective(u)
    BY <1>1, <1>2, <1>5 DEF IsInjective
  <2>2. IsInjective(v)
    <3>1. ASSUME NEW a \in DOMAIN v, NEW b \in DOMAIN v, v[a] = v[b] PROVE a = b
      <4>1. i + a \in DOMAIN s /\ i + b \in DOMAIN s /\ s[i + a] = s[i + b] /\ a \in Nat /\ b \in Nat
        BY <1>1, <1>3, <3>1
      <4>2. i + a = i + b
        BY <1>5, <4>1 DEF IsInjective
      <4> QED BY <1>1, <4>1, <4>2
    <3> QED BY <3>1 DEF IsInjective
  <2>3. ASSUME NEW a \in DOMAIN u, NEW b \in DOMAIN v, u[a] = v[b] PROVE FALSE
    <3>1. a \in DOMAIN s /\ i + b \in DOMAIN s /\ s[a] = s[i + b] /\ a \in Nat /\ b \in Nat /\ a < i + b
      BY <1>1, <1>2, <1>3, <2>3
    <3>2. a = i + b
      BY <1>5, <3>1 DEF IsInjective
    <3> QED BY <1>1, <3>1, <3>2
  <2> QED BY <2>1, <2>2, <2>3 DEF ToSet
<1>6. RemoveAt(s, i) = u \o v
  BY DEF RemoveAt, u, v
<1> QED BY <1>2, <1>3, <1>4, <1>5, <1>6, FilesJoined

-----------------------------------------------------------------------------
\* No file changes its place, but that a message may end or be posted.
LEMMA FilesStay ==
  ASSUME FilesInv, DOMAIN page' = ComposerCells, page'.loops = page.loops,
         page'.pending = page.pending, page'.picked = page.picked, server' = server,
         \A r \in Open' : DraftRequest(r),
         \A f \in Files : Carrying(f)' \subseteq Carrying(f) /\ OneAtMost(Carrying(f))'
  PROVE  FilesInv'
BY DEF FilesInv

LEMMA SameWire ==
  ASSUME UNCHANGED wire
  PROVE  /\ Open' = Open /\ \A f : Carrying(f)' = Carrying(f)
         /\ \A f : OneAtMost(Carrying(f)) => OneAtMost(Carrying(f))'
<1>1. Open' = Open /\ \A r : Copies(r)' = Copies(r)
  BY DEF Open, Copies
<1>2. \A f : Carrying(f)' = Carrying(f)
  BY <1>1 DEF Carrying, Pending
<1> QED BY <1>1, <1>2 DEF OneAtMost

LEMMA FilesEdited ==
  ASSUME FilesInv,
         \/ \E d \in Draft : TypeDraft(d)
         \/ InsertCommandSlash \/ PickFromMenu \/ EscapeMenu
         \/ \E down \in BOOLEAN : MoveInMenu(down)
         \/ DeliveryReported \/ RetryDraft
  PROVE  FilesInv'
<1>0. DOMAIN page = ComposerCells
  BY DEF FilesInv
<1>1. \A d : LET w == Written(page, d)
             IN  /\ DOMAIN w = ComposerCells /\ w.loops = page.loops
                 /\ w.pending = page.pending /\ w.picked = page.picked
  BY <1>0 DEF Written, ComposerCells
<1>2. UNCHANGED <<wire, server>>
  BY DEF TypeDraft, InsertCommandSlash, PickFromMenu, EscapeMenu, MoveInMenu, DeliveryReported, RetryDraft
<1>3. /\ DOMAIN page' = ComposerCells /\ page'.loops = page.loops
      /\ page'.pending = page.pending /\ page'.picked = page.picked
  <2>1. ASSUME NEW d, page' = Written(page, d)
        PROVE  /\ DOMAIN page' = ComposerCells /\ page'.loops = page.loops
               /\ page'.pending = page.pending /\ page'.picked = page.picked
    BY <1>1, <2>1
  <2>2. CASE DeliveryReported \/ RetryDraft \/ (\E down \in BOOLEAN : MoveInMenu(down))
    BY <1>0, <2>2 DEF MoveInMenu, DeliveryReported, RetryDraft, ComposerCells
  <2>3. CASE EscapeMenu
    BY <1>0, <2>1, <2>3 DEF EscapeMenu, ComposerCells
  <2>4. CASE (\E d \in Draft : TypeDraft(d)) \/ InsertCommandSlash \/ PickFromMenu
    BY <2>1, <2>4 DEF TypeDraft, InsertCommandSlash, PickFromMenu
  <2> QED BY <2>2, <2>3, <2>4
<1> QED BY <1>2, <1>3, SameWire, FilesStay DEF FilesInv

\* Files are picked that were not.
LEMMA FilesPicked ==
  ASSUME FilesInv, NEW input \in {"image", "file"}, NEW files \in Lists, PickFiles(input, files)
  PROVE  FilesInv'
<1> DEFINE Left(l) == [l EXCEPT !.latest = @ /\ l.input # input]
           new == [input |-> input, rest |-> files, next |-> <<>>, latest |-> TRUE]
           old == {Left(l) : l \in page.loops}
<1>0. DOMAIN page = ComposerCells /\ LoopsSound(page.loops)
  BY DEF FilesInv
<1>1. /\ files \in Seq(Files) /\ files # <<>> /\ IsInjective(files)
      /\ ToSet(files) \cap page.picked = {} /\ ToSet(files) \subseteq Files
  BY DEF PickFiles, Lists, ToSet
<1>2. /\ DOMAIN page' = ComposerCells /\ page'.loops = old \cup {new} /\ page'.pending = page.pending
      /\ page'.picked = page.picked \cup ToSet(files) /\ UNCHANGED <<wire, server>>
  BY <1>0 DEF PickFiles, ComposerCells
<1>3. LoopSound(new) /\ Looped(new) = ToSet(files)
  <2>1. <<>> \in Seq(Files) /\ IsInjective(<<>>) /\ ToSet(<<>>) = {}
    BY DEF IsInjective, ToSet
  <2>2. /\ DOMAIN new = {"input", "rest", "next", "latest"} /\ new.rest = files /\ new.next = <<>>
    OBVIOUS
  <2> HIDE DEF new
  <2> QED BY <1>1, <2>1, <2>2 DEF LoopSound, Looped
<1>4. LoopsSound(old) /\ Reading(old) \subseteq Reading(page.loops)
  <2> DEFINE g == [m \in old |-> CHOOSE l \in page.loops : m = Left(l)]
  <2>1. \A m \in old : g[m] \in page.loops /\ m = Left(g[m])
    <3> HIDE DEF Left
    <3> QED OBVIOUS
  <2>2. ASSUME NEW m \in old PROVE LoopSound(m) /\ Looped(m) = Looped(g[m])
    <3>1. PICK l : l = g[m]
      OBVIOUS
    <3>2. l \in page.loops /\ m = Left(l)
      BY <2>1, <3>1
    <3>3. LoopSound(l)
      BY <1>0, <3>2 DEF LoopsSound
    <3>4. DOMAIN m = DOMAIN l /\ m.rest = l.rest /\ m.next = l.next
      BY <3>2, <3>3 DEF LoopSound
    <3> QED BY <3>1, <3>3, <3>4 DEF LoopSound, Looped
  <2>3. \A m, k \in old : g[m] = g[k] => m = k
    <3> HIDE DEF g, old
    <3> QED BY <2>1
  <2> HIDE DEF g, old
  <2> QED BY <1>0, <2>1, <2>2, <2>3, LoopsShrink
<1> HIDE DEF new, old
<1>5. Reading(page.loops) \cap ToSet(files) = {}
  <2>1. Reading(page.loops) \subseteq Files
    BY <1>0 DEF Reading, LoopsSound, LoopSound, Looped, ToSet
  <2> QED BY <1>1, <2>1 DEF FilesInv
<1>6. \A l \in old : Looped(l) \subseteq Reading(old)
  BY DEF Reading
<1>7. LoopsSound(page'.loops) /\ Reading(page'.loops) \subseteq Reading(page.loops) \cup ToSet(files)
  <2>1. ASSUME NEW l \in page'.loops PROVE LoopSound(l)
    BY <1>2, <1>3, <1>4, <2>1 DEF LoopsSound
  <2>2. ASSUME NEW l \in page'.loops, NEW k \in page'.loops, l # k PROVE Looped(l) \cap Looped(k) = {}
    <3>1. CASE l \in old /\ k \in old
      BY <1>4, <2>2, <3>1 DEF LoopsSound
    <3>2. CASE l = new \/ k = new
      BY <1>2, <1>3, <1>4, <1>5, <1>6, <2>2, <3>2
    <3> QED BY <1>2, <3>1, <3>2
  <2>3. Reading(page'.loops) = Reading(old) \cup Looped(new)
    BY <1>2 DEF Reading
  <2> QED BY <1>3, <1>4, <2>1, <2>2, <2>3 DEF LoopsSound
<1>8. \A f \in ToSet(files) : f \notin server.posted /\ Carrying(f) = {} /\ f \notin ToSet(page.pending)
  BY <1>1 DEF FilesInv
<1>9. /\ Open' = Open /\ \A f : Carrying(f)' = Carrying(f)
      /\ \A f : OneAtMost(Carrying(f)) => OneAtMost(Carrying(f))'
  BY <1>2, SameWire
<1> QED BY <1>2, <1>7, <1>8, <1>9 DEF FilesInv

\* A file is read; the last of its loop attaches what the loop has read.
LEMMA FilesRead ==
  ASSUME FilesInv, NEW l \in page.loops, NEW ok \in BOOLEAN, FileRead(l, ok)
  PROVE  FilesInv'
<1> DEFINE rest == Tail(l.rest)
           next == IF ok THEN Append(l.next, Head(l.rest)) ELSE l.next
           others == page.loops \ {l}
<1>0. DOMAIN page = ComposerCells /\ LoopsSound(page.loops) /\ LoopSound(l)
  BY DEF FilesInv, LoopsSound
<1>1. /\ rest \in Seq(Files) /\ IsInjective(rest) /\ next \in Seq(Files) /\ IsInjective(next)
      /\ ToSet(rest) \cap ToSet(next) = {} /\ ToSet(rest) \cup ToSet(next) \subseteq Looped(l)
  <2>1. /\ l.rest \in Seq(Files) /\ l.next \in Seq(Files) /\ l.rest # <<>>
        /\ IsInjective(l.rest) /\ IsInjective(l.next) /\ ToSet(l.rest) \cap ToSet(l.next) = {}
    BY <1>0 DEF LoopSound
  <2>2. /\ Head(l.rest) \in ToSet(l.rest) /\ Tail(l.rest) \in Seq(Files)
        /\ ToSet(Tail(l.rest)) \subseteq ToSet(l.rest)
        /\ IsInjective(Tail(l.rest)) /\ Head(l.rest) \notin ToSet(Tail(l.rest))
    BY <2>1, HeadAndTail
  <2>3. Head(l.rest) \in Files
    BY <2>1, <2>2 DEF ToSet
  <2>4. /\ Append(l.next, Head(l.rest)) \in Seq(Files)
        /\ ToSet(Append(l.next, Head(l.rest))) = ToSet(l.next) \cup {Head(l.rest)}
        /\ IsInjective(Append(l.next, Head(l.rest)))
    BY <2>1, <2>2, <2>3, FileAppended
  <2> QED BY <2>1, <2>2, <2>4 DEF Looped
<1>2. /\ LoopsSound(others) /\ Reading(others) \subseteq Reading(page.loops)
      /\ \A k \in others : Looped(k) \cap Looped(l) = {}
  BY <1>0 DEF LoopsSound, Reading
<1>3. Looped(l) \subseteq Reading(page.loops)
  BY DEF Reading
<1>4. Reading(others) \cap Looped(l) = {}
  BY <1>2 DEF Reading
<1>5. /\ UNCHANGED <<wire, server>> /\ DOMAIN page' = ComposerCells /\ page'.picked = page.picked
      /\ \/ /\ rest # <<>> /\ page'.loops = others \cup {[l EXCEPT !.rest = rest, !.next = next]}
            /\ page'.pending = page.pending
         \/ page'.loops \in Cleared(others) /\ page'.pending = page.pending \o next
  BY <1>0 DEF FileRead, ComposerCells
<1>6. /\ Open' = Open /\ \A f : Carrying(f)' = Carrying(f)
      /\ \A f : OneAtMost(Carrying(f)) => OneAtMost(Carrying(f))'
  BY <1>5, SameWire
<1>7. ASSUME LoopsSound(page'.loops), page'.pending \in Seq(Files), IsInjective(page'.pending),
             Reading(page'.loops) \subseteq Reading(page.loops),
             ToSet(page'.pending) \subseteq ToSet(page.pending) \cup Reading(page.loops),
             Reading(page'.loops) \cap ToSet(page'.pending) = {}
      PROVE  FilesInv'
  BY <1>5, <1>6, <1>7 DEF FilesInv
<1>8. page.pending \in Seq(Files) /\ IsInjective(page.pending)
      /\ ToSet(page.pending) \cap Reading(page.loops) = {}
  <2>1. ToSet(page.pending) \subseteq Files
    BY DEF FilesInv, ToSet
  <2> QED BY <2>1 DEF FilesInv
<1> HIDE DEF rest, next, others
<1>9. CASE rest # <<>> /\ page'.loops = others \cup {[l EXCEPT !.rest = rest, !.next = next]}
           /\ page'.pending = page.pending
  <2> DEFINE k == [l EXCEPT !.rest = rest, !.next = next]
  <2>1. DOMAIN k = DOMAIN l /\ k.rest = rest /\ k.next = next
    BY <1>0 DEF LoopSound
  <2> HIDE DEF k
  <2>2. LoopSound(k) /\ Looped(k) \subseteq Looped(l)
    BY <1>0, <1>1, <1>9, <2>1 DEF LoopSound, Looped
  <2>3. page'.loops = others \cup {k}
    BY <1>9 DEF k
  <2>4. LoopsSound(page'.loops)
    BY <1>2, <2>2, <2>3 DEF LoopsSound
  <2>5. Reading(page'.loops) = Reading(others) \cup Looped(k)
    BY <2>3 DEF Reading
  <2> QED BY <1>2, <1>3, <1>7, <1>8, <1>9, <2>2, <2>4, <2>5
<1>10. CASE page'.loops \in Cleared(others) /\ page'.pending = page.pending \o next
  <2>1. LoopsSound(page'.loops) /\ Reading(page'.loops) \subseteq Reading(others)
    <3>1. CASE page'.loops = others
      BY <1>2, <3>1
    <3>2. CASE page'.loops = {Emptied(k) : k \in others}
      <4> DEFINE M == {Emptied(k) : k \in others}
                 g == [m \in M |-> CHOOSE k \in others : m = Emptied(k)]
      <4>1. \A m \in M : g[m] \in others /\ m = Emptied(g[m])
        OBVIOUS
      <4>2. ASSUME NEW m \in M PROVE LoopSound(m) /\ Looped(m) \subseteq Looped(g[m])
        <5>1. PICK k : k = g[m]
          OBVIOUS
        <5>2. k \in others /\ m = Emptied(k)
          BY <4>1, <5>1
        <5>3. LoopSound(k)
          BY <1>2, <5>2 DEF LoopsSound
        <5> DEFINE one == SubSeq(k.rest, 1, 1)
        <5>4. /\ k.rest \in Seq(Files) /\ Len(k.rest) \in Nat /\ Len(k.rest) > 0
              /\ DOMAIN k.rest = 1..Len(k.rest)
          BY <5>3 DEF LoopSound
        <5>5. one \in Seq(Files) /\ DOMAIN one = {1} /\ one[1] = k.rest[1] /\ 1 \in DOMAIN k.rest
          BY <5>4
        <5> HIDE DEF one
        <5>6. one # <<>> /\ IsInjective(one) /\ ToSet(one) \subseteq ToSet(k.rest)
          <6>1. one # <<>>
            BY <5>5
          <6>2. IsInjective(one)
            BY <5>5 DEF IsInjective
          <6>3. ToSet(one) \subseteq ToSet(k.rest)
            BY <5>5 DEF ToSet
          <6> QED BY <6>1, <6>2, <6>3
        <5>7. m = IF k.latest THEN [k EXCEPT !.rest = one, !.latest = FALSE] ELSE k
          BY <5>2 DEF Emptied, one
        <5>8. DOMAIN m = DOMAIN k /\ m.next = k.next /\ m.rest \in {one, k.rest}
          BY <5>3, <5>7 DEF LoopSound
        <5> QED BY <5>1, <5>3, <5>5, <5>6, <5>8 DEF LoopSound, Looped
      <4>3. \A m, k \in M : g[m] = g[k] => m = k
        <5> HIDE DEF g, M
        <5> QED BY <4>1
      <4> HIDE DEF g, M
      <4>4. LoopsSound(M) /\ Reading(M) \subseteq Reading(others)
        BY <1>2, <4>1, <4>2, <4>3, LoopsShrink
      <4> QED BY <3>2, <4>4 DEF M
    <3> QED BY <1>10, <3>1, <3>2 DEF Cleared
  <2>2. ToSet(next) \cap ToSet(page.pending) = {}
    BY <1>1, <1>3, <1>8
  <2>3. /\ page'.pending \in Seq(Files) /\ ToSet(page'.pending) = ToSet(page.pending) \cup ToSet(next)
        /\ IsInjective(page'.pending)
    BY <1>1, <1>8, <1>10, <2>2, FilesJoined
  <2> QED BY <1>1, <1>2, <1>3, <1>4, <1>7, <1>8, <2>1, <2>3
<1> QED BY <1>5, <1>9, <1>10

LEMMA FilesRemoved ==
  ASSUME FilesInv, NEW i \in DOMAIN page.pending, RemovePending(i)
  PROVE  FilesInv'
<1>0. DOMAIN page = ComposerCells /\ page.pending \in Seq(Files) /\ IsInjective(page.pending)
  BY DEF FilesInv
<1>1. /\ DOMAIN page' = ComposerCells /\ page'.loops = page.loops /\ page'.picked = page.picked
      /\ page'.pending = RemoveAt(page.pending, i) /\ UNCHANGED <<wire, server>>
  BY <1>0 DEF RemovePending, ComposerCells
<1>2. /\ page'.pending \in Seq(Files) /\ IsInjective(page'.pending)
      /\ ToSet(page'.pending) \subseteq ToSet(page.pending)
  BY <1>0, <1>1, FileTaken
<1>3. /\ Open' = Open /\ \A f : Carrying(f)' = Carrying(f)
      /\ \A f : OneAtMost(Carrying(f)) => OneAtMost(Carrying(f))'
  BY <1>1, SameWire
<1> QED BY <1>1, <1>2, <1>3 DEF FilesInv

\* What was attached goes with the message.
LEMMA FilesSent ==
  ASSUME FilesInv, SendDraft
  PROVE  FilesInv'
<1>x. PICK x : x = Joined([files |-> page.pending], Query("send"))
  OBVIOUS
<1>0. DOMAIN page = ComposerCells /\ page.pending \in Seq(Files)
  BY DEF FilesInv
<1>1. /\ {"op", "stage", "files"} \subseteq DOMAIN x /\ x.op = "send" /\ x.stage = "sent"
      /\ x.files = page.pending
  BY <1>x DEF Joined, Query
<1>2. Ask(x) /\ UNCHANGED server /\ page' = Taken(page)
  BY <1>x DEF SendDraft
<1>3. /\ DOMAIN page' = ComposerCells /\ page'.loops = page.loops /\ page'.picked = page.picked
      /\ page'.pending = <<>>
  <2> DEFINE w == Written(page, Blank)
  <2>1. DOMAIN w = ComposerCells /\ w.loops = page.loops /\ w.picked = page.picked
    BY <1>0 DEF Written, ComposerCells
  <2>2. page' = [w EXCEPT !.status = "sending", !.pending = <<>>]
    BY <1>2 DEF Taken
  <2> HIDE DEF w
  <2> QED BY <2>1, <2>2 DEF ComposerCells
<1>4. Open' = Open \cup {x} /\ (\A y : y # x => Copies(y)' = Copies(y))
      /\ (x \notin Open => Copies(x)' = 1)
  <2>1. Open' = Open \cup {x}
    BY <1>2, AskOpens
  <2>2. /\ \A y : y # x => Copies(y)' = Copies(y)
        /\ x \notin Open => Copies(x)' = 1
    BY <1>2, AskCopies
  <2> QED BY <2>1, <2>2
<1>5. \A r \in Open' : DraftRequest(r)
  <2>1. DraftRequest(x)
    BY <1>0, <1>1 DEF DraftRequest
  <2> QED BY <1>4, <2>1 DEF FilesInv
<1>6. ASSUME NEW f \in Files, f \notin ToSet(page.pending)
      PROVE  Carrying(f)' = Carrying(f) /\ OneAtMost(Carrying(f))'
  <2>1. Carrying(f)' = Carrying(f)
    BY <1>1, <1>4, <1>6 DEF Carrying, Pending
  <2>2. x \notin Carrying(f)
    BY <1>1, <1>6 DEF Carrying
  <2> QED BY <1>4, <2>1, <2>2 DEF FilesInv, OneAtMost
<1>7. ASSUME NEW f \in Files, f \in ToSet(page.pending)
      PROVE  /\ Carrying(f)' = {x} /\ OneAtMost(Carrying(f))'
             /\ f \in page.picked /\ f \notin server.posted /\ f \notin Reading(page.loops)
  <2>1. Carrying(f) = {} /\ f \in page.picked /\ f \notin server.posted /\ f \notin Reading(page.loops)
    BY <1>7 DEF FilesInv
  <2>2. x \notin Open
    BY <1>1, <1>7, <2>1 DEF Carrying, Pending
  <2>3. Carrying(f)' = {x}
    BY <1>1, <1>4, <1>7, <2>1 DEF Carrying, Pending
  <2>4. Copies(x)' = 1
    BY <1>4, <2>2
  <2>5. OneAtMost(Carrying(f))'
    BY <2>3, <2>4 DEF OneAtMost
  <2> QED BY <2>1, <2>3, <2>5
<1>8. <<>> \in Seq(Files) /\ IsInjective(<<>>) /\ ToSet(<<>>) = {}
  BY DEF IsInjective, ToSet
<1> QED BY <1>2, <1>3, <1>5, <1>6, <1>7, <1>8 DEF FilesInv

LEMMA FilesSwitch ==
  ASSUME FilesInv, NEW c \in Convs, SwitchDraft(c)
  PROVE  FilesInv'
<1> DEFINE x == Query("messages")
<1>1. {"op", "stage"} \subseteq DOMAIN x /\ x.op = "messages"
  BY DEF Query
<1>2. /\ Ask(x) /\ UNCHANGED server /\ DOMAIN page' = ComposerCells /\ page'.loops = page.loops
      /\ page'.pending = page.pending /\ page'.picked = page.picked
  BY DEF SwitchDraft, FilesInv, ComposerCells
<1> HIDE DEF x
<1>3. Open' = Open \cup {x} /\ (\A y : y # x => Copies(y)' = Copies(y))
  BY <1>2, AskOpens, AskCopies
<1>4. \A r \in Open' : DraftRequest(r)
  BY <1>1, <1>3 DEF FilesInv, DraftRequest
<1>5. ASSUME NEW f \in Files PROVE Carrying(f)' \subseteq Carrying(f) /\ OneAtMost(Carrying(f))'
  <2>1. Carrying(f)' = Carrying(f) /\ x \notin Carrying(f)
    BY <1>1, <1>3 DEF Carrying, Pending
  <2> QED BY <1>3, <2>1 DEF FilesInv, OneAtMost
<1> QED BY <1>2, <1>4, <1>5, FilesStay

LEMMA FilesAnswered ==
  ASSUME FilesInv, NEW r \in Open, NEW ok \in BOOLEAN, DraftSent(r, ok) \/ DraftSwitched(r, ok)
  PROVE  FilesInv'
<1>1. /\ wire' = Settled(r) /\ UNCHANGED server /\ DOMAIN page' = ComposerCells
      /\ page'.loops = page.loops /\ page'.pending = page.pending /\ page'.picked = page.picked
  BY DEF DraftSent, DraftSwitched, FilesInv, ComposerCells
<1>2. Open' \subseteq Open /\ (\A y : y # r => Copies(y)' = Copies(y))
      /\ (Copies(r) = 1 => r \notin Open')
  BY <1>1, SettleOpens, SettleCopies
<1>3. ASSUME NEW f \in Files PROVE Carrying(f)' \subseteq Carrying(f) /\ OneAtMost(Carrying(f))'
  <2>1. Carrying(f)' \subseteq Carrying(f)
    BY <1>2 DEF Carrying, Pending
  <2>2. Carrying(f)' \subseteq Open'
    BY DEF Carrying, Pending
  <2> QED BY <1>2, <2>1, <2>2 DEF FilesInv, OneAtMost
<1> QED BY <1>1, <1>2, <1>3, FilesStay DEF FilesInv

\* A message is posted with its files.
LEMMA FilesServed ==
  ASSUME FilesInv, NEW r \in Open, ServeComposer(r)
  PROVE  FilesInv'
<1> DEFINE x == Answered(r)
           files == IF r.op = "send" THEN ToSet(r.files) ELSE {}
<1>0. DraftRequest(r) /\ r.stage = "sent"
  BY DEF FilesInv, ServeComposer
<1>1. /\ DOMAIN x = DOMAIN r /\ x["stage"] = "ok" /\ x["op"] = r["op"]
      /\ r.op = "send" => x["files"] = r["files"]
  BY <1>0, AnswerKeeps DEF DraftRequest
<1>2. /\ Reply(r, x) /\ page' = page /\ server' = [posted |-> server.posted \cup files]
  BY DEF ServeComposer
<1> HIDE DEF x
<1>3. /\ DraftRequest(x)
      /\ \A f : x \notin Carrying(f)'
  <2>1. DraftRequest(x)
    BY <1>0, <1>1 DEF DraftRequest
  <2> QED BY <1>1, <2>1 DEF Carrying
<1>4. /\ Open' \subseteq Open \cup {x}
      /\ \A y : y # r /\ y # x => Copies(y)' = Copies(y)
      /\ Copies(r) = 1 /\ x # r => r \notin Open'
  BY <1>2, ReplyOpens, ReplyCopies
<1>5. x # r
  BY <1>0, <1>1
<1>6. ASSUME NEW f \in Files PROVE Carrying(f)' \subseteq Carrying(f) /\ OneAtMost(Carrying(f))'
  <2>1. Carrying(f)' \subseteq Carrying(f)
    BY <1>3, <1>4 DEF Carrying, Pending
  <2>2. Carrying(f)' \subseteq Open'
    BY DEF Carrying, Pending
  <2> QED BY <1>3, <1>4, <1>5, <2>1, <2>2 DEF FilesInv, OneAtMost
<1>7. ASSUME NEW f \in Files, f \in files
      PROVE  /\ Carrying(f)' = {} /\ f \in page.picked /\ f \notin ToSet(page.pending)
             /\ f \notin Reading(page.loops)
  <2>1. r \in Carrying(f)
    BY <1>0, <1>7 DEF Carrying, Pending
  <2>2. Copies(r) = 1 /\ Carrying(f) = {r} /\ f \in page.picked /\ f \notin ToSet(page.pending)
        /\ f \notin Reading(page.loops)
    BY <2>1 DEF FilesInv, OneAtMost
  <2>3. Carrying(f)' \subseteq Open'
    BY DEF Carrying, Pending
  <2> QED BY <1>4, <1>5, <1>6, <2>2, <2>3
<1>8. DOMAIN server' = {"posted"} /\ server'.posted = server.posted \cup files
  BY <1>2
<1> HIDE DEF files
<1>9. \A q \in Open' : DraftRequest(q)
  BY <1>3, <1>4 DEF FilesInv
<1> QED BY <1>2, <1>6, <1>7, <1>8, <1>9 DEF FilesInv

LEMMA FilesKept ==
  ASSUME FilesInv, ComposerNext
  PROVE  FilesInv'
BY FilesEdited, FilesPicked, FilesRead, FilesRemoved, FilesSent, FilesSwitch, FilesAnswered,
   FilesServed DEF ComposerNext

LEMMA FilesInOnePlace ==
  ASSUME FilesInv
  PROVE  \A f \in Files : \A x, y \in Places(f) : x = y
<1> SUFFICES ASSUME NEW f \in Files, NEW x \in Places(f), NEW y \in Places(f) PROVE x = y
  OBVIOUS
<1>1. /\ \A l \in page.loops : f \in ToSet(l.rest \o l.next) => f \in Looped(l) /\ f \in Reading(page.loops)
      /\ \A l, k \in page.loops : f \in Looped(l) /\ f \in Looped(k) => l = k
  <2>1. ASSUME NEW l \in page.loops, f \in ToSet(l.rest \o l.next) PROVE f \in Looped(l) /\ f \in Reading(page.loops)
    <3>1. l.rest \in Seq(Files) /\ l.next \in Seq(Files)
      BY DEF FilesInv, LoopsSound, LoopSound
    <3>2. f \in Looped(l)
      BY <2>1, <3>1, FilesJoined DEF Looped
    <3> QED BY <3>2 DEF Reading
  <2> QED BY <2>1 DEF FilesInv, LoopsSound
<1>2. /\ \A i \in DOMAIN page.pending : page.pending[i] = f => f \in ToSet(page.pending)
      /\ \A i, j \in DOMAIN page.pending : page.pending[i] = f /\ page.pending[j] = f => i = j
  BY DEF FilesInv, IsInjective, ToSet
<1>3. \A r, s \in Carrying(f) : r = s /\ Copies(r) = 1
  BY DEF FilesInv, OneAtMost
<1> DEFINE reads(z) == \E l \in page.loops : z = <<"read", l>> /\ f \in ToSet(l.rest \o l.next)
           drafted(z) == \E i \in DOMAIN page.pending : z = <<"draft", i>> /\ page.pending[i] = f
           sent(z) == \E r \in Carrying(f) : \E n \in 1..Copies(r) : z = <<"sent", r, n>>
           posted(z) == z = <<"posted">> /\ f \in server.posted
<1>4. \A z \in Places(f) : reads(z) \/ drafted(z) \/ sent(z) \/ posted(z)
  BY DEF Places, Carrying
<1>5. /\ \A z : reads(z) => f \in Reading(page.loops)
      /\ \A z : drafted(z) => f \in ToSet(page.pending)
      /\ \A z : sent(z) => Carrying(f) # {}
  BY <1>1, <1>2
<1>6. reads(x) /\ reads(y) => x = y
  BY <1>1
<1>7. drafted(x) /\ drafted(y) => x = y
  BY <1>2
<1>8. sent(x) /\ sent(y) => x = y
  <2> SUFFICES ASSUME sent(x), sent(y) PROVE x = y
    OBVIOUS
  <2>1. PICK r \in Carrying(f) : \E n \in 1..Copies(r) : x = <<"sent", r, n>>
    OBVIOUS
  <2>2. PICK s \in Carrying(f) : \E n \in 1..Copies(s) : y = <<"sent", s, n>>
    OBVIOUS
  <2>3. r = s /\ Copies(r) = 1 /\ \A n \in 1..1 : n = 1
    BY <1>3
  <2> QED BY <2>1, <2>2, <2>3
<1>9. posted(x) /\ posted(y) => x = y
  OBVIOUS
<1>10. /\ f \in Reading(page.loops) => f \notin ToSet(page.pending) /\ Carrying(f) = {} /\ f \notin server.posted
       /\ f \in ToSet(page.pending) => Carrying(f) = {} /\ f \notin server.posted
       /\ Carrying(f) # {} => f \notin server.posted
  BY DEF FilesInv
<1>11. posted(x) \/ posted(y) => f \in server.posted
  OBVIOUS
<1> HIDE DEF reads, drafted, sent, posted
<1> QED BY <1>4, <1>5, <1>6, <1>7, <1>8, <1>9, <1>10, <1>11

-----------------------------------------------------------------------------
(***************************************************************************)
(* The notices.  The list names what was written to last through each      *)
(* update, sort and cut, and a toast without a timer is the one of the     *)
(* summary, which is read once.                                            *)
(***************************************************************************)
LEMMA NoticesStep ==
  ASSUME [Next]_tab, route' = "notices"
  PROVE  \/ UNCHANGED tab
         \/ route = "none" /\ NoticesMounted
         \/ route = "notices" /\ NoticesNext
<1>1. CASE route = "none" /\ OpenPage
  BY <1>1 DEF OpenPage, ChatMounted, ComposerMounted, StoreMounted, SidebarMounted,
     SessionsMounted, SocketMounted, MembersMounted, TeamRosterMounted,
     NoticesMounted, NodesMounted, NamespacesMounted, SystemMounted,
     SettingsMounted, LedgerMounted, ApprovalsMounted, SignInMounted, Mounting
<1>2. CASE route = "notices" /\ Next
  BY <1>2 DEF Next
<1> QED BY <1>1, <1>2, PageStep

NoticesCells == {"items", "totalUnread", "toasts", "timers"}
BackendCells == {"clock", "last", "summary", "shown"}

\* An item, at any time.
NoticeRow == [conv : Rooms, unread : {1}, at : Nat]

LEMMA ItemsTyped ==
  ASSUME NEW s \in Seq(NoticeRow)
  PROVE  /\ Len(s) \in Nat /\ DOMAIN s = 1..Len(s)
         /\ \A i \in 1..Len(s) : /\ s[i] \in NoticeRow /\ i \in Nat
                                 /\ s[i].conv \in Rooms /\ s[i].unread = 1 /\ s[i].at \in Nat
<1>1. Len(s) \in Nat /\ DOMAIN s = 1..Len(s) /\ \A i \in 1..Len(s) : s[i] \in NoticeRow
  OBVIOUS
<1>2. ASSUME NEW x \in NoticeRow PROVE x.conv \in Rooms /\ x.unread = 1 /\ x.at \in Nat
  BY DEF NoticeRow
<1> QED BY <1>1, <1>2

LEMMA PrecedesIsOrder ==
  ASSUME NEW s \in Seq(NoticeRow)
  PROVE  /\ \A i, j, k \in DOMAIN s : Precedes(s, i, j) /\ Precedes(s, j, k) => Precedes(s, i, k)
         /\ \A i \in DOMAIN s : ~Precedes(s, i, i)
         /\ \A i, j \in DOMAIN s : i = j \/ Precedes(s, i, j) \/ Precedes(s, j, i)
<1>1. \A i \in DOMAIN s : s[i].at \in Nat /\ i \in Nat
  BY ItemsTyped
<1>2. ASSUME NEW i \in DOMAIN s, NEW j \in DOMAIN s, NEW k \in DOMAIN s,
             Precedes(s, i, j), Precedes(s, j, k)
      PROVE  Precedes(s, i, k)
  BY <1>1, <1>2 DEF Precedes
<1>3. ASSUME NEW i \in DOMAIN s PROVE ~Precedes(s, i, i)
  BY <1>1 DEF Precedes
<1>4. ASSUME NEW i \in DOMAIN s, NEW j \in DOMAIN s PROVE i = j \/ Precedes(s, i, j) \/ Precedes(s, j, i)
  <2>1. s[i].at \in Nat /\ s[j].at \in Nat /\ i \in Nat /\ j \in Nat
    BY <1>1
  <2> QED BY <2>1 DEF Precedes
<1> QED BY <1>2, <1>3, <1>4

\* Sorting moves each item to a place of its own, the latest first.
LEMMA SortsItems ==
  ASSUME NEW s \in Seq(NoticeRow)
  PROVE  \E p \in [1..Len(s) -> 1..Len(s)] :
           /\ Sorted(s) = [k \in 1..Len(s) |-> s[p[k]]]
           /\ \A k, l \in 1..Len(s) : p[k] = p[l] => k = l
           /\ \A i \in 1..Len(s) : \E k \in 1..Len(s) : p[k] = i
           /\ \A k, l \in 1..Len(s) : k < l => Precedes(s, p[k], p[l])
<1> DEFINE n == Len(s)
           S == DOMAIN s
           first(i) == {j \in S : Precedes(s, j, i)}
           rank == [i \in S |-> Cardinality(first(i))]
           place(k) == CHOOSE i \in S : k = 1 + Cardinality(first(i))
           p == [k \in S |-> place(k)]
<1>1. n \in Nat /\ S = 1..n
  OBVIOUS
<1>2. IsFiniteSet(S) /\ Cardinality(S) = n
  BY <1>1, Finite!FS_Interval, SameFinite, SameCount
<1>3. \A i \in S : first(i) \in SUBSET S /\ IsFiniteSet(first(i)) /\ Cardinality(first(i)) \in Nat
  BY <1>2, SubsetCount
<1>4. ASSUME NEW i \in S, NEW j \in S, Precedes(s, i, j)
      PROVE  rank[i] < rank[j]
  <2>1. first(i) \in SUBSET first(j) /\ i \in first(j) /\ i \notin first(i)
    BY <1>1, <1>4, PrecedesIsOrder
  <2>2. IsFiniteSet(first(j))
    BY <1>3
  <2>r. \A k \in S : rank[k] = Cardinality(first(k))
    OBVIOUS
  <2>3. rank[i] = Cardinality(first(i)) /\ rank[j] = Cardinality(first(j))
    BY <2>r
  <2> HIDE DEF first, rank
  <2>4. /\ Cardinality(first(i)) \in Nat /\ Cardinality(first(j)) \in Nat
        /\ Cardinality(first(i)) <= Cardinality(first(j))
        /\ Cardinality(first(i)) # Cardinality(first(j))
    BY <2>1, <2>2, SubsetCount
  <2> QED BY <2>3, <2>4
<1>5. rank \in [S -> 0..(Cardinality(S) - 1)]
  <2> SUFFICES ASSUME NEW i \in S PROVE Cardinality(first(i)) \in 0..(Cardinality(S) - 1)
    OBVIOUS
  <2>1. first(i) \in SUBSET S /\ i \notin first(i)
    BY <1>1, PrecedesIsOrder
  <2> HIDE DEF first
  <2>2. Cardinality(first(i)) \in Nat /\ Cardinality(first(i)) <= n /\ Cardinality(first(i)) # n
    BY <1>2, <2>1, SubsetCount
  <2> QED BY <1>1, <1>2, <2>2
<1>r. \A i \in S : rank[i] \in 0..(n - 1)
  BY <1>2, <1>5
<1>6. ASSUME NEW i \in S, NEW j \in S, i # j PROVE rank[i] # rank[j]
  <2> HIDE DEF rank
  <2>1. Precedes(s, i, j) \/ Precedes(s, j, i)
    BY <1>1, <1>6, PrecedesIsOrder
  <2>2. rank[i] < rank[j] \/ rank[j] < rank[i]
    BY <1>4, <2>1
  <2>3. rank[i] \in Nat /\ rank[j] \in Nat
    BY <1>1, <1>r
  <2> QED BY <2>2, <2>3
<1>7. \A k \in 0..(n - 1) : \E i \in S : rank[i] = k
  <2> HIDE DEF rank, S, n
  <2>1. \A x, y \in S : x # y => rank[x] # rank[y]
    BY <1>6
  <2>2. \A k \in 0..(Cardinality(S) - 1) : \E i \in S : rank[i] = k
    BY <1>2, <1>5, <2>1, EachOnce
  <2> QED BY <1>2, <2>2
<1>8. ASSUME NEW k \in S PROVE p[k] \in S /\ rank[p[k]] = k - 1
  <2>1. k - 1 \in 0..(n - 1)
    BY <1>1
  <2>2. \E i \in S : rank[i] = k - 1
    BY <1>7, <2>1
  <2>3. \A i \in S : rank[i] \in Nat
    BY <1>1, <1>r
  <2>r. (\A i \in S : rank[i] = Cardinality(first(i))) /\ p[k] = place(k)
    OBVIOUS
  <2> HIDE DEF rank, first, p
  <2>4. \E i \in S : k = 1 + Cardinality(first(i))
    BY <1>1, <2>2, <2>3, <2>r
  <2>5. place(k) \in S /\ k = 1 + Cardinality(first(place(k)))
    BY <2>4
  <2> HIDE DEF place
  <2> QED BY <1>1, <2>3, <2>5, <2>r
<1>9. Sorted(s) = [k \in S |-> s[p[k]]]
  <2>1. Sorted(s) = [k \in S |-> s[place(k)]]
    BY DEF Sorted
  <2>2. \A k \in S : p[k] = place(k)
    OBVIOUS
  <2> HIDE DEF p, place
  <2> QED BY <2>1, <2>2
<1> HIDE DEF rank
<1>10. ASSUME NEW k \in S, NEW l \in S, k < l PROVE Precedes(s, p[k], p[l])
  <2>1. p[k] \in S /\ p[l] \in S /\ rank[p[k]] = k - 1 /\ rank[p[l]] = l - 1
    BY <1>8
  <2> HIDE DEF p
  <2>2. p[k] # p[l] /\ ~(rank[p[l]] < rank[p[k]])
    BY <1>1, <1>10, <2>1
  <2> QED BY <1>1, <1>4, <2>1, <2>2, PrecedesIsOrder
<1>11. \A k, l \in S : p[k] = p[l] => k = l
  <2> SUFFICES ASSUME NEW k \in S, NEW l \in S, p[k] = p[l] PROVE k = l
    OBVIOUS
  <2>1. rank[p[k]] = k - 1 /\ rank[p[l]] = l - 1
    BY <1>8
  <2> HIDE DEF p
  <2> QED BY <1>1, <2>1
<1>12. ASSUME NEW i \in S PROVE \E k \in S : p[k] = i
  <2>1. rank[i] \in 0..(n - 1)
    BY <1>r
  <2>2. rank[i] + 1 \in S
    BY <1>1, <2>1
  <2>a. \A k \in S : p[k] \in S /\ rank[p[k]] = k - 1
    BY <1>8
  <2> HIDE DEF p, S, n
  <2>3. p[rank[i] + 1] \in S /\ rank[p[rank[i] + 1]] = rank[i]
    BY <1>1, <2>a, <2>1, <2>2
  <2>4. p[rank[i] + 1] = i
    BY <1>6, <2>3
  <2> QED BY <2>2, <2>4
<1>13. p \in [S -> S]
  BY <1>8
<1> HIDE DEF p
<1> QED BY <1>1, <1>9, <1>10, <1>11, <1>12, <1>13

\* Of items that count one each, the reduce is their number.
LEMMA CountsItems ==
  ASSUME NEW s \in Seq(NoticeRow)
  PROVE  TotalUnread(s) = Len(s)
<1> DEFINE Sums(f) == f = [n \in 0..Len(s) |-> IF n = 0 THEN 0 ELSE f[n - 1] + s[n].unread]
           of == CHOOSE f : Sums(f)
<1>1. Len(s) \in Nat /\ \A n \in 1..Len(s) : s[n].unread = 1
  BY ItemsTyped
<1>2. Sums([n \in 0..Len(s) |-> n])
  <2> DEFINE g == [n \in 0..Len(s) |-> n]
  <2>1. ASSUME NEW n \in 0..Len(s) PROVE g[n] = IF n = 0 THEN 0 ELSE g[n - 1] + s[n].unread
    <3>1. n # 0 => n - 1 \in 0..Len(s) /\ n \in 1..Len(s)
      BY <1>1
    <3> QED BY <1>1, <3>1
  <2>2. g = [n \in 0..Len(s) |-> IF n = 0 THEN 0 ELSE g[n - 1] + s[n].unread]
    BY <2>1
  <2> QED BY <2>2
<1>3. Sums(of)
  <2> HIDE DEF Sums
  <2> QED BY <1>2
<1>4. TotalUnread(s) = of[Len(s)]
  BY DEF TotalUnread
<1> HIDE DEF of
<1>5. \A n \in 0..Len(s) : of[n] = IF n = 0 THEN 0 ELSE of[n - 1] + s[n].unread
  BY <1>3
<1> DEFINE Done == {n \in Nat : n <= Len(s) => of[n] = n}
<1>6. 0 \in Done
  BY <1>1, <1>5
<1>7. ASSUME NEW n \in Nat, n \in Done PROVE n + 1 \in Done
  <2>1. n + 1 <= Len(s) => of[n + 1] = of[n] + s[n + 1].unread /\ s[n + 1].unread = 1
    BY <1>1, <1>5
  <2> QED BY <1>1, <1>7, <2>1
<1>8. Len(s) \in Done
  <2> HIDE DEF Done
  <2> QED BY <1>1, <1>6, <1>7, SetInduction
<1> QED BY <1>1, <1>4, <1>8

-----------------------------------------------------------------------------
\* The items s name, each once, the conversations of which last says when they were
\* written to last, and leave one out only if they are many enough and as recent.
Naming(s, last) ==
  /\ s \in Seq(NoticeRow)
  /\ \A i, j \in 1..Len(s) : s[i].conv = s[j].conv => i = j
  /\ \A i \in 1..Len(s) : s[i].conv \in DOMAIN last /\ s[i].at = last[s[i].conv]
  /\ \A c \in DOMAIN last :
       \/ \E i \in 1..Len(s) : s[i].conv = c
       \/ Len(s) >= MaxPreviewItems /\ \A i \in 1..Len(s) : s[i].at >= last[c]

Descending(s) == \A i, j \in 1..Len(s) : i < j => s[i].at >= s[j].at

LEMMA NamingUpdated ==
  ASSUME NEW s, NEW last, Naming(s, last), NEW c \in Rooms, NEW now \in Nat,
         \A d \in DOMAIN last : last[d] \in Nat /\ last[d] <= now
  PROVE  Naming(ItemsUpdated(s, c, now), With(last, c, now))
<1> DEFINE item == [conv |-> c, unread |-> 1, at |-> now]
           u == ItemsUpdated(s, c, now)
           w == With(last, c, now)
<1>0. /\ s \in Seq(NoticeRow) /\ Len(s) \in Nat /\ DOMAIN s = 1..Len(s)
      /\ \A i \in 1..Len(s) : s[i] \in NoticeRow /\ s[i].at \in Nat
      /\ \A i, j \in 1..Len(s) : s[i].conv = s[j].conv => i = j
      /\ \A i \in 1..Len(s) : s[i].conv \in DOMAIN last /\ s[i].at = last[s[i].conv]
      /\ \A d \in DOMAIN last :
           \/ \E i \in 1..Len(s) : s[i].conv = d
           \/ Len(s) >= MaxPreviewItems /\ \A i \in 1..Len(s) : s[i].at >= last[d]
  BY ItemsTyped DEF Naming
<1>1. item \in NoticeRow /\ item.conv = c /\ item.at = now
  BY DEF NoticeRow
<1>2. /\ DOMAIN w = DOMAIN last \cup {c} /\ w[c] = now
      /\ \A d \in DOMAIN last : d # c => w[d] = last[d]
  BY DEF With
<1> HIDE DEF item, w
<1>3. CASE \E i \in 1..Len(s) : s[i].conv = c
  <2>1. u = [i \in 1..Len(s) |-> IF s[i].conv = c THEN item ELSE s[i]]
    BY <1>0, <1>3 DEF ItemsUpdated, ToSet, item
  <2> HIDE DEF u
  <2>2. u \in Seq(NoticeRow) /\ Len(u) = Len(s)
    BY <1>0, <1>1, <2>1
  <2>3. \A i \in 1..Len(s) : /\ u[i].conv = s[i].conv /\ u[i].at \in Nat /\ u[i].at >= s[i].at
                             /\ u[i].at = w[u[i].conv]
                             /\ (s[i].conv # c => u[i] = s[i])
    BY <1>0, <1>1, <1>2, <2>1
  <2>4. ASSUME NEW d \in DOMAIN w
        PROVE  \/ \E i \in 1..Len(u) : u[i].conv = d
               \/ Len(u) >= MaxPreviewItems /\ \A i \in 1..Len(u) : u[i].at >= w[d]
    <3>1. CASE \E i \in 1..Len(s) : s[i].conv = d
      BY <2>2, <2>3, <3>1
    <3>2. CASE ~ \E i \in 1..Len(s) : s[i].conv = d
      <4>1. d # c /\ d \in DOMAIN last /\ w[d] = last[d] /\ last[d] \in Nat
        BY <1>2, <1>3, <3>2
      <4>2. Len(s) >= MaxPreviewItems /\ \A i \in 1..Len(s) : s[i].at >= last[d]
        BY <1>0, <3>2, <4>1
      <4> QED BY <1>0, <2>2, <2>3, <4>1, <4>2
    <3> QED BY <3>1, <3>2
  <2>5. \A i, j \in 1..Len(u) : u[i].conv = u[j].conv => i = j
    BY <1>0, <2>2, <2>3
  <2>6. \A i \in 1..Len(u) : u[i].conv \in DOMAIN w /\ u[i].at = w[u[i].conv]
    BY <1>0, <1>2, <2>2, <2>3
  <2> QED BY <2>2, <2>4, <2>5, <2>6 DEF Naming, u, w
<1>4. CASE ~ \E i \in 1..Len(s) : s[i].conv = c
  <2>1. u = Append(s, item)
    BY <1>0, <1>4 DEF ItemsUpdated, ToSet, item
  <2> HIDE DEF u
  <2>2. /\ u \in Seq(NoticeRow) /\ Len(u) = Len(s) + 1 /\ u[Len(s) + 1] = item
        /\ \A i \in 1..Len(s) : u[i] = s[i]
    BY <1>0, <1>1, <2>1
  <2>3. \A i \in 1..Len(u) : i \in 1..Len(s) \/ i = Len(s) + 1
    BY <1>0, <2>2
  <2>4. ASSUME NEW d \in DOMAIN w
        PROVE  \/ \E i \in 1..Len(u) : u[i].conv = d
               \/ Len(u) >= MaxPreviewItems /\ \A i \in 1..Len(u) : u[i].at >= w[d]
    <3>1. CASE d = c
      <4>1. Len(s) + 1 \in 1..Len(u) /\ u[Len(s) + 1].conv = d
        BY <1>0, <1>1, <2>2, <3>1
      <4> QED BY <4>1
    <3>2. CASE d # c
      <4>1. d \in DOMAIN last /\ w[d] = last[d] /\ last[d] \in Nat /\ last[d] <= now
        BY <1>2, <3>2
      <4>2. CASE \E i \in 1..Len(s) : s[i].conv = d
        <5>1. \A i \in 1..Len(s) : i \in 1..Len(u)
          BY <1>0, <2>2
        <5> QED BY <2>2, <4>2, <5>1
      <4>3. CASE Len(s) >= MaxPreviewItems /\ \A i \in 1..Len(s) : s[i].at >= last[d]
        <5>1. \A i \in 1..Len(u) : u[i].at >= w[d]
          BY <1>1, <2>2, <2>3, <4>1, <4>3
        <5>2. Len(u) >= MaxPreviewItems
          BY <1>0, <2>2, <4>3, NoticesAssumption
        <5> QED BY <5>1, <5>2
      <4> QED BY <1>0, <4>1, <4>2, <4>3
    <3> QED BY <3>1, <3>2
  <2>5. \A i, j \in 1..Len(u) : u[i].conv = u[j].conv => i = j
    BY <1>0, <1>1, <1>4, <2>2, <2>3
  <2>6. \A i \in 1..Len(u) : u[i].conv \in DOMAIN w /\ u[i].at = w[u[i].conv]
    BY <1>0, <1>1, <1>2, <1>4, <2>2, <2>3
  <2> QED BY <2>2, <2>4, <2>5, <2>6 DEF Naming, u, w
<1> QED BY <1>3, <1>4

LEMMA NamingSorted ==
  ASSUME NEW s, NEW last, Naming(s, last)
  PROVE  Naming(Sorted(s), last) /\ Descending(Sorted(s)) /\ Len(Sorted(s)) = Len(s)
<1> DEFINE o == Sorted(s)
<1>0. /\ s \in Seq(NoticeRow) /\ Len(s) \in Nat /\ DOMAIN s = 1..Len(s)
      /\ \A i \in 1..Len(s) : s[i] \in NoticeRow /\ s[i].at \in Nat
      /\ \A i, j \in 1..Len(s) : s[i].conv = s[j].conv => i = j
      /\ \A i \in 1..Len(s) : s[i].conv \in DOMAIN last /\ s[i].at = last[s[i].conv]
      /\ \A d \in DOMAIN last :
           \/ \E i \in 1..Len(s) : s[i].conv = d
           \/ Len(s) >= MaxPreviewItems /\ \A i \in 1..Len(s) : s[i].at >= last[d]
  BY ItemsTyped DEF Naming
<1>1. PICK p \in [1..Len(s) -> 1..Len(s)] :
           /\ o = [k \in 1..Len(s) |-> s[p[k]]]
           /\ \A k, l \in 1..Len(s) : p[k] = p[l] => k = l
           /\ \A i \in 1..Len(s) : \E k \in 1..Len(s) : p[k] = i
           /\ \A k, l \in 1..Len(s) : k < l => Precedes(s, p[k], p[l])
  BY <1>0, SortsItems
<1> HIDE DEF o
<1>a. \A k \in 1..Len(s) : p[k] \in 1..Len(s) /\ o[k] = s[p[k]] /\ s[p[k]] \in NoticeRow
  BY <1>0, <1>1
<1>b. o \in [1..Len(s) -> NoticeRow]
  BY <1>1, <1>a
<1>2. o \in Seq(NoticeRow) /\ Len(o) = Len(s) /\ \A k \in 1..Len(s) : o[k] = s[p[k]] /\ p[k] \in 1..Len(s)
  BY <1>0, <1>a, <1>b
<1>3. \A k, l \in 1..Len(o) : o[k].conv = o[l].conv => k = l
  <2> SUFFICES ASSUME NEW k \in 1..Len(o), NEW l \in 1..Len(o), o[k].conv = o[l].conv PROVE k = l
    OBVIOUS
  <2>1. k \in 1..Len(s) /\ l \in 1..Len(s) /\ p[k] \in 1..Len(s) /\ p[l] \in 1..Len(s)
        /\ s[p[k]].conv = s[p[l]].conv
    BY <1>2
  <2>2. p[k] = p[l]
    BY <1>0, <2>1
  <2> QED BY <1>1, <2>1, <2>2
<1>4. \A k \in 1..Len(o) : o[k].conv \in DOMAIN last /\ o[k].at = last[o[k].conv]
  BY <1>0, <1>2
<1>5. ASSUME NEW d \in DOMAIN last
      PROVE  \/ \E k \in 1..Len(o) : o[k].conv = d
             \/ Len(o) >= MaxPreviewItems /\ \A k \in 1..Len(o) : o[k].at >= last[d]
  <2>1. CASE \E i \in 1..Len(s) : s[i].conv = d
    <3>1. PICK i \in 1..Len(s) : s[i].conv = d
      BY <2>1
    <3>2. PICK k \in 1..Len(s) : p[k] = i
      BY <1>1
    <3>3. o[k] = s[i] /\ k \in 1..Len(o)
      BY <1>2, <3>2
    <3> QED BY <3>1, <3>3
  <2>2. CASE Len(s) >= MaxPreviewItems /\ \A i \in 1..Len(s) : s[i].at >= last[d]
    BY <1>2, <2>2
  <2> QED BY <1>0, <2>1, <2>2
<1>6. Descending(o)
  <2>1. ASSUME NEW k \in 1..Len(o), NEW l \in 1..Len(o), k < l PROVE o[k].at >= o[l].at
    <3>1. Precedes(s, p[k], p[l]) /\ o[k] = s[p[k]] /\ o[l] = s[p[l]]
      BY <1>1, <1>2, <2>1
    <3>2. s[p[k]].at \in Nat /\ s[p[l]].at \in Nat
      BY <1>0, <1>2
    <3> QED BY <3>1, <3>2 DEF Precedes
  <2> QED BY <2>1 DEF Descending
<1> QED BY <1>2, <1>3, <1>4, <1>5, <1>6 DEF Naming, o

LEMMA NamingTrimmed ==
  ASSUME NEW s, NEW last, Naming(s, last), Descending(s)
  PROVE  /\ Naming(Trimmed(s), last) /\ Descending(Trimmed(s))
         /\ Len(Trimmed(s)) <= MaxPreviewItems
<1> DEFINE o == Trimmed(s)
           n == IF Len(s) < MaxPreviewItems THEN Len(s) ELSE MaxPreviewItems
<1>0. /\ s \in Seq(NoticeRow) /\ Len(s) \in Nat /\ DOMAIN s = 1..Len(s)
      /\ \A i \in 1..Len(s) : s[i] \in NoticeRow /\ s[i].at \in Nat
      /\ \A i, j \in 1..Len(s) : s[i].conv = s[j].conv => i = j
      /\ \A i \in 1..Len(s) : s[i].conv \in DOMAIN last /\ s[i].at = last[s[i].conv]
      /\ \A d \in DOMAIN last :
           \/ \E i \in 1..Len(s) : s[i].conv = d
           \/ Len(s) >= MaxPreviewItems /\ \A i \in 1..Len(s) : s[i].at >= last[d]
      /\ \A i, j \in 1..Len(s) : i < j => s[i].at >= s[j].at
  BY ItemsTyped DEF Naming, Descending
<1>n. Len(s) \in Nat
  BY <1>0
<1>1. n \in Nat /\ n <= Len(s) /\ n <= MaxPreviewItems /\ (n < Len(s) => n = MaxPreviewItems)
      /\ (Len(s) >= MaxPreviewItems => n = MaxPreviewItems)
  BY <1>n, NoticesAssumption
<1>2. o = SubSeq(s, 1, n)
  BY DEF Trimmed
<1> HIDE DEF n, o
<1>3. o \in Seq(NoticeRow) /\ Len(o) = n /\ \A i \in 1..n : o[i] = s[i] /\ i \in 1..Len(s)
  BY <1>0, <1>1, <1>2
<1>4. ASSUME NEW d \in DOMAIN last
      PROVE  \/ \E k \in 1..Len(o) : o[k].conv = d
             \/ Len(o) >= MaxPreviewItems /\ \A k \in 1..Len(o) : o[k].at >= last[d]
  <2>1. ASSUME NEW i \in 1..Len(s), s[i].conv = d
        PROVE  \/ \E k \in 1..Len(o) : o[k].conv = d
               \/ Len(o) >= MaxPreviewItems /\ \A k \in 1..Len(o) : o[k].at >= last[d]
    <3>1. CASE i \in 1..n
      BY <1>3, <2>1, <3>1
    <3>2. CASE i \notin 1..n
      <4>1. n < i /\ n = MaxPreviewItems /\ s[i].at = last[d]
        BY <1>0, <1>1, <2>1, <3>2
      <4>2. \A k \in 1..n : s[k].at >= s[i].at
        BY <1>0, <1>1, <1>3, <4>1
      <4> QED BY <1>1, <1>3, <4>1, <4>2
    <3> QED BY <3>1, <3>2
  <2>2. CASE Len(s) >= MaxPreviewItems /\ \A i \in 1..Len(s) : s[i].at >= last[d]
    BY <1>1, <1>3, <2>2
  <2> QED BY <1>0, <2>1, <2>2
<1>5. /\ \A i, j \in 1..Len(o) : o[i].conv = o[j].conv => i = j
      /\ \A i \in 1..Len(o) : o[i].conv \in DOMAIN last /\ o[i].at = last[o[i].conv]
      /\ Descending(o)
  BY <1>0, <1>3 DEF Descending
<1> QED BY <1>1, <1>3, <1>4, <1>5 DEF Naming, o

-----------------------------------------------------------------------------
\* What the cells of the notices hold, and what is known of the read of the summary:
\* it is sent once, and before it ends every toast on the screen has its timer.
ListInv ==
  /\ Naming(page.items, server.last) /\ Descending(page.items)
  /\ Len(page.items) <= MaxPreviewItems
  /\ page.totalUnread = Len(page.items)
  /\ server.clock \in Nat
  /\ \A c \in DOMAIN server.last : server.last[c] \in Nat /\ server.last[c] <= server.clock

ToastsInv ==
  /\ page.toasts \in Seq(Toasts)
  /\ ToSet(page.toasts) \subseteq page.timers \cup {server.summary}
  /\ Pending("summary") # {} => ToSet(page.toasts) \subseteq page.timers

SummaryInv ==
  /\ OneAtMost(Pending("summary"))
  /\ \A r \in Open : {"op", "stage"} \subseteq DOMAIN r

NoticesInv ==
  /\ DOMAIN page = NoticesCells /\ DOMAIN server = BackendCells
  /\ ListInv /\ ToastsInv /\ SummaryInv

LEMMA NoticesStart ==
  ASSUME NoticesMounted
  PROVE  NoticesInv'
<1> DEFINE x == Query("summary")
<1>1. Open' = {x} /\ wire' = SetToBag({x})
  BY MountOpens DEF NoticesMounted, Mounting
<1>2. {"op", "stage"} \subseteq DOMAIN x
  BY DEF Query
<1> HIDE DEF x
<1>3. Copies(x)' = 1
  BY <1>1 DEF Copies, SetToBag
<1>4. /\ DOMAIN page' = NoticesCells /\ DOMAIN server' = BackendCells
      /\ page'.items = <<>> /\ page'.totalUnread = 0 /\ page'.toasts = <<>>
      /\ server'.clock = 0 /\ server'.last = <<>>
  BY DEF NoticesMounted, Mounting, NoticesCells, BackendCells
<1>5. /\ <<>> \in Seq(NoticeRow) /\ <<>> \in Seq(Toasts) /\ DOMAIN <<>> = {} /\ Len(<<>>) = 0
      /\ 1..0 = {} /\ ToSet(<<>>) = {}
  BY DEF ToSet
<1>6. Naming(page'.items, server'.last) /\ Descending(page'.items)
  BY <1>4, <1>5 DEF Naming, Descending
<1>7. ListInv' /\ ToastsInv'
  BY <1>4, <1>5, <1>6, NoticesAssumption DEF ListInv, ToastsInv
<1>8. SummaryInv'
  BY <1>1, <1>2, <1>3 DEF SummaryInv, OneAtMost, Pending
<1> QED BY <1>4, <1>7, <1>8 DEF NoticesInv

\* An event puts its conversation first.
LEMMA ListNoticed ==
  ASSUME NoticesInv, NEW c \in Rooms, ChatDeltaNoticed(c)
  PROVE  ListInv' /\ DOMAIN page' = NoticesCells /\ DOMAIN server' = BackendCells
         /\ page'.toasts = page.toasts /\ page'.timers = page.timers
         /\ server'.summary = server.summary
<1>0. ListInv /\ DOMAIN page = NoticesCells /\ DOMAIN server = BackendCells
  BY DEF NoticesInv
<1>1. PICK now \in {server.clock, server.clock + 1} \cap 0..MaxClock :
        LET items == Trimmed(Sorted(ItemsUpdated(page.items, c, now)))
        IN  /\ page' = [page EXCEPT !.items = items, !.totalUnread = TotalUnread(items)]
            /\ server' = [server EXCEPT !.clock = now, !.last = With(@, c, now)]
  BY DEF ChatDeltaNoticed
<1> DEFINE items == Trimmed(Sorted(ItemsUpdated(page.items, c, now)))
           w == With(server.last, c, now)
<1>2. now \in Nat /\ now >= server.clock
  BY <1>0 DEF ListInv
<1>3. \A d \in DOMAIN server.last : server.last[d] \in Nat /\ server.last[d] <= now
  BY <1>0, <1>2 DEF ListInv
<1>4. Naming(ItemsUpdated(page.items, c, now), w)
  BY <1>0, <1>2, <1>3, NamingUpdated DEF ListInv
<1>5. Naming(Sorted(ItemsUpdated(page.items, c, now)), w)
      /\ Descending(Sorted(ItemsUpdated(page.items, c, now)))
  BY <1>4, NamingSorted
<1>6. Naming(items, w) /\ Descending(items) /\ Len(items) <= MaxPreviewItems
  BY <1>5, NamingTrimmed
<1>w. \A d \in DOMAIN w : w[d] \in Nat /\ w[d] <= now
  BY <1>2, <1>3 DEF With
<1>v. page' = [page EXCEPT !.items = items, !.totalUnread = TotalUnread(items)]
      /\ server' = [server EXCEPT !.clock = now, !.last = w]
  BY <1>1
<1> HIDE DEF items, w
<1>7. items \in Seq(NoticeRow)
  BY <1>6 DEF Naming
<1>8. TotalUnread(items) = Len(items)
  BY <1>7, CountsItems
<1>9. /\ DOMAIN page' = NoticesCells /\ page'.items = items /\ page'.totalUnread = TotalUnread(items)
      /\ page'.toasts = page.toasts /\ page'.timers = page.timers
  BY <1>0, <1>v DEF NoticesCells
<1>10. /\ DOMAIN server' = BackendCells /\ server'.clock = now /\ server'.last = w
       /\ server'.summary = server.summary
  BY <1>0, <1>v DEF BackendCells
<1>11. ListInv'
  BY <1>2, <1>6, <1>8, <1>9, <1>10, <1>w DEF ListInv
<1> QED BY <1>9, <1>10, <1>11

\* A toast that goes leaves the others.
LEMMA ToastsGone ==
  ASSUME page.toasts \in Seq(Toasts), NEW t
  PROVE  Gone(t) \in Seq(Toasts) /\ ToSet(Gone(t)) \subseteq ToSet(page.toasts) \ {t}
<1> DEFINE s == page.toasts
           P == {i \in DOMAIN s : s[i] # t}
           o == Gone(t)
<1>1. o = Selected(s, P) /\ s \in Seq(Toasts)
  BY DEF Gone
<1>2. \A k \in P : s[k] # t /\ k \in DOMAIN s
  OBVIOUS
<1> HIDE DEF o, P
<1>3. o \in Seq(Toasts) /\ \A i \in DOMAIN o : \E k \in P \cap (1..Len(s)) : o[i] = s[k]
  <2> HIDE DEF s
  <2> QED BY <1>1, SelectedIsOf
<1>4. \A i \in DOMAIN o : o[i] # t /\ \E k \in DOMAIN s : o[i] = s[k]
  BY <1>2, <1>3
<1> QED BY <1>3, <1>4 DEF ToSet, o

LEMMA ToastAppended ==
  ASSUME page.toasts \in Seq(Toasts), NEW t \in Toasts
  PROVE  Append(page.toasts, t) \in Seq(Toasts)
         /\ ToSet(Append(page.toasts, t)) \subseteq ToSet(page.toasts) \cup {t}
<1> DEFINE s == page.toasts
           q == Append(s, t)
<1>1. /\ q \in Seq(Toasts) /\ Len(s) \in Nat /\ DOMAIN s = 1..Len(s) /\ DOMAIN q = 1..(Len(s) + 1)
      /\ \A i \in 1..Len(s) : q[i] = s[i]
      /\ q[Len(s) + 1] = t
  OBVIOUS
<1> HIDE DEF q
<1>2. \A i \in DOMAIN q : q[i] = t \/ (i \in DOMAIN s /\ q[i] = s[i])
  BY <1>1
<1> QED BY <1>1, <1>2 DEF ToSet, q

LEMMA NoticesKept ==
  ASSUME NoticesInv, NoticesNext
  PROVE  NoticesInv'
<1>0. /\ DOMAIN page = NoticesCells /\ DOMAIN server = BackendCells
      /\ ListInv /\ ToastsInv /\ SummaryInv
      /\ page.toasts \in Seq(Toasts)
  BY DEF NoticesInv, ToastsInv
<1>1. ASSUME UNCHANGED wire
      PROVE  SummaryInv' /\ Pending("summary")' = Pending("summary")
  <2>1. Open' = Open /\ \A r : Copies(r)' = Copies(r)
    BY <1>1 DEF Open, Copies
  <2> QED BY <1>0, <2>1 DEF SummaryInv, OneAtMost, Pending
<1>2. ASSUME page'.items = page.items, page'.totalUnread = page.totalUnread,
             server'.clock = server.clock, server'.last = server.last
      PROVE  ListInv'
  BY <1>0, <1>2 DEF ListInv
<1>3. ASSUME NEW c \in Rooms, ChatDeltaNoticed(c) PROVE NoticesInv'
  <2>1. UNCHANGED wire
    BY <1>3 DEF ChatDeltaNoticed
  <2>2. /\ ListInv' /\ DOMAIN page' = NoticesCells /\ DOMAIN server' = BackendCells
        /\ page'.toasts = page.toasts /\ page'.timers = page.timers
        /\ server'.summary = server.summary
    BY <1>3, ListNoticed
  <2> QED BY <1>0, <1>1, <2>1, <2>2 DEF NoticesInv, ToastsInv
<1>4. ASSUME NEW t \in Toasts, PushToast(t) PROVE NoticesInv'
  <2>1. UNCHANGED wire
    BY <1>4 DEF PushToast
  <2>2. /\ DOMAIN page' = NoticesCells /\ DOMAIN server' = BackendCells
        /\ page'.items = page.items /\ page'.totalUnread = page.totalUnread
        /\ server'.clock = server.clock /\ server'.last = server.last
        /\ server'.summary = server.summary
        /\ page'.toasts = Append(page.toasts, t) /\ page'.timers = page.timers \cup {t}
    BY <1>0, <1>4 DEF PushToast, NoticesCells, BackendCells
  <2>3. ToastsInv'
    BY <1>0, <1>1, <2>1, <2>2, ToastAppended DEF ToastsInv
  <2> QED BY <1>1, <1>2, <2>1, <2>2, <2>3 DEF NoticesInv
<1>5. ASSUME NEW t \in Toasts, ToastTimer(t) \/ DismissNotification(t) PROVE NoticesInv'
  <2>1. UNCHANGED <<wire, server>>
    BY <1>5 DEF ToastTimer, DismissNotification
  <2>2. /\ DOMAIN page' = NoticesCells
        /\ page'.items = page.items /\ page'.totalUnread = page.totalUnread
        /\ page'.toasts = Gone(t) /\ page.timers \ {t} \subseteq page'.timers
    BY <1>0, <1>5 DEF ToastTimer, DismissNotification, NoticesCells
  <2>3. Gone(t) \in Seq(Toasts) /\ ToSet(Gone(t)) \subseteq ToSet(page.toasts) \ {t}
    BY <1>0, ToastsGone
  <2>4. ToastsInv'
    BY <1>0, <1>1, <2>1, <2>2, <2>3 DEF ToastsInv
  <2> QED BY <1>0, <1>1, <1>2, <2>1, <2>2, <2>4 DEF NoticesInv
<1>6. ASSUME NEW r \in Open, NEW ok \in BOOLEAN, SummaryRead(r, ok) PROVE NoticesInv'
  <2>1. wire' = Settled(r) /\ r \in Pending("summary")
    BY <1>6 DEF SummaryRead, Pending
  <2>2. Open' \subseteq Open /\ \A y : y # r => Copies(y)' = Copies(y)
    BY <2>1, SettleOpens, SettleCopies
  <2>3. Pending("summary")' = {}
    <3>1. Copies(r) = 1 /\ \A y \in Pending("summary") : y = r
      BY <1>0, <2>1 DEF SummaryInv, OneAtMost
    <3>2. r \notin Open'
      BY <2>1, <3>1, SettleCopies
    <3> QED BY <2>2, <3>1, <3>2 DEF Pending
  <2>4. SummaryInv'
    BY <1>0, <2>2, <2>3 DEF SummaryInv, OneAtMost
  <2>5. ToSet(page.toasts) \subseteq page.timers
    BY <1>0, <2>1 DEF ToastsInv
  <2>6. CASE UNCHANGED <<page, server>>
    BY <1>0, <1>2, <2>3, <2>4, <2>6 DEF NoticesInv, ToastsInv
  <2>7. CASE \E t \in Unshown : /\ page' = [page EXCEPT !.toasts = Append(@, t)]
                               /\ server' = [server EXCEPT !.shown = @ \cup {t}, !.summary = t]
    <3>1. PICK t \in Toasts : /\ page' = [page EXCEPT !.toasts = Append(@, t)]
                              /\ server' = [server EXCEPT !.shown = @ \cup {t}, !.summary = t]
      BY <2>7 DEF Unshown
    <3>2. /\ DOMAIN page' = NoticesCells /\ DOMAIN server' = BackendCells
          /\ page'.items = page.items /\ page'.totalUnread = page.totalUnread
          /\ server'.clock = server.clock /\ server'.last = server.last
          /\ server'.summary = t
          /\ page'.toasts = Append(page.toasts, t) /\ page'.timers = page.timers
      BY <1>0, <3>1 DEF NoticesCells, BackendCells
    <3>3. ToastsInv'
      BY <1>0, <2>3, <2>5, <3>2, ToastAppended DEF ToastsInv
    <3> QED BY <1>2, <2>4, <3>2, <3>3 DEF NoticesInv
  <2> QED BY <1>6, <2>6, <2>7 DEF SummaryRead
<1>7. ASSUME NEW r \in Open, ServeNotices(r) PROVE NoticesInv'
  <2> DEFINE x == Answered(r)
  <2>0. Reply(r, x) /\ UNCHANGED <<page, server>>
    BY <1>7 DEF ServeNotices
  <2>1. DOMAIN x = DOMAIN r /\ \A k \in DOMAIN r : k # "stage" => x[k] = r[k]
    BY <1>0, AnswerKeeps DEF SummaryInv
  <2>2. {"op", "stage"} \subseteq DOMAIN r
    BY <1>0 DEF SummaryInv
  <2> HIDE DEF x
  <2>3. {"op", "stage"} \subseteq DOMAIN x /\ x["op"] = r["op"]
    BY <2>1, <2>2
  <2>4. Open' \subseteq Open \cup {x}
    BY <2>0, ReplyOpens
  <2> DEFINE C == Pending("summary")
             D == Pending("summary")'
  <2>5. /\ C \subseteq Open /\ D \subseteq Open' /\ OneAtMost(C)
        /\ \A y \in Open : y \in Open' => (y \in D <=> y \in C)
        /\ x \in D => r \in C
    BY <1>0, <2>3 DEF Pending, SummaryInv
  <2> HIDE DEF C, D
  <2>6. /\ r \in C => D = D \cap {x}
        /\ r \notin C => D = C
        /\ \A y, z \in D : y = z /\ Copies(y)' = 1
    BY <2>0, <2>5, ChainReply
  <2>7. D # {} => C # {}
    BY <2>6
  <2>8. SummaryInv'
    BY <1>0, <2>3, <2>4, <2>6 DEF SummaryInv, D, OneAtMost
  <2>9. ToastsInv'
    BY <1>0, <2>0, <2>7 DEF ToastsInv, C, D
  <2> QED BY <1>0, <1>2, <2>0, <2>8, <2>9 DEF NoticesInv
<1> QED BY <1>3, <1>4, <1>5, <1>6, <1>7 DEF NoticesNext

LEMMA NoticesAgree == NoticesInv => LatestNoticed /\ ToastsEnd
<1> SUFFICES ASSUME NoticesInv PROVE LatestNoticed /\ ToastsEnd
  OBVIOUS
<1> DEFINE items == page.items
<1>1. /\ Naming(items, server.last) /\ Descending(items) /\ Len(items) <= MaxPreviewItems
      /\ page.totalUnread = Len(items)
      /\ ToSet(page.toasts) \subseteq page.timers \cup {server.summary}
  BY DEF NoticesInv, ListInv, ToastsInv
<1>2. /\ Len(items) \in Nat /\ DOMAIN items = 1..Len(items)
      /\ \A i \in 1..Len(items) : items[i].at \in Nat /\ i \in Nat
      /\ \A i, j \in 1..Len(items) : items[i].conv = items[j].conv => i = j
      /\ \A i \in 1..Len(items) : items[i].at = server.last[items[i].conv]
      /\ \A c \in DOMAIN server.last :
           \/ \E i \in 1..Len(items) : items[i].conv = c
           \/ Len(items) >= MaxPreviewItems /\ \A i \in 1..Len(items) : items[i].at >= server.last[c]
      /\ \A i, j \in 1..Len(items) : i < j => items[i].at >= items[j].at
  BY <1>1, ItemsTyped DEF Naming, Descending
<1> HIDE DEF items
<1>3. ASSUME NEW i \in DOMAIN items, NEW j \in 1..i PROVE items[j].at >= items[i].at
  <2>1. j \in 1..Len(items) /\ (j = i \/ j < i)
    BY <1>2
  <2> QED BY <1>2, <2>1
<1>4. ASSUME NEW c \in DOMAIN server.last, c \notin {i.conv : i \in ToSet(items)}
      PROVE  Len(items) = MaxPreviewItems /\ \A i \in DOMAIN items : items[i].at >= server.last[c]
  <2>1. ~ \E i \in 1..Len(items) : items[i].conv = c
    BY <1>2, <1>4 DEF ToSet
  <2>2. Len(items) >= MaxPreviewItems /\ \A i \in 1..Len(items) : items[i].at >= server.last[c]
    BY <1>2, <2>1
  <2>3. Len(items) \in Nat /\ Len(items) <= MaxPreviewItems
    BY <1>1, <1>2
  <2>4. Len(items) = MaxPreviewItems
    BY <2>2, <2>3, NoticesAssumption
  <2> QED BY <1>2, <2>2, <2>4
<1>5. LatestNoticed
  BY <1>1, <1>2, <1>3, <1>4 DEF LatestNoticed, items
<1> QED BY <1>1, <1>5 DEF ToastsEnd

-----------------------------------------------------------------------------
(***************************************************************************)
(* The roster.  A member is in a team of the backend, or among those that a*)
(* change of the teams has left in none, and who is in a team is in its    *)
(* group of the answer.                                                    *)
(***************************************************************************)
LEMMA RosterStep ==
  ASSUME [Next]_tab, route' = "roster"
  PROVE  \/ UNCHANGED tab
         \/ route = "none" /\ TeamRosterMounted(FirstRows, FirstTeams)
         \/ route = "roster" /\ TeamRosterNext
<1>1. CASE route = "none" /\ OpenPage
  BY <1>1 DEF OpenPage, ChatMounted, ComposerMounted, StoreMounted, SidebarMounted,
     SessionsMounted, SocketMounted, MembersMounted, TeamRosterMounted,
     NoticesMounted, NodesMounted, NamespacesMounted, SystemMounted,
     SettingsMounted, LedgerMounted, ApprovalsMounted, SignInMounted, Mounting
<1>2. CASE route = "roster" /\ Next
  BY <1>2 DEF Next
<1> QED BY <1>1, <1>2, PageStep

RosterCells == {"members", "teams", "creating", "shells", "stray", "calls"}
TeamRow == [team : Teams, members : Seq(Ids)]

\* Each member is in a team, or a change of the teams has left it in none.
RosterInv ==
  /\ DOMAIN server = RosterCells
  /\ server.members \in Seq(RosterRow) /\ server.teams \in Seq(TeamRow)
  /\ \A c \in server.creating : c.id \in Ids /\ c.role \in RosterRoles
                                /\ c.target \in Teams
  /\ \A m \in RowIds(server.members) : m \in server.stray \/ Placed(m, server.teams)

\* Rows and their ids.
LEMMA RowsHaveIds ==
  ASSUME NEW s \in Seq(RosterRow)
  PROVE  /\ Len(s) \in Nat /\ DOMAIN s = 1..Len(s) /\ \A i \in 1..Len(s) : s[i] \in RosterRow
         /\ RowIds(s) = {s[i].id : i \in 1..Len(s)}
         /\ RowIds(s) \subseteq Ids
<1>1. Len(s) \in Nat /\ DOMAIN s = 1..Len(s) /\ \A i \in 1..Len(s) : s[i] \in RosterRow
  OBVIOUS
<1>2. \A x \in RosterRow : x.id \in Ids
  BY DEF RosterRow
<1>3. RowIds(s) = {s[i].id : i \in 1..Len(s)}
  BY <1>1 DEF RowIds, ToSet
<1> QED BY <1>1, <1>2, <1>3

\* Rows that are changed in place keep their ids.
LEMMA RowsChanged ==
  ASSUME NEW s \in Seq(RosterRow), NEW q, DOMAIN q = DOMAIN s, q = [i \in DOMAIN s |-> q[i]],
         \A i \in DOMAIN s : q[i] \in RosterRow /\ q[i].id = s[i].id
  PROVE  q \in Seq(RosterRow) /\ Len(q) = Len(s) /\ RowIds(q) = RowIds(s)
<1>1. q \in [1..Len(s) -> RosterRow] /\ Len(s) \in Nat
  BY RowsHaveIds
<1>2. q \in Seq(RosterRow) /\ Len(q) = Len(s)
  BY <1>1
<1>3. \A i \in 1..Len(s) : q[i].id = s[i].id
  BY RowsHaveIds
<1>4. RowIds(q) = {q[i].id : i \in 1..Len(s)} /\ RowIds(s) = {s[i].id : i \in 1..Len(s)}
  BY <1>2, RowsHaveIds
<1>5. RowIds(q) = RowIds(s)
  <2>1. \A x : (\E i \in 1..Len(s) : x = q[i].id) <=> (\E i \in 1..Len(s) : x = s[i].id)
    BY <1>3
  <2> QED BY <1>4, <2>1
<1> QED BY <1>2, <1>5

LEMMA TeamsTyped ==
  ASSUME NEW teams \in Seq(TeamRow)
  PROVE  /\ Len(teams) \in Nat /\ DOMAIN teams = 1..Len(teams)
         /\ \A i \in 1..Len(teams) : teams[i] \in TeamRow
         /\ \A m : Placed(m, teams) <=> \E i \in 1..Len(teams) : m \in ToSet(teams[i].members)
BY DEF Placed, ToSet

\* Teams that are changed in place.
LEMMA TeamsChanged ==
  ASSUME NEW teams \in Seq(TeamRow), NEW q, q = [i \in DOMAIN teams |-> q[i]],
         \A i \in DOMAIN teams : q[i] \in TeamRow
  PROVE  /\ q \in Seq(TeamRow) /\ Len(q) = Len(teams)
<1>1. q \in [1..Len(teams) -> TeamRow] /\ Len(teams) \in Nat
  BY TeamsTyped
<1> QED BY <1>1

LEMMA MembersOf ==
  ASSUME NEW x \in TeamRow, NEW S \in Seq(Ids)
  PROVE  [x EXCEPT !.members = S] \in TeamRow /\ [x EXCEPT !.members = S].members = S
         /\ x.members \in Seq(Ids)
BY DEF TeamRow

\* A list of members with one more, or without one.
LEMMA MemberListed ==
  ASSUME NEW ids \in Seq(Ids), NEW m \in Ids
  PROVE  /\ Append(ids, m) \in Seq(Ids)
         /\ ToSet(ids) \subseteq ToSet(Append(ids, m)) /\ m \in ToSet(Append(ids, m))
<1> DEFINE q == Append(ids, m)
<1>1. q \in Seq(Ids) /\ Len(q) = Len(ids) + 1 /\ Len(ids) \in Nat
  OBVIOUS
<1>2. \A k \in 1..Len(ids) : q[k] = ids[k]
  OBVIOUS
<1>3. q[Len(q)] = m
  OBVIOUS
<1>4. DOMAIN q = 1..Len(q) /\ DOMAIN ids = 1..Len(ids)
  OBVIOUS
<1> HIDE DEF q
<1>5. ASSUME NEW x \in ToSet(ids) PROVE x \in ToSet(q)
  <2>1. PICK k \in 1..Len(ids) : x = ids[k]
    BY <1>4 DEF ToSet
  <2>2. k \in DOMAIN q /\ q[k] = x
    BY <1>1, <1>2, <1>4, <2>1
  <2> QED BY <2>2 DEF ToSet
<1>6. m \in ToSet(q)
  <2>1. Len(q) \in DOMAIN q
    BY <1>1, <1>4
  <2> QED BY <1>3, <2>1 DEF ToSet
<1> QED BY <1>1, <1>5, <1>6 DEF q

LEMMA MemberUnlisted ==
  ASSUME NEW ids \in Seq(Ids), NEW m
  PROVE  Others(ids, m) \in Seq(Ids) /\ ToSet(ids) \ {m} \subseteq ToSet(Others(ids, m))
<1> DEFINE P == {k \in DOMAIN ids : ids[k] # m}
           q == Selected(ids, P)
<1>1. Others(ids, m) = q
  BY DEF Others
<1>2. DOMAIN ids = 1..Len(ids)
  OBVIOUS
<1>3. ASSUME NEW x \in ToSet(ids) \ {m} PROVE x \in ToSet(q)
  <2>1. PICK k \in DOMAIN ids : ids[k] = x
    BY <1>3 DEF ToSet
  <2>2. k \in P \cap (1..Len(ids))
    BY <1>2, <1>3, <2>1
  <2> HIDE DEF P
  <2>3. \E i \in DOMAIN q : q[i] = ids[k]
    BY <2>2, SelectedHasAll
  <2> QED BY <2>1, <2>3 DEF ToSet
<1>4. q \in Seq(Ids)
  <2> HIDE DEF P
  <2> QED BY SelectedIsOf
<1> QED BY <1>1, <1>3, <1>4

\* A member that is added is in a team if there is one, and nobody leaves theirs.
LEMMA MemberJoins ==
  ASSUME NEW teams \in Seq(TeamRow), NEW t, NEW m \in Ids
  PROVE  LET q == AddMemberToTeam(teams, t, m)
         IN  /\ q \in Seq(TeamRow)
             /\ \A x : Placed(x, teams) => Placed(x, q)
             /\ teams # <<>> => Placed(m, q)
<1> DEFINE named == {i \in DOMAIN teams : teams[i].team = t}
           to == IF named # {} THEN Min(named) ELSE 1
           there == named # {} /\ m \in ToSet(teams[to].members)
           q == AddMemberToTeam(teams, t, m)
<1>1. /\ Len(teams) \in Nat /\ DOMAIN teams = 1..Len(teams)
      /\ \A i \in 1..Len(teams) : teams[i] \in TeamRow
  BY TeamsTyped
<1>2. teams # <<>> => to \in 1..Len(teams)
  <2>1. CASE named # {}
    <3>1. named \in SUBSET Nat
      BY <1>1
    <3>2. Min(named) \in named
      BY <2>1, <3>1, LeastExists
    <3> QED BY <1>1, <2>1, <3>2
  <2>2. CASE named = {}
    <3>1. teams # <<>> => Len(teams) # 0
      OBVIOUS
    <3> QED BY <1>1, <2>2, <3>1
  <2> QED BY <2>1, <2>2
<1>3. q = [i \in DOMAIN teams |-> IF i # to \/ there THEN teams[i]
                                    ELSE [teams[i] EXCEPT !.members = Append(@, m)]]
  BY DEF AddMemberToTeam
<1>a. there => m \in ToSet(teams[to].members)
  OBVIOUS
<1> HIDE DEF to, there, q
<1>4. ASSUME NEW i \in DOMAIN teams
      PROVE  /\ q[i] \in TeamRow /\ ToSet(teams[i].members) \subseteq ToSet(q[i].members)
             /\ (i = to => m \in ToSet(q[i].members))
  <2>1. teams[i] \in TeamRow
    BY <1>1
  <2>2. PICK S : S = Append(teams[i].members, m)
    OBVIOUS
  <2>a. teams[i].members \in Seq(Ids)
    BY <2>1 DEF TeamRow
  <2>3. /\ S \in Seq(Ids) /\ m \in ToSet(S)
        /\ ToSet(teams[i].members) \subseteq ToSet(S)
    BY <2>2, <2>a, MemberListed
  <2>4. q[i] = IF i # to \/ there THEN teams[i] ELSE [teams[i] EXCEPT !.members = S]
    BY <1>3, <2>2
  <2>5. /\ [teams[i] EXCEPT !.members = S] \in TeamRow
        /\ [teams[i] EXCEPT !.members = S].members = S
    BY <2>1, <2>3, MembersOf
  <2>6. CASE i # to \/ there
    BY <1>a, <2>1, <2>4, <2>6
  <2>7. CASE i = to /\ ~there
    BY <2>3, <2>4, <2>5, <2>7
  <2> QED BY <2>6, <2>7
<1>5. q \in Seq(TeamRow) /\ Len(q) = Len(teams)
  BY <1>3, <1>4, TeamsChanged
<1>6. \A x : Placed(x, q) <=> \E i \in 1..Len(q) : x \in ToSet(q[i].members)
  BY <1>5, TeamsTyped
<1>7. \A x : Placed(x, teams) <=> \E i \in 1..Len(teams) : x \in ToSet(teams[i].members)
  BY TeamsTyped
<1>8. \A x : Placed(x, teams) => Placed(x, q)
  BY <1>1, <1>4, <1>5, <1>6, <1>7
<1>9. teams # <<>> => Placed(m, q)
  BY <1>1, <1>2, <1>4, <1>5, <1>6
<1> QED BY <1>5, <1>8, <1>9 DEF q

LEMMA MemberStripped ==
  ASSUME NEW teams \in Seq(TeamRow), NEW m
  PROVE  /\ Stripped(teams, m) \in Seq(TeamRow)
         /\ \A x : x # m /\ Placed(x, teams) => Placed(x, Stripped(teams, m))
<1> DEFINE q == Stripped(teams, m)
<1>1. /\ Len(teams) \in Nat /\ DOMAIN teams = 1..Len(teams)
      /\ \A i \in 1..Len(teams) : teams[i] \in TeamRow
  BY TeamsTyped
<1>2. q = [i \in DOMAIN teams |-> [teams[i] EXCEPT !.members = Others(@, m)]]
  BY DEF Stripped
<1> HIDE DEF q
<1>3. ASSUME NEW i \in DOMAIN teams
      PROVE  q[i] \in TeamRow /\ ToSet(teams[i].members) \ {m} \subseteq ToSet(q[i].members)
  <2>1. teams[i] \in TeamRow
    BY <1>1
  <2>2. PICK S : S = Others(teams[i].members, m)
    OBVIOUS
  <2>a. teams[i].members \in Seq(Ids)
    BY <2>1 DEF TeamRow
  <2>3. S \in Seq(Ids) /\ ToSet(teams[i].members) \ {m} \subseteq ToSet(S)
    BY <2>2, <2>a, MemberUnlisted
  <2>4. q[i] = [teams[i] EXCEPT !.members = S]
    BY <1>2, <2>2
  <2>5. /\ [teams[i] EXCEPT !.members = S] \in TeamRow
        /\ [teams[i] EXCEPT !.members = S].members = S
    BY <2>1, <2>3, MembersOf
  <2> QED BY <2>3, <2>4, <2>5
<1>4. q \in Seq(TeamRow) /\ Len(q) = Len(teams)
  BY <1>2, <1>3, TeamsChanged
<1>5. \A x : Placed(x, q) <=> \E i \in 1..Len(q) : x \in ToSet(q[i].members)
  BY <1>4, TeamsTyped
<1>6. \A x : Placed(x, teams) <=> \E i \in 1..Len(teams) : x \in ToSet(teams[i].members)
  BY TeamsTyped
<1>7. \A x : x # m /\ Placed(x, teams) => Placed(x, q)
  BY <1>1, <1>3, <1>4, <1>5, <1>6
<1> QED BY <1>4, <1>7 DEF q

LEMMA RosterStarts ==
  ASSUME TeamRosterMounted(FirstRows, FirstTeams)
  PROVE  RosterInv'
<1>1. /\ DOMAIN server' = RosterCells
      /\ server'.members = FirstRows /\ server'.teams = FirstTeams /\ server'.creating = {}
  BY DEF TeamRosterMounted, Mounting, RosterCells
<1>2. FirstTeams \in Seq(TeamRow)
  BY FirstTeamsAssumption DEF TeamRow
<1>3. \A m \in RowIds(FirstRows) : Placed(m, FirstTeams)
  BY FirstTeamsAssumption DEF Unplaced
<1> QED BY <1>1, <1>2, <1>3, FirstTeamsAssumption DEF RosterInv

LEMMA RosterKept ==
  ASSUME RosterInv, TeamRosterNext
  PROVE  RosterInv'
<1>0. /\ DOMAIN server = RosterCells
      /\ server.members \in Seq(RosterRow) /\ server.teams \in Seq(TeamRow)
      /\ \A c \in server.creating : c.id \in Ids /\ c.role \in RosterRoles
                                    /\ c.target \in Teams
      /\ \A m \in RowIds(server.members) : m \in server.stray \/ Placed(m, server.teams)
  BY DEF RosterInv
<1> DEFINE Rowed(s) == DOMAIN s = RosterCells
\* The rows and the teams stay.
<1>1. ASSUME DOMAIN server' = RosterCells, server'.members = server.members,
             server'.teams = server.teams, server'.stray = server.stray,
             \A c \in server'.creating : c.id \in Ids /\ c.role \in RosterRoles
                                         /\ c.target \in Teams
      PROVE  RosterInv'
  BY <1>0, <1>1 DEF RosterInv
<1>2. ASSUME NEW m \in Ids, NEW t \in Teams \cup {Nil}, NEW role \in RosterRoles, PostMember(m, t, role)
      PROVE  RosterInv'
  <2> DEFINE c == [id |-> m, target |-> IF t = Nil THEN DefaultTeam ELSE t, role |-> role]
  <2>1. server' = [server EXCEPT !.calls = @ + 1, !.creating = @ \cup {c}]
    BY <1>2 DEF PostMember
  <2>2. c.id \in Ids /\ c.role \in RosterRoles /\ c.target \in Teams
    BY DefaultTeamAssumption
  <2> HIDE DEF c
  <2>3. /\ DOMAIN server' = RosterCells /\ server'.members = server.members
        /\ server'.teams = server.teams /\ server'.stray = server.stray
        /\ server'.creating = server.creating \cup {c}
    BY <1>0, <2>1 DEF RosterCells
  <2> QED BY <1>0, <1>1, <2>2, <2>3
<1>3. ASSUME NEW c \in server.creating, FinishPostMember(c) PROVE RosterInv'
  <2> DEFINE teams == AddMemberToTeam(server.teams, c.target, c.id)
             row == [id |-> c.id, role |-> c.role, terminal |-> "offline",
                     team |-> IF c.target = DefaultTeam THEN Nil ELSE c.target]
  <2>1. CASE Exists(c.id)
    <3>1. server' = [server EXCEPT !.creating = @ \ {c}]
      BY <1>3, <2>1 DEF FinishPostMember, MemberAdded
    <3>2. /\ DOMAIN server' = RosterCells /\ server'.members = server.members
          /\ server'.teams = server.teams /\ server'.stray = server.stray
          /\ server'.creating = server.creating \ {c}
      BY <1>0, <3>1 DEF RosterCells
    <3> QED BY <1>0, <1>1, <3>2
  <2>2. CASE ~Exists(c.id)
    <3>1. server' = [server EXCEPT !.creating = @ \ {c}, !.members = Append(@, row), !.teams = teams,
                        !.stray = IF server.teams = <<>> THEN @ \cup {c.id} ELSE @]
      BY <1>3, <2>2 DEF FinishPostMember, MemberAdded
    <3>2. row \in RosterRow /\ row.id = c.id /\ c.id \in Ids
      BY <1>0 DEF RosterRow
    <3>3. /\ teams \in Seq(TeamRow)
          /\ \A x : Placed(x, server.teams) => Placed(x, teams)
          /\ server.teams # <<>> => Placed(c.id, teams)
      BY <1>0, MemberJoins
    <3> HIDE DEF teams, row
    <3>4. /\ DOMAIN server' = RosterCells /\ server'.members = Append(server.members, row)
          /\ server'.teams = teams
          /\ server'.stray = (IF server.teams = <<>> THEN server.stray \cup {c.id} ELSE server.stray)
          /\ server'.creating = server.creating \ {c}
      BY <1>0, <3>1 DEF RosterCells
    <3> DEFINE q == Append(server.members, row)
    <3>5. /\ q \in Seq(RosterRow)
          /\ \A i \in DOMAIN q : q[i] = row \/ \E j \in DOMAIN server.members : q[i] = server.members[j]
      BY <1>0, <3>2
    <3> HIDE DEF q
    <3>6. \A x \in RowIds(q) : x = c.id \/ x \in RowIds(server.members)
      BY <3>2, <3>5 DEF RowIds, ToSet
    <3>7. server'.members = q
      BY <3>4 DEF q
    <3>8. \A x \in RowIds(q) : x \in server'.stray \/ Placed(x, teams)
      BY <1>0, <3>3, <3>4, <3>6
    <3> QED BY <1>0, <3>3, <3>4, <3>5, <3>7, <3>8 DEF RosterInv
  <2> QED BY <2>1, <2>2
<1>4. ASSUME NEW m \in Ids, NEW role \in RosterRoles, PutRole(m, role) PROVE RosterInv'
  <2> DEFINE s == server.members
             q == [i \in DOMAIN s |-> IF s[i].id = m THEN [s[i] EXCEPT !.role = role] ELSE s[i]]
  <2>1. /\ DOMAIN server' = RosterCells /\ server'.members = q
        /\ server'.teams = server.teams /\ server'.stray = server.stray
        /\ server'.creating = server.creating
    BY <1>0, <1>4 DEF PutRole, RosterCells
  <2>2. \A x \in RosterRow : [x EXCEPT !.role = role] \in RosterRow /\ [x EXCEPT !.role = role].id = x.id
    BY DEF RosterRow
  <2>3. \A i \in DOMAIN s : s[i] \in RosterRow
    BY <1>0, RowsHaveIds
  <2>4. \A i \in DOMAIN s : q[i] = IF s[i].id = m THEN [s[i] EXCEPT !.role = role] ELSE s[i]
    OBVIOUS
  <2>5. DOMAIN q = DOMAIN s /\ q = [i \in DOMAIN s |-> q[i]]
    OBVIOUS
  <2> HIDE DEF q
  <2>6. \A i \in DOMAIN s : q[i] \in RosterRow /\ q[i].id = s[i].id
    BY <2>2, <2>3, <2>4
  <2>7. q \in Seq(RosterRow) /\ RowIds(q) = RowIds(s)
    BY <1>0, <2>5, <2>6, RowsChanged
  <2> QED BY <1>0, <2>1, <2>7 DEF RosterInv
<1>5. ASSUME NEW m \in Ids, DeleteMember(m) PROVE RosterInv'
  <2> DEFINE s == server.members
             P == {i \in DOMAIN s : s[i].id # m}
             q == Selected(s, P)
             teams == Stripped(server.teams, m)
  <2>1. /\ DOMAIN server' = RosterCells /\ server'.members = q
        /\ server'.teams = teams /\ server'.stray = server.stray \ {m}
        /\ server'.creating = server.creating
    BY <1>0, <1>5 DEF DeleteMember, RosterCells
  <2>2. \A k \in P : k \in DOMAIN s /\ s[k].id # m
    OBVIOUS
  <2>3. /\ teams \in Seq(TeamRow)
        /\ \A x : x # m /\ Placed(x, server.teams) => Placed(x, teams)
    BY <1>0, MemberStripped
  <2> HIDE DEF P, teams
  <2>4. s \in Seq(RosterRow)
    BY <1>0
  <2>5. q \in Seq(RosterRow) /\ \A i \in DOMAIN q : \E k \in P \cap (1..Len(s)) : q[i] = s[k]
    <3> HIDE DEF s
    <3> QED BY <2>4, SelectedIsOf
  <2> HIDE DEF q
  <2>6. \A x \in RowIds(q) : x # m /\ x \in RowIds(s)
    BY <2>2, <2>5 DEF RowIds, ToSet
  <2>7. \A x \in RowIds(q) : x \in server'.stray \/ Placed(x, teams)
    BY <1>0, <2>1, <2>3, <2>6
  <2> QED BY <1>0, <2>1, <2>3, <2>5, <2>7 DEF RosterInv
<1>6. ASSUME NEW teams \in Seq(TeamRow), TeamsBecome(teams) PROVE RosterInv'
  <2>1. /\ DOMAIN server' = RosterCells /\ server'.members = server.members
        /\ server'.teams = teams /\ server'.stray = Unplaced(server.members, teams)
        /\ server'.creating = server.creating
    BY <1>0, <1>6 DEF TeamsBecome, RosterCells
  <2>2. \A x \in RowIds(server.members) : x \in server'.stray \/ Placed(x, teams)
    BY <2>1 DEF Unplaced
  <2> QED BY <1>0, <2>1, <2>2 DEF RosterInv
<1>7. ASSUME NEW t \in Teams, NEW S \in SeqOf(Ids, MaxListed), HandleTeams(t, S) PROVE RosterInv'
  <2>a. S \in Seq(Ids)
    <3>1. PICK n \in 0..MaxListed : S \in [1..n -> Ids]
      BY DEF SeqOf
    <3>2. n \in Nat
      BY RosterAssumption
    <3> QED BY <3>1, <3>2
  <2>1. [team |-> t, members |-> S] \in TeamRow
    BY <2>a DEF TeamRow
  <2>2. CASE TeamsBecome(Append(server.teams, [team |-> t, members |-> S]))
    <3>1. Append(server.teams, [team |-> t, members |-> S]) \in Seq(TeamRow)
      BY <1>0, <2>1
    <3> QED BY <1>6, <2>2, <3>1
  <2>3. ASSUME NEW i \in DOMAIN server.teams, TeamsBecome([server.teams EXCEPT ![i].members = S])
        PROVE  RosterInv'
    <3> DEFINE q == [server.teams EXCEPT ![i].members = S]
               x == [server.teams[i] EXCEPT !.members = S]
    <3>1. x \in TeamRow
      BY <1>0, <2>a, TeamsTyped, MembersOf
    <3>2. q = [server.teams EXCEPT ![i] = x]
      OBVIOUS
    <3> HIDE DEF x
    <3>a. /\ server.teams \in [1..Len(server.teams) -> TeamRow] /\ Len(server.teams) \in Nat
          /\ DOMAIN server.teams = 1..Len(server.teams)
      BY <1>0
    <3> HIDE DEF q
    <3>b. q \in [1..Len(server.teams) -> TeamRow]
      BY <3>1, <3>2, <3>a
    <3>3. q \in Seq(TeamRow)
      BY <3>a, <3>b
    <3> HIDE DEF q
    <3>4. TeamsBecome(q)
      BY <2>3 DEF q
    <3> QED BY <1>6, <3>3, <3>4
  <2>4. ASSUME NEW i \in DOMAIN server.teams, TeamsBecome(RemoveAt(server.teams, i)) PROVE RosterInv'
    <3>1. RemoveAt(server.teams, i) \in Seq(TeamRow)
      BY <1>0 DEF RemoveAt
    <3> QED BY <1>6, <2>4, <3>1
  <2> QED BY <1>7, <2>2, <2>3, <2>4 DEF HandleTeams
<1>8. CASE RosterRestarts
  <2> DEFINE ids == RowIds(server.members)
             list == [i \in DOMAIN server.members |-> server.members[i].id]
             made == [team |-> DefaultTeam, members |-> list]
  <2>1. list \in Seq(Ids) /\ ToSet(list) = ids
    <3>1. /\ Len(server.members) \in Nat /\ DOMAIN server.members = 1..Len(server.members)
          /\ \A i \in 1..Len(server.members) : server.members[i].id \in Ids
          /\ ids = {server.members[i].id : i \in 1..Len(server.members)}
      BY <1>0, RowsHaveIds DEF RosterRow
    <3>2. list \in [1..Len(server.members) -> Ids]
      BY <3>1
    <3>3. ToSet(list) = {list[i] : i \in 1..Len(server.members)}
      BY <3>1 DEF ToSet
    <3>4. \A i \in 1..Len(server.members) : list[i] = server.members[i].id
      BY <3>1
    <3>5. list \in Seq(Ids)
      BY <3>1, <3>2
    <3>6. \A x : (\E i \in 1..Len(server.members) : x = list[i])
                 <=> (\E i \in 1..Len(server.members) : x = server.members[i].id)
      BY <3>4
    <3> HIDE DEF list, ids
    <3> QED BY <3>1, <3>3, <3>5, <3>6
  <2>2. made \in TeamRow /\ ToSet(made.members) = ids
    BY <2>1, DefaultTeamAssumption DEF TeamRow
  <2>3. /\ DOMAIN server' = RosterCells /\ server'.members = server.members
        /\ server'.teams = EnsureDefaultTeam /\ server'.creating = {}
        /\ server'.stray = IF server.teams = <<>> THEN {} ELSE server.stray
    BY <1>0, <1>8 DEF RosterRestarts, RosterCells
  <2>4. EnsureDefaultTeam = IF server.teams = <<>> /\ server.members # <<>> THEN <<made>> ELSE server.teams
    BY DEF EnsureDefaultTeam
  <2> HIDE DEF made
  <2>5. <<made>> \in Seq(TeamRow) /\ \A x \in ids : Placed(x, <<made>>)
    <3>1. <<made>> \in Seq(TeamRow) /\ ToSet(<<made>>) = {made}
      BY <2>2 DEF ToSet
    <3> QED BY <2>2, <3>1 DEF Placed
  <2>6. server.members = <<>> => ids = {}
    <3>1. ToSet(<<>>) = {}
      BY DEF ToSet
    <3> QED BY <3>1 DEF RowIds
  <2>7. EnsureDefaultTeam \in Seq(TeamRow)
    BY <1>0, <2>4, <2>5
  <2>8. \A x \in ids : x \in server'.stray \/ Placed(x, EnsureDefaultTeam)
    BY <1>0, <2>3, <2>4, <2>5, <2>6
  <2> QED BY <1>0, <2>3, <2>7, <2>8 DEF RosterInv
<1>9. ASSUME NEW m \in Owners, NEW live \in BOOLEAN, ShellOf(m, live) PROVE RosterInv'
  <2>1. server' = [server EXCEPT !.calls = @ + 1, !.shells = With(@, m, live)]
    BY <1>9 DEF ShellOf
  <2>2. /\ DOMAIN server' = RosterCells /\ server'.members = server.members
        /\ server'.teams = server.teams /\ server'.stray = server.stray
        /\ server'.creating = server.creating
    BY <1>0, <2>1 DEF RosterCells
  <2> QED BY <1>0, <1>1, <2>2
<1>10. ASSUME UNCHANGED server PROVE RosterInv'
  BY <1>0, <1>1, <1>10
<1>11. CASE RosterChanges
  BY <1>2, <1>4, <1>5, <1>7, <1>8, <1>9, <1>11 DEF RosterChanges
<1>12. ASSUME \/ RefreshRoster \/ ClickCard \/ \E t \in Teams : SelectTab(t)
              \/ \E r \in Open : ServeRoster(r) \/ \E ok \in BOOLEAN : TeamRosterRead(r, ok)
       PROVE  UNCHANGED server
  BY <1>12 DEF RefreshRoster, ClickCard, SelectTab, ServeRoster, TeamRosterRead, Mounting
<1> QED BY <1>3, <1>10, <1>11, <1>12 DEF TeamRosterNext

\* Who is in a team of the backend is shown in the group of it.
LEMMA PlacedIsShown ==
  ASSUME server.members \in Seq(RosterRow), server.teams \in Seq(TeamRow),
         NEW m \in RowIds(server.members), Placed(m, server.teams)
  PROVE  \E i \in DOMAIN Groups(Payload) : m \in RowIds(Groups(Payload)[i].rows)
<1> DEFINE s == server.members
           rows == WithTerminalStatus(s)
           teams == server.teams
           out == ExpandTeams(rows)
<1>1. PICK i \in 1..Len(teams) : m \in ToSet(teams[i].members)
  BY TeamsTyped
<1>2. DOMAIN teams = 1..Len(teams)
  BY TeamsTyped
<1>3. rows \in Seq(RosterRow) /\ Len(rows) = Len(s) /\ RowIds(rows) = RowIds(s)
  <2>1. DOMAIN rows = DOMAIN s /\ rows = [k \in DOMAIN s |-> rows[k]]
    BY DEF WithTerminalStatus
  <2>2. \A x \in RosterRow : \A v \in {"attached", "offline"} :
          [x EXCEPT !.terminal = v] \in RosterRow /\ [x EXCEPT !.terminal = v].id = x.id
    BY DEF RosterRow
  <2>3. \A k \in DOMAIN s : s[k] \in RosterRow
    BY RowsHaveIds
  <2>4. \A k \in DOMAIN s :
          \/ rows[k] = s[k]
          \/ \E v \in {"attached", "offline"} : rows[k] = [s[k] EXCEPT !.terminal = v]
    BY DEF WithTerminalStatus
  <2> HIDE DEF rows
  <2>5. ASSUME NEW k \in DOMAIN s PROVE rows[k] \in RosterRow /\ rows[k].id = s[k].id
    <3>1. CASE rows[k] = s[k]
      BY <2>3, <3>1
    <3>2. ASSUME NEW v \in {"attached", "offline"}, rows[k] = [s[k] EXCEPT !.terminal = v]
          PROVE  rows[k] \in RosterRow /\ rows[k].id = s[k].id
      <4>1. s[k] \in RosterRow
        BY <2>3
      <4> HIDE DEF s
      <4> QED BY <2>2, <3>2, <4>1
    <3> QED BY <2>4, <3>1, <3>2
  <2> QED BY <2>1, <2>5, RowsChanged
<1> HIDE DEF rows
<1> DEFINE ids == teams[i].members
           P == {n \in DOMAIN ids : ids[n] \in RowIds(rows)}
           known == Selected(ids, P)
           of == Expanded(rows, ids)
<1>4. ids \in Seq(Ids) /\ DOMAIN ids = 1..Len(ids)
  <2>1. ids \in Seq(Ids)
    BY <1>1, TeamsTyped DEF TeamRow
  <2> QED BY <2>1
<1>5. PICK k \in P \cap (1..Len(ids)) : ids[k] = m
  <2>1. PICK k \in DOMAIN ids : ids[k] = m
    BY <1>1 DEF ToSet
  <2> QED BY <1>3, <1>4, <2>1
<1>6. out = [n \in DOMAIN teams |->
               [team |-> teams[n].team, rows |-> Expanded(rows, teams[n].members)]]
  BY DEF ExpandTeams
<1>7. out[i].rows = of /\ DOMAIN out = DOMAIN teams
  BY <1>1, <1>2, <1>6
<1>a. of = [n \in DOMAIN known |-> RowOf(rows, known[n])]
  BY DEF Expanded
<1>b. \A n \in P : ids[n] \in RowIds(rows)
  OBVIOUS
<1> HIDE DEF ids, P, of, out
<1>c. /\ known \in Seq(Ids) /\ \A n \in DOMAIN known : known[n] \in RowIds(rows)
      /\ \E n \in DOMAIN known : known[n] = m
  <2>1. /\ known \in Seq(Ids)
        /\ \A n \in DOMAIN known : \E l \in P \cap (1..Len(ids)) : known[n] = ids[l]
    BY <1>4, SelectedIsOf
  <2>2. \E n \in DOMAIN known : known[n] = ids[k]
    BY <1>4, <1>5, SelectedHasAll
  <2> QED BY <1>5, <1>b, <2>1, <2>2
<1> HIDE DEF known
<1>d. ASSUME NEW x \in RowIds(rows) PROVE RowOf(rows, x) \in RosterRow /\ RowOf(rows, x).id = x
  <2>1. \E y \in ToSet(rows) : y.id = x
    BY DEF RowIds
  <2>2. \A y \in ToSet(rows) : y \in RosterRow
    BY <1>3, RowsHaveIds DEF ToSet
  <2> QED BY <2>1, <2>2 DEF RowOf
<1>8. of \in Seq(RosterRow)
  <2>1. DOMAIN known = 1..Len(known) /\ Len(known) \in Nat
    BY <1>c
  <2>2. of \in [1..Len(known) -> RosterRow]
    BY <1>a, <1>c, <1>d, <2>1
  <2> QED BY <2>1, <2>2
<1>10. PICK j \in DOMAIN of : of[j].id = m
  BY <1>a, <1>c, <1>d
<1>11. out # <<>>
  <2>1. i \in DOMAIN out /\ DOMAIN <<>> = {}
    BY <1>1, <1>2, <1>7
  <2> QED BY <2>1
<1>12. Payload.teams = out
  BY DEF Payload, out, rows
<1> DEFINE named(n) == [out[n] EXCEPT !.rows = [l \in DOMAIN @ |->
                          IF @[l].team = Nil THEN [@[l] EXCEPT !.team = out[n].team] ELSE @[l]]]
           shown == [l \in DOMAIN of |-> IF of[l].team = Nil THEN [of[l] EXCEPT !.team = out[i].team] ELSE of[l]]
<1>13. Groups(Payload) = [n \in DOMAIN out |-> named(n)]
  BY <1>11, <1>12 DEF Groups, IsTeamGroupList
<1>14. named(i).rows = shown
  <2>1. DOMAIN out[i] = {"team", "rows"}
    BY <1>1, <1>2, <1>6
  <2> QED BY <1>7, <2>1
<1>15. shown[j].id = m /\ j \in DOMAIN shown
  <2>1. of[j] \in RosterRow /\ of[j].id = m
    BY <1>8, <1>10
  <2>2. \A x \in RosterRow : \A v : [x EXCEPT !.team = v].id = x.id
    BY DEF RosterRow
  <2> QED BY <2>1, <2>2
<1> HIDE DEF named, shown
<1>16. m \in RowIds(shown)
  BY <1>15 DEF RowIds, ToSet
<1> QED BY <1>1, <1>2, <1>7, <1>13, <1>14, <1>16

LEMMA RosterPlaces == RosterInv => MemberPlaced
BY PlacedIsShown DEF RosterInv, MemberPlaced

-----------------------------------------------------------------------------
(***************************************************************************)
(* The session of the tab and the filter of the audit log.                 *)
(***************************************************************************)
\* The session that is shown is the one that is stored.
SessionCells(p) ==
  /\ {"status", "session", "stored", "account", "signing", "path", "refused", "cluster"} \subseteq DOMAIN p
  /\ p.stored \in Identity \cup {Nil} /\ p.account \in Accounts
  /\ p.status \in {"loading", "out", "in"}
  /\ p.status = "in" => p.session # Nil /\ p.stored = p.session
  /\ p.status # "in" => p.session = Nil
  /\ p.status = "out" => p.stored = Nil

SessionAsked(r) ==
  r.op \in {"me", "login"} =>
    /\ "account" \in DOMAIN r /\ r.account \in Accounts
    /\ r.stage = "ok" => "role" \in DOMAIN r /\ r.role \in SessionRoles

SessionInv ==
  /\ SessionCells(page)
  /\ server \in [Accounts -> SessionRoles \cup {Nil}]
  /\ \A r \in Open : SessionAsked(r)
  /\ OneAtMost(Pending("login"))
  /\ Pending("login") # {} => page.signing

LEMMA SessionStarts ==
  ASSUME NEW a \in Accounts, SignInMounted(FirstRoles, a)
  PROVE  SessionInv'
<1>1. Open' = {}
  BY MountEmpty DEF SignInMounted
<1>2. SessionCells(page')
  BY DEF SignInMounted, Mounting, Restoring, SessionCells
<1>3. server' = FirstRoles
  BY DEF SignInMounted, Mounting
<1> QED BY <1>1, <1>2, <1>3, FirstRolesAssumption DEF SessionInv, Pending, OneAtMost

LEMMA SessionKept ==
  ASSUME SignInInv, SessionInv, SignInNext
  PROVE  SessionInv'
<1>0. /\ SessionCells(page) /\ server \in [Accounts -> SessionRoles \cup {Nil}]
      /\ \A r \in Open : SessionAsked(r)
      /\ OneAtMost(Pending("login"))
      /\ \A r \in Open : r.op = "login" => page.signing
      /\ \A r \in Open : {"op", "stage"} \subseteq DOMAIN r
      /\ page.signing => page.status = "out"
      /\ OneAtMost(Pending("me"))
      /\ \A r \in Open : r.op = "me" => page.status = "loading" /\ \A x \in Open : x.op # "login"
  BY DEF SignInInv, SessionInv, Pending
\* Nothing is asked, and nobody is answered.
<1>1. ASSUME UNCHANGED wire, SessionCells(page'), server' \in [Accounts -> SessionRoles \cup {Nil}],
             page'.signing = page.signing
      PROVE  SessionInv'
  <2>1. Open' = Open /\ \A y : Copies(y)' = Copies(y)
    BY <1>1 DEF Open, Copies
  <2> QED BY <1>0, <1>1, <2>1 DEF SessionInv, Pending, OneAtMost
<1>2. CASE ReloadTab
  <2> DEFINE x == FetchMe(page.stored)
  <2>1. Open' = IF page.stored = Nil THEN {} ELSE {x}
    BY <1>2 DEF ReloadTab, Open, BagToSet, SetToBag, EmptyBag
  <2>2. x.op = "me" /\ x.stage = "sent" /\ DOMAIN x = {"op", "stage", "account"}
        /\ x.account = page.stored[1]
    BY DEF FetchMe
  <2>3. page.stored # Nil => page.stored[1] \in Accounts
    BY <1>0 DEF SessionCells, Identity
  <2>4. page.stored # Nil => SessionAsked(x)
    <3> HIDE DEF x
    <3> QED BY <2>2, <2>3 DEF SessionAsked
  <2>5. SessionCells(page') /\ server' = server
    BY <1>0, <1>2 DEF ReloadTab, Restoring, SessionCells
  <2> HIDE DEF x
  <2> QED BY <1>0, <2>1, <2>2, <2>4, <2>5 DEF SessionInv, Pending, OneAtMost
<1>3. ASSUME NEW a \in Accounts, TypeAccount(a) PROVE SessionInv'
  <2>1. UNCHANGED <<wire, server>> /\ SessionCells(page') /\ page'.signing = page.signing
    BY <1>0, <1>3 DEF TypeAccount, Becomes, SessionCells
  <2> QED BY <1>0, <1>1, <2>1
<1>4. ASSUME NEW p \in Paths, NavigateTo(p) \/ TypePath(p) PROVE SessionInv'
  <2>1. UNCHANGED <<wire, server>> /\ SessionCells(page') /\ page'.signing = page.signing
    BY <1>0, <1>4 DEF NavigateTo, TypePath, Becomes, SessionCells
  <2> QED BY <1>0, <1>1, <2>1
<1>5. CASE RedirectByRole
  <2>1. UNCHANGED <<wire, server>> /\ SessionCells(page') /\ page'.signing = page.signing
    BY <1>0, <1>5 DEF RedirectByRole, Becomes, SessionCells
  <2> QED BY <1>0, <1>1, <2>1
<1>6. ASSUME NEW a \in Accounts, RoleChanges(a) PROVE SessionInv'
  <2>1. UNCHANGED <<wire, page>> /\ server' \in [Accounts -> SessionRoles \cup {Nil}]
    BY <1>0, <1>6 DEF RoleChanges
  <2> QED BY <1>0, <1>1, <2>1
<1>7. CASE SubmitLogin
  <2> DEFINE x == Login(page.account)
  <2>1. x.op = "login" /\ x.stage = "sent" /\ DOMAIN x = {"op", "stage", "account"}
        /\ x.account = page.account
    BY DEF Login
  <2>2. SessionAsked(x)
    <3> HIDE DEF x
    <3> QED BY <1>0, <2>1 DEF SessionAsked, SessionCells
  <2>3. SessionCells(page') /\ server' = server /\ page'.signing /\ Ask(x) /\ ~page.signing
    BY <1>0, <1>7 DEF SubmitLogin, SessionCells
  <2> HIDE DEF x
  <2>4. Open' = Open \cup {x}
    BY <2>3, AskOpens
  <2>5. OneAtMost(Pending("login"))'
    <3>1. Pending("login") = {} /\ x \notin Open
      BY <1>0, <2>1, <2>3 DEF Pending
    <3> QED BY <2>3, <2>4, <3>1, AskCopies DEF OneAtMost, Pending
  <2> QED BY <1>0, <2>2, <2>3, <2>4, <2>5 DEF SessionInv
<1>8. CASE RefreshCluster
  <2> DEFINE x == Query("cluster")
  <2>1. x.op = "cluster"
    BY DEF Query
  <2>2. Ask(x) /\ UNCHANGED <<page, server>>
    BY <1>8 DEF RefreshCluster
  <2> HIDE DEF x
  <2>3. Open' = Open \cup {x} /\ \A y : y # x => Copies(y)' = Copies(y)
    BY <2>2, AskOpens, AskCopies
  <2> QED BY <1>0, <2>1, <2>2, <2>3 DEF SessionInv, SessionAsked, OneAtMost, Pending
<1>9. CASE Logout
  <2>1. Open' = {}
    BY <1>9 DEF Logout, Open, BagToSet, EmptyBag, SetToBag
  <2>2. SessionCells(page') /\ server' = server
    BY <1>0, <1>9 DEF Logout, SessionCells
  <2> QED BY <1>0, <2>1, <2>2 DEF SessionInv, Pending, OneAtMost
<1>10. ASSUME NEW r \in Open, NEW ok \in BOOLEAN,
              MeAnswered(r, ok) \/ LoginAnswered(r, ok) \/ ClusterRead(r, ok)
       PROVE  SessionInv'
  <2>1. wire' = Settled(r) /\ server' = server
    BY <1>10 DEF MeAnswered, LoginAnswered, ClusterRead
  <2>2. Open' \subseteq Open /\ Open \subseteq Open' \cup {r}
        /\ (\A y : y # r => Copies(y)' = Copies(y))
        /\ (Copies(r) = 1 => r \notin Open')
    BY <2>1, SettleOpens, SettleCopies
  <2>3. OneAtMost(Pending("login"))'
    BY <1>0, <2>2 DEF OneAtMost, Pending
  <2>4. r.op = "login" => Pending("login")' = {}
    BY <1>0, <2>2 DEF OneAtMost, Pending
  <2>5. ok /\ r.op \in {"me", "login"} /\ r.stage = "ok" =>
          <<r.account, r.role>> \in Identity /\ <<r.account, r.role>> # Nil
    <3> SUFFICES ASSUME r.op \in {"me", "login"}, r.stage = "ok"
                 PROVE  <<r.account, r.role>> \in Identity /\ <<r.account, r.role>> # Nil
      OBVIOUS
    <3>1. r.account \in Accounts /\ r.role \in SessionRoles
      BY <1>0 DEF SessionAsked
    <3> QED BY <3>1, SignInAssumption DEF Identity
  <2>6. CASE MeAnswered(r, ok)
    <3>1. SessionCells(page')
      BY <1>0, <2>5, <2>6 DEF MeAnswered, SessionCells, Ends
    <3>2. Pending("login")' = {}
      BY <1>0, <2>2, <2>6 DEF MeAnswered, Pending
    <3> QED BY <1>0, <2>1, <2>2, <2>3, <3>1, <3>2 DEF SessionInv
  <2>7. CASE LoginAnswered(r, ok)
    <3>1. SessionCells(page')
      BY <1>0, <2>5, <2>7 DEF LoginAnswered, SessionCells, Ends
    <3>2. Pending("login")' = {}
      BY <2>4, <2>7 DEF LoginAnswered
    <3> QED BY <1>0, <2>1, <2>2, <2>3, <3>1, <3>2 DEF SessionInv
  <2>8. CASE ClusterRead(r, ok)
    <3>1. SessionCells(page') /\ page'.signing = page.signing
      BY <1>0, <2>8 DEF ClusterRead, SessionCells
    <3> QED BY <1>0, <2>1, <2>2, <2>3, <3>1 DEF SessionInv, Pending
  <2> QED BY <1>10, <2>6, <2>7, <2>8
<1>11. ASSUME NEW r \in Open, ServeSignIn(r) PROVE SessionInv'
  <2>0. UNCHANGED <<page, server>>
    BY <1>11 DEF ServeSignIn
  <2>1. PICK x : Reply(r, x) /\ {"op", "stage"} \subseteq DOMAIN x /\ x.op = r.op /\ SessionAsked(x)
    <3>1. CASE r.op = "cluster" /\ Reply(r, Answered(r))
      BY <1>0, <3>1, AnswerKeeps DEF SessionAsked
    <3>2. CASE r.op \in {"me", "login"} /\ server[r.account] # Nil
               /\ Reply(r, AnsweredWith(r, [role |-> server[r.account]]))
      <4> DEFINE f == [role |-> server[r.account]]
                 x == AnsweredWith(r, f)
      <4>1. DOMAIN f = {"role"} /\ f["role"] = server[r.account]
        OBVIOUS
      <4> HIDE DEF f
      <4>2. DOMAIN f \cap {"op", "stage"} = {}
        BY <4>1
      <4>3. {"op", "stage"} \subseteq DOMAIN x /\ x.op = r.op /\ x.stage = "ok"
        BY <1>0, <4>2, AnswerWithAsks
      <4>4. DOMAIN x = DOMAIN r \cup {"role"} /\ x["role"] = server[r.account]
            /\ (\A k \in DOMAIN r : k # "role" /\ k # "stage" => x[k] = r[k])
        <5>0. DOMAIN x = DOMAIN r \cup DOMAIN f
          BY AnswerWithKeeps
        <5>1. \A k \in DOMAIN r : k \notin DOMAIN f /\ k # "stage" => x[k] = r[k]
          BY AnswerWithKeeps
        <5>2. x["role"] = f["role"]
          BY <4>1 DEF AnsweredWith, Joined
        <5> HIDE DEF x
        <5> QED BY <4>1, <5>0, <5>1, <5>2
      <4> HIDE DEF x
      <4>5. "account" \in DOMAIN r /\ r.account \in Accounts
        BY <1>0, <3>2 DEF SessionAsked
      <4>6. "account" \in DOMAIN x /\ x["account"] = r["account"]
        BY <4>4, <4>5
      <4>7. server[r.account] \in SessionRoles
        BY <1>0, <3>2, <4>5
      <4>8. SessionAsked(x)
        BY <4>4, <4>5, <4>6, <4>7 DEF SessionAsked
      <4> QED BY <3>2, <4>3, <4>8 DEF x, f
    <3> QED BY <1>11, <3>1, <3>2 DEF ServeSignIn
  <2>2. Open' \subseteq Open \cup {x} /\ Open \subseteq Open' \cup {r} /\ x \in Open'
    BY <2>1, ReplyOpens
  <2>3. OneAtMost(Pending("login"))'
    <3> DEFINE C == Pending("login")
               D == Pending("login")'
    <3>1. C \subseteq Open /\ D \subseteq Open' /\ OneAtMost(C)
          /\ (\A y \in Open : y \in Open' => (y \in D <=> y \in C)) /\ (x \in D => r \in C)
      BY <1>0, <2>1 DEF Pending
    <3> HIDE DEF C, D
    <3>2. \A y, z \in D : y = z /\ Copies(y)' = 1
      BY <2>1, <3>1, ChainReply
    <3> QED BY <3>2 DEF D, OneAtMost
  <2>4. \A y \in Open' : y.op = "login" => page'.signing
    BY <1>0, <2>0, <2>1, <2>2
  <2> QED BY <1>0, <2>0, <2>1, <2>2, <2>3, <2>4 DEF SessionInv, Pending
<1> QED BY <1>2, <1>3, <1>4, <1>5, <1>6, <1>7, <1>8, <1>9, <1>10, <1>11 DEF SignInNext

-----------------------------------------------------------------------------
\* The member that is asked for is of the team that is.
LogCells ==
  /\ DOMAIN page = DOMAIN FirstLog(0)
  /\ page.team # Nil /\ page.member # Nil => TeamOf[page.member] = page.team

LEMMA LogStarts ==
  ASSUME LedgerMounted(<<>>)
  PROVE  LogCells'
BY DEF LedgerMounted, Mounting, FirstLog, LogCells

LEMMA LogKept ==
  ASSUME LogCells, LedgerNext
  PROVE  LogCells'
<1>0. /\ DOMAIN page = {"team", "member", "until", "items", "phase", "roster", "auto"}
      /\ page.team # Nil /\ page.member # Nil => TeamOf[page.member] = page.team
  BY DEF LogCells, FirstLog
<1>1. ASSUME DOMAIN page' = DOMAIN page,
             page'.team # Nil /\ page'.member # Nil => TeamOf[page'.member] = page'.team
      PROVE  LogCells'
  BY <1>1 DEF LogCells, FirstLog
<1>2. ASSUME NEW t \in LogTeams \cup {Nil}, SelectLogTeam(t) PROVE LogCells'
  BY <1>0, <1>1, <1>2 DEF SelectLogTeam, Reloading
<1>3. ASSUME NEW m \in LogMembers \cup {Nil}, SelectMember(m) PROVE LogCells'
  BY <1>0, <1>1, <1>3 DEF SelectMember, Reloading, MemberOptions
<1>4. ASSUME NEW u, SelectPreset(u) \/ ResetFilters(u) PROVE LogCells'
  BY <1>0, <1>1, <1>4 DEF SelectPreset, ResetFilters, Reloading
<1>5. ASSUME Refresh \/ AutoRefresh \/ ToggleAuto PROVE LogCells'
  BY <1>0, <1>1, <1>5 DEF Refresh, AutoRefresh, ToggleAuto, Reloading
<1>6. ASSUME NEW r, NEW ok, LogLoaded(r, ok) \/ LogRosterLoaded(r, ok) PROVE LogCells'
  BY <1>0, <1>1, <1>6 DEF LogLoaded, LogRosterLoaded
<1>7. ASSUME UNCHANGED page PROVE LogCells'
  BY <1>0, <1>1, <1>7
<1> QED BY <1>2, <1>3, <1>4, <1>5, <1>6, <1>7 DEF LedgerNext, EventHappens, ServeLog

-----------------------------------------------------------------------------
(***************************************************************************)
(* The list of conversations: each is in the items once, whatever reads,   *)
(* creations and events write them, and what is shown of the items is each *)
(* that passes the filter, in order.                                       *)
(***************************************************************************)
LEMMA SidebarStep ==
  ASSUME [Next]_tab, route' = "sidebar"
  PROVE  \/ UNCHANGED tab
         \/ route = "none" /\ SidebarMounted(FirstRooms)
         \/ route = "sidebar" /\ SidebarNext
<1>1. CASE route = "none" /\ OpenPage
  BY <1>1 DEF OpenPage, ChatMounted, ComposerMounted, StoreMounted, SidebarMounted,
     SessionsMounted, SocketMounted, MembersMounted, TeamRosterMounted,
     NoticesMounted, NodesMounted, NamespacesMounted, SystemMounted,
     SettingsMounted, LedgerMounted, ApprovalsMounted, SignInMounted, Mounting
<1>2. CASE route = "sidebar" /\ Next
  BY <1>2 DEF Next
<1> QED BY <1>1, <1>2, PageStep

\* As many numbers as there are places, all different, are all of them.
LEMMA PlacesTaken ==
  ASSUME NEW n \in Nat, NEW f \in [1..n -> 0..(n - 1)],
         \A x, y \in 1..n : x # y => f[x] # f[y]
  PROVE  \A k \in 1..n : \E x \in 1..n : k = 1 + f[x]
<1> DEFINE S == 1..n
<1>1. IsFiniteSet(S) /\ Cardinality(S) = n
  BY Finite!FS_Interval, SameFinite, SameCount
<1>2. f \in [S -> 0..(n - 1)] /\ \A x, y \in S : x # y => f[x] # f[y]
  OBVIOUS
<1> HIDE DEF S
<1>3. f \in [S -> 0..(Cardinality(S) - 1)]
  BY <1>1, <1>2
<1>4. \A k \in 0..(Cardinality(S) - 1) : \E x \in S : f[x] = k
  BY <1>1, <1>2, <1>3, EachOnce
<1>5. ASSUME NEW k \in 1..n PROVE \E x \in S : k = 1 + f[x]
  <2>1. k - 1 \in 0..(Cardinality(S) - 1)
    BY <1>1
  <2>2. PICK x \in S : f[x] = k - 1
    BY <1>4, <2>1
  <2> QED BY <2>2
<1> QED BY <1>5 DEF S

\* In a strict total order on the numbers up to n, in which first has those before
\* each, there is one with k - 1 before it for every k.
LEMMA RanksApart ==
  ASSUME NEW n \in Nat, NEW first \in [1..n -> SUBSET (1..n)],
         \A i \in 1..n : i \notin first[i],
         \A i, j \in 1..n : i \in first[j] => first[i] \subseteq first[j],
         \A i, j \in 1..n : i # j => i \in first[j] \/ j \in first[i]
  PROVE  /\ \A i \in 1..n : Cardinality(first[i]) \in 0..(n - 1)
         /\ \A i, j \in 1..n : i # j => Cardinality(first[i]) # Cardinality(first[j])
         /\ \A i, j \in 1..n : Cardinality(first[i]) < Cardinality(first[j]) => i \in first[j]
         /\ \A k \in 1..n : \E i \in 1..n : k = 1 + Cardinality(first[i])
<1> DEFINE S == 1..n
           rank == [i \in S |-> Cardinality(first[i])]
<1>1. IsFiniteSet(S) /\ Cardinality(S) = n
  BY Finite!FS_Interval, SameFinite, SameCount
<1>2. ASSUME NEW i \in S PROVE rank[i] \in 0..(n - 1) /\ IsFiniteSet(first[i])
  <2>1. first[i] \in SUBSET S /\ i \notin first[i]
    OBVIOUS
  <2>2. /\ IsFiniteSet(first[i]) /\ Cardinality(first[i]) \in Nat
        /\ Cardinality(first[i]) <= n /\ Cardinality(first[i]) # n
    BY <1>1, <2>1, SubsetCount
  <2>3. rank[i] = Cardinality(first[i])
    OBVIOUS
  <2> HIDE DEF rank
  <2> QED BY <2>2, <2>3
<1>3. ASSUME NEW i \in S, NEW j \in S, i \in first[j] PROVE rank[i] < rank[j]
  <2>1. first[i] \in SUBSET first[j] /\ i \notin first[i]
    BY <1>3
  <2>2. /\ Cardinality(first[i]) \in Nat /\ Cardinality(first[j]) \in Nat
        /\ Cardinality(first[i]) <= Cardinality(first[j])
        /\ Cardinality(first[i]) # Cardinality(first[j])
    BY <1>2, <1>3, <2>1, SubsetCount
  <2>3. rank[i] = Cardinality(first[i]) /\ rank[j] = Cardinality(first[j])
    OBVIOUS
  <2> HIDE DEF rank
  <2> QED BY <2>2, <2>3
<1>4. \A i \in S : rank[i] = Cardinality(first[i])
  OBVIOUS
<1>5. rank \in [1..n -> 0..(n - 1)]
  BY <1>2
<1> HIDE DEF rank
<1>6. ASSUME NEW i \in S, NEW j \in S, i # j PROVE rank[i] # rank[j]
  <2>1. i \in first[j] \/ j \in first[i]
    BY <1>6
  <2>2. rank[i] \in Nat /\ rank[j] \in Nat
    BY <1>2
  <2> QED BY <1>3, <2>1, <2>2
<1>7. ASSUME NEW i \in S, NEW j \in S, rank[i] < rank[j] PROVE i \in first[j]
  <2>1. rank[i] \in Nat /\ rank[j] \in Nat
    BY <1>2
  <2>2. i # j /\ j \notin first[i]
    BY <1>3, <1>7, <2>1
  <2> QED BY <2>2
<1>8. \A k \in 1..n : \E i \in 1..n : k = 1 + rank[i]
  <2>1. \A x, y \in 1..n : x # y => rank[x] # rank[y]
    BY <1>6
  <2> QED BY <1>5, <2>1, PlacesTaken
<1>9. \A i \in 1..n : Cardinality(first[i]) \in 0..(n - 1)
  BY <1>2, <1>4
<1>10. \A i, j \in 1..n : i # j => Cardinality(first[i]) # Cardinality(first[j])
  BY <1>4, <1>6
<1>11. \A i, j \in 1..n : Cardinality(first[i]) < Cardinality(first[j]) => i \in first[j]
  BY <1>4, <1>7
<1>12. \A k \in 1..n : \E i \in 1..n : k = 1 + Cardinality(first[i])
  BY <1>4, <1>8
<1> QED BY <1>9, <1>10, <1>11, <1>12

RoomEntry == [id : Rooms, at : Nat]

\* Every conversation is in the list once.
Distinct(list) ==
  list \in Seq(RoomEntry) /\ \A i, j \in 1..Len(list) : list[i].id = list[j].id => i = j

InOrderOf(list) == \A i, j \in 1..Len(list) : i < j => ~Before(list[j], list[i])

LEMMA EntryOrder ==
  ASSUME NEW a \in RoomEntry, NEW b \in RoomEntry, NEW c \in RoomEntry
  PROVE  /\ ~Before(a, a)
         /\ Before(a, b) => ~Before(b, a)
         /\ Before(a, b) /\ ~Before(c, b) => Before(a, c)
         /\ ~Before(b, a) /\ Before(b, c) => Before(a, c)
         /\ ~Before(b, a) /\ ~Before(c, b) => ~Before(c, a)
<1>1. \A e \in {a, b, c} : Pinned(e) \in BOOLEAN /\ Unread(e) \in Nat /\ e.at \in Nat
  BY RoomOfAssumption DEF RoomEntry, Pinned, Unread
<1> DEFINE P(e) == Pinned(e)
           U(e) == Unread(e)
<1>2. \A e, f : Before(e, f) <=> IF P(e) # P(f) THEN P(e)
                                 ELSE IF U(e) # U(f) THEN U(e) > U(f) ELSE e.at > f.at
  BY DEF Before
<1>3. \A e \in {a, b, c} : P(e) \in BOOLEAN /\ U(e) \in Nat /\ e.at \in Nat
  BY <1>1
<1> HIDE DEF P, U
<1> QED BY <1>2, <1>3

\* What is arranged has the same entries, each once, in order.
LEMMA ArrangedIs ==
  ASSUME NEW s, Distinct(s)
  PROVE  /\ Distinct(Arranged(s)) /\ InOrderOf(Arranged(s))
         /\ ToSet(Arranged(s)) = ToSet(s)
<1> DEFINE n == Len(s)
           first == [i \in 1..n |-> {j \in 1..n : Comes(s, j, i)}]
           o == Arranged(s)
<1>0. n \in Nat /\ DOMAIN s = 1..n /\ \A i \in 1..n : s[i] \in RoomEntry
  BY DEF Distinct
<1>1. \A i \in 1..n : ~Comes(s, i, i)
  BY <1>0, EntryOrder DEF Comes
<1>2. ASSUME NEW i \in 1..n, NEW j \in 1..n, NEW k \in 1..n, Comes(s, k, i), Comes(s, i, j)
      PROVE  Comes(s, k, j)
  <2>0. s[i] \in RoomEntry /\ s[j] \in RoomEntry /\ s[k] \in RoomEntry /\ n \in Nat
    BY <1>0
  <2>1. CASE Before(s[k], s[i])
    <3>1. ~Before(s[j], s[i])
      BY <1>2, <2>0, EntryOrder DEF Comes
    <3> QED BY <2>0, <2>1, <3>1, EntryOrder DEF Comes
  <2>2. CASE ~Before(s[i], s[k]) /\ Before(s[i], s[j])
    BY <2>0, <2>2, EntryOrder DEF Comes
  <2>3. CASE ~Before(s[i], s[k]) /\ ~Before(s[j], s[i]) /\ k < i /\ i < j
    <3>1. ~Before(s[j], s[k])
      BY <2>0, <2>3, EntryOrder
    <3> QED BY <2>0, <2>3, <3>1 DEF Comes
  <2> QED BY <1>2, <2>1, <2>2, <2>3 DEF Comes
<1>3. ASSUME NEW i \in 1..n, NEW j \in 1..n, i # j PROVE Comes(s, i, j) \/ Comes(s, j, i)
  <2>1. i \in Nat /\ j \in Nat /\ s[i] \in RoomEntry /\ s[j] \in RoomEntry
    BY <1>0
  <2> QED BY <1>3, <2>1, EntryOrder DEF Comes
<1>4. /\ first \in [1..n -> SUBSET (1..n)]
      /\ \A i, j \in 1..n : i \in first[j] <=> Comes(s, i, j)
      /\ \A i \in 1..n : first[i] = {j \in DOMAIN s : Comes(s, j, i)}
  BY <1>0
<1> HIDE DEF n, first
<1>5. \A i \in 1..n : i \notin first[i]
  BY <1>1, <1>4
<1>6. \A i, j \in 1..n : i \in first[j] => first[i] \subseteq first[j]
  <2> SUFFICES ASSUME NEW i \in 1..n, NEW j \in 1..n, i \in first[j], NEW k \in first[i]
               PROVE  k \in first[j]
    OBVIOUS
  <2>1. k \in 1..n
    BY <1>4
  <2> QED BY <1>2, <1>4, <2>1
<1>7. \A i, j \in 1..n : i # j => i \in first[j] \/ j \in first[i]
  BY <1>3, <1>4
<1>8. /\ \A i \in 1..n : Cardinality(first[i]) \in 0..(n - 1)
      /\ \A i, j \in 1..n : i # j => Cardinality(first[i]) # Cardinality(first[j])
      /\ \A i, j \in 1..n : Cardinality(first[i]) < Cardinality(first[j]) => i \in first[j]
      /\ \A k \in 1..n : \E i \in 1..n : k = 1 + Cardinality(first[i])
  BY <1>0, <1>4, <1>5, <1>6, <1>7, RanksApart
<1> DEFINE place(k) == CHOOSE i \in DOMAIN s : k = 1 + Cardinality({j \in DOMAIN s : Comes(s, j, i)})
           p == [k \in 1..n |-> place(k)]
<1>9. o = [k \in 1..n |-> s[place(k)]]
  BY <1>0 DEF Arranged, n
<1>10. ASSUME NEW k \in 1..n PROVE p[k] \in 1..n /\ k = 1 + Cardinality(first[p[k]])
  <2>1. \E i \in DOMAIN s : k = 1 + Cardinality({j \in DOMAIN s : Comes(s, j, i)})
    BY <1>0, <1>4, <1>8 DEF n
  <2>2. place(k) \in DOMAIN s
        /\ k = 1 + Cardinality({j \in DOMAIN s : Comes(s, j, place(k))})
    BY <2>1
  <2>3. p[k] = place(k)
    OBVIOUS
  <2> HIDE DEF place, p
  <2>4. place(k) \in 1..n
    BY <1>0, <2>2 DEF n
  <2> QED BY <1>4, <2>2, <2>3, <2>4
<1>11. o = [k \in 1..n |-> s[p[k]]]
  <2>1. \A k \in 1..n : p[k] = place(k)
    OBVIOUS
  <2> HIDE DEF place, p, o
  <2> QED BY <1>9, <2>1
<1> HIDE DEF p, place, o
<1>12. /\ o \in Seq(RoomEntry) /\ Len(o) = n
       /\ \A k \in 1..n : o[k] = s[p[k]] /\ p[k] \in 1..n
  <2>1. \A k \in 1..n : s[p[k]] \in RoomEntry
    BY <1>0, <1>10 DEF n
  <2>2. o \in [1..n -> RoomEntry]
    BY <1>11, <2>1
  <2> QED BY <1>0, <1>10, <1>11, <2>2 DEF n
<1>13. \A k, l \in 1..n : p[k] = p[l] => k = l
  BY <1>10
<1>14. \A i \in 1..n : \E k \in 1..n : p[k] = i
  <2> SUFFICES ASSUME NEW i \in 1..n PROVE \E k \in 1..n : p[k] = i
    OBVIOUS
  <2>1. 1 + Cardinality(first[i]) \in 1..n /\ Cardinality(first[i]) \in Nat
    <3>1. Cardinality(first[i]) \in 0..(n - 1) /\ n \in Nat
      BY <1>0, <1>8
    <3> HIDE DEF n
    <3> QED BY <3>1
  <2> DEFINE k == 1 + Cardinality(first[i])
  <2>2. p[k] \in 1..n /\ k = 1 + Cardinality(first[p[k]])
    BY <1>10, <2>1
  <2>3. Cardinality(first[p[k]]) = Cardinality(first[i])
    <3>1. Cardinality(first[p[k]]) \in 0..(n - 1)
      BY <1>8, <2>2
    <3> QED BY <1>0, <2>1, <2>2, <3>1 DEF n
  <2>4. p[k] = i
    BY <1>8, <2>2, <2>3
  <2> QED BY <2>1, <2>4
<1>15. Distinct(o)
  <2>1. ASSUME NEW k \in 1..n, NEW l \in 1..n, o[k].id = o[l].id PROVE k = l
    <3>1. p[k] \in 1..n /\ p[l] \in 1..n /\ s[p[k]].id = s[p[l]].id
      BY <1>12, <2>1
    <3>2. p[k] = p[l]
      BY <3>1 DEF Distinct, n
    <3> QED BY <1>13, <3>2
  <2> QED BY <1>12, <2>1 DEF Distinct
<1>16. InOrderOf(o)
  <2>1. ASSUME NEW k \in 1..n, NEW l \in 1..n, k < l PROVE ~Before(o[l], o[k])
    <3>1. p[k] \in 1..n /\ p[l] \in 1..n /\ o[k] = s[p[k]] /\ o[l] = s[p[l]]
      BY <1>12
    <3>2. k = 1 + Cardinality(first[p[k]]) /\ l = 1 + Cardinality(first[p[l]])
      BY <1>10
    <3>3. Cardinality(first[p[k]]) \in Nat /\ Cardinality(first[p[l]]) \in Nat
      BY <1>8, <3>1
    <3>3a. Cardinality(first[p[k]]) < Cardinality(first[p[l]])
      BY <2>1, <3>2, <3>3
    <3>3b. p[k] \in first[p[l]]
      BY <1>8, <3>1, <3>3a
    <3>4. Comes(s, p[k], p[l])
      BY <1>4, <3>1, <3>3b
    <3>5. s[p[k]] \in RoomEntry /\ s[p[l]] \in RoomEntry
      BY <1>0, <3>1 DEF n
    <3> QED BY <3>1, <3>4, <3>5, EntryOrder DEF Comes
  <2> QED BY <1>12, <2>1 DEF InOrderOf
<1>17. ToSet(o) = ToSet(s)
  <2>1. DOMAIN o = 1..n /\ DOMAIN s = 1..n
    BY <1>0, <1>11 DEF n
  <2>2. ToSet(o) = {o[k] : k \in 1..n} /\ ToSet(s) = {s[k] : k \in 1..n}
    BY <2>1 DEF ToSet
  <2>3. \A k \in 1..n : \E i \in 1..n : o[k] = s[i]
    BY <1>12
  <2>4. ASSUME NEW i \in 1..n PROVE \E k \in 1..n : o[k] = s[i]
    BY <1>12, <1>14
  <2> QED BY <2>2, <2>3, <2>4
<1> QED BY <1>15, <1>16, <1>17 DEF o

\* A selection of a list has the entries that are selected, each once, and its order.
LEMMA SelectedOnce ==
  ASSUME NEW s, Distinct(s), NEW P
  PROVE  /\ Distinct(Selected(s, P))
         /\ InOrderOf(s) => InOrderOf(Selected(s, P))
         /\ ToSet(Selected(s, P)) = {s[k] : k \in P \cap (1..Len(s))}
<1> DEFINE o == Selected(s, P)
<1>0. s \in Seq(RoomEntry) /\ \A i, j \in 1..Len(s) : s[i].id = s[j].id => i = j
  BY DEF Distinct
<1>1. /\ o \in Seq(RoomEntry)
      /\ \A i \in 1..Len(o) : \E k \in P \cap (1..Len(s)) : o[i] = s[k]
      /\ \A i, j \in 1..Len(o) : i < j => \E k, l \in 1..Len(s) : k < l /\ o[i] = s[k] /\ o[j] = s[l]
  BY <1>0, SelectedInOrder
<1>2. \A k \in P \cap (1..Len(s)) : \E i \in DOMAIN o : o[i] = s[k]
  BY <1>0, SelectedHasAll
<1> HIDE DEF o
<1>3. ASSUME NEW i \in 1..Len(o), NEW j \in 1..Len(o), o[i].id = o[j].id PROVE i = j
  <2>1. ASSUME NEW x \in 1..Len(o), NEW y \in 1..Len(o), x < y PROVE o[x].id # o[y].id
    <3>1. PICK k \in 1..Len(s), l \in 1..Len(s) : k < l /\ o[x] = s[k] /\ o[y] = s[l]
      BY <1>1, <2>1
    <3>2. k # l
      BY <1>0, <3>1
    <3> QED BY <1>0, <3>1, <3>2
  <2>2. i < j \/ j < i \/ i = j
    BY <1>1
  <2> QED BY <1>3, <2>1, <2>2
<1>4. Distinct(o)
  BY <1>1, <1>3 DEF Distinct
<1>5. InOrderOf(s) => InOrderOf(o)
  BY <1>1 DEF InOrderOf
<1>6. ToSet(o) = {s[k] : k \in P \cap (1..Len(s))}
  <2>1. DOMAIN o = 1..Len(o)
    BY <1>1
  <2> QED BY <1>1, <1>2, <2>1 DEF ToSet
<1> QED BY <1>4, <1>5, <1>6 DEF o

\* Two lists that have no conversation in common, one after the other.
LEMMA JoinedOnce ==
  ASSUME NEW a, NEW b, Distinct(a), Distinct(b),
         \A x \in ToSet(a), y \in ToSet(b) : x.id # y.id
  PROVE  /\ Distinct(a \o b)
         /\ ToSet(a \o b) = ToSet(a) \cup ToSet(b)
         /\ \A k \in 1..Len(a \o b) :
              \/ k \in 1..Len(a) /\ (a \o b)[k] = a[k]
              \/ k > Len(a) /\ k - Len(a) \in 1..Len(b) /\ (a \o b)[k] = b[k - Len(a)]
<1> DEFINE o == a \o b
           m == Len(a)
           n == Len(b)
<1>0. /\ a \in Seq(RoomEntry) /\ b \in Seq(RoomEntry)
      /\ \A i, j \in 1..m : a[i].id = a[j].id => i = j
      /\ \A i, j \in 1..n : b[i].id = b[j].id => i = j
      /\ m \in Nat /\ n \in Nat /\ DOMAIN a = 1..m /\ DOMAIN b = 1..n
  BY DEF Distinct
<1>1. /\ o \in Seq(RoomEntry) /\ Len(o) = m + n /\ DOMAIN o = 1..(m + n)
      /\ \A k \in 1..m : o[k] = a[k]
      /\ \A k \in 1..n : o[m + k] = b[k]
  BY <1>0
<1>2. \A i \in 1..m, j \in 1..n : a[i].id # b[j].id
  BY <1>0 DEF ToSet
<1> HIDE DEF o, m, n
<1>3. ASSUME NEW k \in 1..Len(o)
      PROVE  \/ k \in 1..m /\ o[k] = a[k]
             \/ k > m /\ k - m \in 1..n /\ o[k] = b[k - m]
  <2>1. CASE k <= m
    BY <1>0, <1>1, <2>1
  <2>2. CASE k > m
    <3>1. k - m \in 1..n /\ m + (k - m) = k
      BY <1>0, <1>1, <2>2
    <3> QED BY <1>1, <2>2, <3>1
  <2> QED BY <1>0, <1>1, <2>1, <2>2
<1>4. ASSUME NEW k \in 1..Len(o), NEW l \in 1..Len(o), o[k].id = o[l].id PROVE k = l
  <2>1. k \in Nat /\ l \in Nat
    BY <1>0, <1>1
  <2>2. CASE k \in 1..m /\ o[k] = a[k] /\ l \in 1..m /\ o[l] = a[l]
    BY <1>0, <1>4, <2>2
  <2>3. CASE k \in 1..m /\ o[k] = a[k] /\ l - m \in 1..n /\ o[l] = b[l - m]
    BY <1>2, <1>4, <2>3
  <2>4. CASE k - m \in 1..n /\ o[k] = b[k - m] /\ l \in 1..m /\ o[l] = a[l]
    BY <1>2, <1>4, <2>4
  <2>5. CASE k - m \in 1..n /\ o[k] = b[k - m] /\ l - m \in 1..n /\ o[l] = b[l - m]
    <3>1. k - m = l - m
      BY <1>0, <1>4, <2>5
    <3> QED BY <1>0, <2>1, <3>1
  <2> QED BY <1>3, <2>2, <2>3, <2>4, <2>5
<1>5. Distinct(o)
  BY <1>1, <1>4 DEF Distinct
<1>6. ToSet(o) = ToSet(a) \cup ToSet(b)
  <2>4. ToSet(o) = {o[k] : k \in 1..Len(o)} /\ ToSet(a) = {a[k] : k \in 1..m}
        /\ ToSet(b) = {b[k] : k \in 1..n}
    BY <1>0, <1>1 DEF ToSet
  <2>1. ASSUME NEW k \in 1..Len(o) PROVE o[k] \in ToSet(a) \cup ToSet(b)
    BY <1>3, <2>4
  <2>2. ASSUME NEW k \in 1..m PROVE a[k] \in ToSet(o)
    <3>1. k \in 1..(m + n)
      BY <1>0
    <3> QED BY <1>1, <3>1 DEF ToSet
  <2>3. ASSUME NEW k \in 1..n PROVE b[k] \in ToSet(o)
    <3>1. m + k \in 1..(m + n)
      BY <1>0
    <3> QED BY <1>1, <3>1 DEF ToSet
  <2> QED BY <2>1, <2>2, <2>3, <2>4
<1> QED BY <1>3, <1>5, <1>6 DEF o, m, n

\* A list is as long as there are conversations in it.
LEMMA OnceCounts ==
  ASSUME NEW s, Distinct(s)
  PROVE  Len(s) = Cardinality({e.id : e \in ToSet(s)})
<1> DEFINE S == 1..Len(s)
           T == {e.id : e \in ToSet(s)}
           f == [k \in S |-> s[k].id]
<1>0. Len(s) \in Nat /\ DOMAIN s = S /\ \A i, j \in S : s[i].id = s[j].id => i = j
  BY DEF Distinct
<1>1. IsFiniteSet(S) /\ Cardinality(S) = Len(s)
  BY <1>0, Finite!FS_Interval, SameFinite, SameCount
<1>2. T = {s[k].id : k \in S}
  BY <1>0 DEF ToSet
<1> HIDE DEF S, T
<1>3. f \in Finite!Bijection(S, T)
  BY <1>0, <1>2 DEF Finite!Bijection, Finite!Injection, Finite!Surjection, Finite!IsInjective
<1>4. Finite!ExistsBijection(S, T)
  BY <1>3 DEF Finite!ExistsBijection
<1>5. Finite!Cardinality(T) = Finite!Cardinality(S)
  BY <1>1, <1>4, SameFinite, Finite!FS_Bijection
<1> QED BY <1>1, <1>5, SameCount DEF T

\* What passes the filter is shown, each once, in the order of the sections.
LEMMA ItemsListed ==
  ASSUME Distinct(page.items), NEW filter, NEW found
  PROVE  LET list == ListedConversations(filter, found)
         IN  /\ Len(list) = Cardinality({e.id : e \in {x \in ToSet(page.items) :
                                                        PassesFilter(x, filter, found)}})
             /\ \A i, j \in DOMAIN list : i < j =>
                  /\ Pinned(list[j]) => Pinned(list[i])
                  /\ Unread(list[j]) > 0 => Pinned(list[i]) \/ Unread(list[i]) >= Unread(list[j])
                  /\ (Pinned(list[i]) = Pinned(list[j]) /\ Unread(list[i]) = Unread(list[j]))
                       => list[i].at >= list[j].at
<1> DEFINE items == page.items
           chosen == Selected(items, {i \in DOMAIN items : PassesFilter(items[i], filter, found)})
           all == FilteredConversations(filter, found)
           above == PinnedConversations(all)
           rest == NonPinnedConversations(all)
           list == ListedConversations(filter, found)
           IdsOf(s) == {e.id : e \in ToSet(s)}
<1>0. items \in Seq(RoomEntry) /\ DOMAIN items = 1..Len(items) /\ ToSet(items) = {items[k] : k \in 1..Len(items)}
  BY DEF Distinct, ToSet
<1>1. /\ Distinct(chosen)
      /\ ToSet(chosen) = {x \in ToSet(items) : PassesFilter(x, filter, found)}
  <2>1. ToSet(chosen) = {items[k] : k \in {i \in DOMAIN items : PassesFilter(items[i], filter, found)}
                                           \cap (1..Len(items))}
    BY SelectedOnce
  <2>2. Distinct(chosen)
    BY SelectedOnce
  <2> HIDE DEF items, chosen
  <2> QED BY <1>0, <2>1, <2>2
<1>2. all = Arranged(chosen)
  BY DEF FilteredConversations
<1> HIDE DEF chosen
<1>3. /\ Distinct(all) /\ InOrderOf(all)
      /\ ToSet(all) = {x \in ToSet(items) : PassesFilter(x, filter, found)}
  BY <1>1, <1>2, ArrangedIs
<1>4. list = above \o rest
  BY DEF ListedConversations
<1> HIDE DEF all, list
<1>5. all \in Seq(RoomEntry) /\ DOMAIN all = 1..Len(all) /\ ToSet(all) = {all[k] : k \in 1..Len(all)}
  BY <1>3 DEF Distinct, ToSet
<1>6. /\ Distinct(above) /\ InOrderOf(above)
      /\ ToSet(above) = {x \in ToSet(all) : Pinned(x) \/ Unread(x) > 0}
  <2> DEFINE P == {i \in DOMAIN all : Pinned(all[i]) \/ Unread(all[i]) > 0}
  <2>1. above = Selected(all, P)
    BY DEF PinnedConversations
  <2>2. Distinct(above) /\ InOrderOf(above) /\ ToSet(above) = {all[k] : k \in P \cap (1..Len(all))}
    BY <1>3, <2>1, SelectedOnce
  <2> HIDE DEF above
  <2> QED BY <1>5, <2>2
<1>7. /\ Distinct(rest) /\ InOrderOf(rest)
      /\ ToSet(rest) = {x \in ToSet(all) : x.id \notin IdsOf(above)}
  <2> DEFINE P == {i \in DOMAIN all : all[i].id \notin IdsOf(above)}
  <2>1. rest = Selected(all, P)
    BY DEF NonPinnedConversations
  <2>2. Distinct(rest) /\ InOrderOf(rest) /\ ToSet(rest) = {all[k] : k \in P \cap (1..Len(all))}
    BY <1>3, <2>1, SelectedOnce
  <2> HIDE DEF above, rest, IdsOf
  <2> QED BY <1>5, <2>2
<1> HIDE DEF above, rest
<1>8. \A x \in ToSet(above), y \in ToSet(rest) : x.id # y.id
  BY <1>7
<1>9. /\ Distinct(list) /\ ToSet(list) = ToSet(above) \cup ToSet(rest)
      /\ \A k \in 1..Len(list) :
           \/ k \in 1..Len(above) /\ list[k] = above[k]
           \/ k > Len(above) /\ k - Len(above) \in 1..Len(rest) /\ list[k] = rest[k - Len(above)]
  BY <1>4, <1>6, <1>7, <1>8, JoinedOnce
<1>10. IdsOf(list) = {e.id : e \in ToSet(all)}
  BY <1>6, <1>7, <1>9
<1>11. Len(list) = Cardinality({e.id : e \in {x \in ToSet(page.items) : PassesFilter(x, filter, found)}})
  BY <1>3, <1>9, <1>10, OnceCounts
<1>12. /\ \A k \in 1..Len(above) : above[k] \in ToSet(above)
       /\ \A k \in 1..Len(rest) : rest[k] \in ToSet(rest)
       /\ Len(above) \in Nat /\ Len(rest) \in Nat
       /\ DOMAIN list = 1..Len(list) /\ Len(list) \in Nat
       /\ \A k \in 1..Len(list) : list[k] \in RoomEntry
  BY <1>6, <1>7, <1>9 DEF Distinct, ToSet
<1>13. \A e \in RoomEntry : Pinned(e) \in BOOLEAN /\ Unread(e) \in Nat /\ e.at \in Nat
  BY RoomOfAssumption DEF RoomEntry, Pinned, Unread
<1>14. ASSUME NEW i \in DOMAIN list, NEW j \in DOMAIN list, i < j
       PROVE  /\ Pinned(list[j]) => Pinned(list[i])
              /\ Unread(list[j]) > 0 => Pinned(list[i]) \/ Unread(list[i]) >= Unread(list[j])
              /\ (Pinned(list[i]) = Pinned(list[j]) /\ Unread(list[i]) = Unread(list[j]))
                   => list[i].at >= list[j].at
  <2>0. i \in 1..Len(list) /\ j \in 1..Len(list) /\ i \in Nat /\ j \in Nat
    BY <1>12
  <2> DEFINE e == list[i]
             f == list[j]
  <2>1. e \in RoomEntry /\ f \in RoomEntry
    BY <1>12, <2>0
  <2>2. /\ \/ i \in 1..Len(above) /\ e = above[i]
           \/ i > Len(above) /\ i - Len(above) \in 1..Len(rest) /\ e = rest[i - Len(above)]
        /\ \/ j \in 1..Len(above) /\ f = above[j]
           \/ j > Len(above) /\ j - Len(above) \in 1..Len(rest) /\ f = rest[j - Len(above)]
    BY <1>9, <2>0
  <2> HIDE DEF e, f
  <2>3. ASSUME ~Before(f, e)
        PROVE  /\ Pinned(f) => Pinned(e)
               /\ Unread(f) > 0 => Pinned(e) \/ Unread(e) >= Unread(f)
               /\ Pinned(e) = Pinned(f) /\ Unread(e) = Unread(f) => e.at >= f.at
    BY <1>13, <2>1, <2>3 DEF Before
  <2>4. CASE i \in 1..Len(above) /\ e = above[i] /\ j \in 1..Len(above) /\ f = above[j]
    <3>1. ~Before(f, e)
      BY <1>6, <1>14, <2>4 DEF InOrderOf
    <3> QED BY <2>3, <3>1 DEF e, f
  <2>5. CASE /\ i > Len(above) /\ i - Len(above) \in 1..Len(rest) /\ e = rest[i - Len(above)]
             /\ j > Len(above) /\ j - Len(above) \in 1..Len(rest) /\ f = rest[j - Len(above)]
    <3>0. i - Len(above) < j - Len(above)
      BY <1>12, <1>14, <2>0
    <3>1. ~Before(f, e)
      BY <1>7, <2>5, <3>0 DEF InOrderOf
    <3> QED BY <2>3, <3>1 DEF e, f
  <2>6. CASE /\ i \in 1..Len(above) /\ e = above[i]
             /\ j - Len(above) \in 1..Len(rest) /\ f = rest[j - Len(above)]
    <3>1. e \in ToSet(above) /\ f \in ToSet(rest)
      BY <1>12, <2>6
    <3>2. Pinned(e) \/ Unread(e) > 0
      BY <1>6, <3>1
    <3>3. ~Pinned(f) /\ ~(Unread(f) > 0)
      <4>1. f \in ToSet(all) /\ f \notin ToSet(above)
        BY <1>7, <3>1
      <4> QED BY <1>6, <4>1
    <3> QED BY <1>13, <2>1, <3>2, <3>3 DEF e, f
  <2> QED BY <1>12, <1>14, <2>0, <2>2, <2>4, <2>5, <2>6
<1> QED BY <1>11, <1>14 DEF list

\* What a read brings, and what is created.
RoomsAsked(r) ==
  /\ {"op", "stage"} \subseteq DOMAIN r
  /\ r.op \in {"load", "convs"} /\ r.stage = "ok" => Distinct(r.list)
  /\ r.op = "create" =>
       /\ "conv" \in DOMAIN r /\ r.conv \in Rooms
       /\ r.stage = "ok" => r.made \in RoomEntry

\* Every conversation of the workspace is there once, and has its time.
RoomsOf(s) ==
  /\ DOMAIN s = {"convs", "at", "posts", "saved"}
  /\ s.convs \in Seq(Rooms) /\ \A i, j \in 1..Len(s.convs) : s.convs[i] = s.convs[j] => i = j
  /\ s.at \in [Rooms -> Nat] /\ s.posts \in Nat
  /\ \A m \in s.saved : m.conv \in Rooms /\ m.at \in Nat

\* The items hold every conversation once, and so does whatever is on its way to them.
SidebarInv ==
  /\ DOMAIN page = {"items", "active"} /\ Distinct(page.items)
  /\ RoomsOf(server)
  /\ \A r \in Open : RoomsAsked(r)

LEMMA SidebarStarts ==
  ASSUME SidebarMounted(FirstRooms)
  PROVE  SidebarInv'
<1>1. Open' = {Query("load")}
  BY MountOpens DEF SidebarMounted
<1>2. RoomsAsked(Query("load"))
  <2> DEFINE x == Query("load")
  <2>1. DOMAIN x = {"op", "stage"} /\ x.op = "load" /\ x.stage = "sent"
    BY DEF Query
  <2> HIDE DEF x
  <2>2. RoomsAsked(x)
    BY <2>1 DEF RoomsAsked
  <2> QED BY <2>2 DEF x
<1>3. /\ page' = [items |-> <<>>, active |-> Nil]
      /\ server' = [convs |-> FirstRooms, at |-> [c \in Rooms |-> 0], posts |-> 0, saved |-> {}]
  BY DEF SidebarMounted, Mounting
<1>4. Distinct(<<>>)
  BY DEF Distinct
<1>5. RoomsOf(server')
  BY <1>3, FirstRoomsAssumption DEF RoomsOf, IsInjective
<1> QED BY <1>1, <1>2, <1>3, <1>4, <1>5 DEF SidebarInv

\* What is made is a conversation that was not there.
LEMMA RoomPutFirst ==
  ASSUME NEW s, RoomsOf(s), NEW c \in Rooms
  PROVE  RoomsOf(IF c \in ToSet(s.convs) THEN s
                 ELSE [s EXCEPT !.convs = <<c>> \o @, !.at[c] = s.posts])
<1> DEFINE o == <<c>> \o s.convs
           t == [s EXCEPT !.convs = o, !.at[c] = s.posts]
           n == Len(s.convs)
<1> SUFFICES ASSUME c \notin ToSet(s.convs) PROVE RoomsOf(t)
  OBVIOUS
<1>0. s.convs \in Seq(Rooms) /\ n \in Nat /\ DOMAIN s.convs = 1..n
      /\ \A i, j \in 1..n : s.convs[i] = s.convs[j] => i = j
  BY DEF RoomsOf
<1>1. \A i \in 1..n : s.convs[i] # c
  BY <1>0 DEF ToSet
<1>2. o \in Seq(Rooms) /\ Len(o) = n + 1 /\ o[1] = c
      /\ \A i \in 2..(n + 1) : o[i] = s.convs[i - 1]
  BY <1>0
<1> HIDE DEF o, n
<1>3. ASSUME NEW i \in 1..Len(o), NEW j \in 1..Len(o), o[i] = o[j] PROVE i = j
  <2>1. \A k \in 1..Len(o) : k = 1 \/ (k \in 2..(n + 1) /\ k - 1 \in 1..n /\ k \in Nat)
    BY <1>0, <1>2
  <2>2. i = 1 /\ j # 1 => FALSE
    BY <1>1, <1>2, <1>3, <2>1
  <2>3. j = 1 /\ i # 1 => FALSE
    BY <1>1, <1>2, <1>3, <2>1
  <2>4. i # 1 /\ j # 1 => i - 1 = j - 1 /\ i \in Nat /\ j \in Nat
    BY <1>0, <1>2, <1>3, <2>1
  <2> QED BY <2>2, <2>3, <2>4
<1>4. DOMAIN t = DOMAIN s /\ t.convs = o /\ t.at = [s.at EXCEPT ![c] = s.posts]
      /\ t.posts = s.posts /\ t.saved = s.saved
  BY DEF RoomsOf
<1> HIDE DEF t
<1> QED BY <1>2, <1>3, <1>4 DEF RoomsOf

LEMMA ServerLists ==
  ASSUME NEW s, RoomsOf(s)
  PROVE  Distinct([i \in DOMAIN s.convs |-> [id |-> s.convs[i], at |-> s.at[s.convs[i]]]])
<1> DEFINE n == Len(s.convs)
           e(i) == [id |-> s.convs[i], at |-> s.at[s.convs[i]]]
           o == [i \in DOMAIN s.convs |-> e(i)]
<1>0. /\ n \in Nat /\ DOMAIN s.convs = 1..n /\ s.at \in [Rooms -> Nat]
      /\ \A i \in 1..n : s.convs[i] \in Rooms
      /\ \A i, j \in 1..n : s.convs[i] = s.convs[j] => i = j
  BY DEF RoomsOf
<1>1. \A i \in 1..n : e(i) \in RoomEntry /\ e(i).id = s.convs[i]
  BY <1>0 DEF RoomEntry
<1> HIDE DEF e, n
<1>2. o \in [1..n -> RoomEntry] /\ \A i \in 1..n : o[i] = e(i)
  BY <1>0, <1>1
<1>3. o \in Seq(RoomEntry) /\ Len(o) = n
  BY <1>0, <1>2
<1>4. Distinct(o)
  <2> HIDE DEF o
  <2> QED BY <1>0, <1>1, <1>2, <1>3 DEF Distinct
<1> QED BY <1>4 DEF e

\* A conversation that is there is replaced in its place.
LEMMA UpsertedOnce ==
  ASSUME NEW s, Distinct(s), NEW e \in RoomEntry
  PROVE  Distinct(Upserted(s, e))
<1>0. /\ s \in Seq(RoomEntry) /\ DOMAIN s = 1..Len(s) /\ Len(s) \in Nat
      /\ \A i, j \in 1..Len(s) : s[i].id = s[j].id => i = j
      /\ \A i \in 1..Len(s) : s[i] \in RoomEntry
  BY DEF Distinct
<1>1. CASE \E i \in DOMAIN s : s[i].id = e.id
  <2> DEFINE o == [i \in DOMAIN s |-> IF s[i].id = e.id THEN e ELSE s[i]]
  <2>1. o \in [1..Len(s) -> RoomEntry] /\ \A i \in 1..Len(s) : o[i].id = s[i].id
    BY <1>0
  <2>2. o \in Seq(RoomEntry) /\ Len(o) = Len(s)
    BY <1>0, <2>1
  <2>3. Upserted(s, e) = o
    BY <1>1 DEF Upserted
  <2> HIDE DEF o
  <2> QED BY <1>0, <2>1, <2>2, <2>3 DEF Distinct
<1>2. CASE ~\E i \in DOMAIN s : s[i].id = e.id
  <2> DEFINE a == <<e>>
  <2>1. Distinct(a) /\ ToSet(a) = {e}
    BY DEF Distinct, ToSet
  <2>2. Upserted(s, e) = a \o s
    BY <1>2 DEF Upserted
  <2>3. \A x \in ToSet(a), y \in ToSet(s) : x.id # y.id
    BY <1>2, <2>1 DEF ToSet
  <2> HIDE DEF a
  <2> QED BY <2>1, <2>2, <2>3, JoinedOnce
<1> QED BY <1>1, <1>2

LEMMA SidebarKept ==
  ASSUME SidebarInv, SidebarNext
  PROVE  SidebarInv'
<1>0. /\ DOMAIN page = {"items", "active"} /\ Distinct(page.items) /\ RoomsOf(server)
      /\ \A r \in Open : RoomsAsked(r)
  BY DEF SidebarInv
\* Nothing is asked, and nobody is answered.
<1>1. ASSUME UNCHANGED wire, DOMAIN page' = DOMAIN page, page'.items = page.items, RoomsOf(server')
      PROVE  SidebarInv'
  <2>1. Open' = Open
    BY <1>1 DEF Open
  <2> QED BY <1>0, <1>1, <2>1 DEF SidebarInv
<1>2. ASSUME NEW c \in Rooms, SelectRoom(c) PROVE SidebarInv'
  <2>1. page' = [page EXCEPT !.active = c] /\ UNCHANGED <<server, wire>>
    BY <1>2 DEF SelectRoom
  <2> QED BY <1>0, <1>1, <2>1
<1>3. ASSUME NEW x, Ask(x), RoomsAsked(x), UNCHANGED <<page, server>> PROVE SidebarInv'
  <2>1. Open' = Open \cup {x}
    BY <1>3, AskOpens
  <2> QED BY <1>0, <1>3, <2>1 DEF SidebarInv
<1>4. ASSUME NEW c \in Rooms, OpenRoom(c) PROVE SidebarInv'
  <2> DEFINE x == [op |-> "create", stage |-> "sent", conv |-> c]
  <2>1. DOMAIN x = {"op", "stage", "conv"} /\ x.op = "create" /\ x.stage = "sent" /\ x.conv = c
    OBVIOUS
  <2>2. Ask(x) /\ UNCHANGED <<page, server>>
    BY <1>4 DEF OpenRoom
  <2> HIDE DEF x
  <2> QED BY <1>3, <2>1, <2>2 DEF RoomsAsked
<1>5. CASE EventElsewhere
  <2> DEFINE x == Query("convs")
  <2>1. DOMAIN x = {"op", "stage"} /\ x.op = "convs" /\ x.stage = "sent"
    BY DEF Query
  <2>2. Ask(x) /\ UNCHANGED <<page, server>>
    BY <1>5 DEF EventElsewhere
  <2> HIDE DEF x
  <2> QED BY <1>3, <2>1, <2>2 DEF RoomsAsked
<1>6. ASSUME NEW c \in Rooms PROVE RoomsOf(RoomMade(c))
  BY <1>0, RoomPutFirst DEF RoomMade
<1>7. ASSUME NEW c \in Rooms, OthersCreate(c) PROVE SidebarInv'
  BY <1>1, <1>6, <1>7 DEF OthersCreate
<1>8. ASSUME NEW c \in Rooms, MessageSaved(c) PROVE SidebarInv'
  <2> DEFINE m == [conv |-> c, at |-> server.posts + 1]
  <2>1. /\ server' = [server EXCEPT !.posts = server.posts + 1, !.saved = server.saved \cup {m}]
        /\ UNCHANGED <<page, wire>>
    BY <1>8 DEF MessageSaved
  <2>2. m.conv \in Rooms /\ m.at \in Nat /\ server.posts + 1 \in Nat
    BY <1>0 DEF RoomsOf
  <2> HIDE DEF m
  <2>3. /\ DOMAIN server' = DOMAIN server /\ server'.convs = server.convs /\ server'.at = server.at
        /\ server'.posts = server.posts + 1 /\ server'.saved = server.saved \cup {m}
    BY <1>0, <2>1 DEF RoomsOf
  <2>4. RoomsOf(server')
    BY <1>0, <2>2, <2>3 DEF RoomsOf
  <2> QED BY <1>1, <2>1, <2>4
<1>9. ASSUME NEW m \in server.saved, PreviewUpdated(m) PROVE SidebarInv'
  <2>1. /\ server' = [server EXCEPT !.saved = server.saved \ {m}, !.at[m.conv] = m.at]
        /\ UNCHANGED <<page, wire>>
    BY <1>9 DEF PreviewUpdated
  <2>2. m.conv \in Rooms /\ m.at \in Nat
    BY <1>0 DEF RoomsOf
  <2>3. /\ DOMAIN server' = DOMAIN server /\ server'.convs = server.convs
        /\ server'.at = [server.at EXCEPT ![m.conv] = m.at]
        /\ server'.posts = server.posts /\ server'.saved = server.saved \ {m}
    BY <1>0, <2>1 DEF RoomsOf
  <2>4. RoomsOf(server')
    BY <1>0, <2>2, <2>3 DEF RoomsOf
  <2> QED BY <1>1, <2>1, <2>4
<1>10. ASSUME NEW r \in Open, NEW ok \in BOOLEAN, ConversationItemsRead(r, ok) \/ RoomCreated(r, ok)
       PROVE  SidebarInv'
  <2>1. wire' = Settled(r) /\ server' = server
    BY <1>10 DEF ConversationItemsRead, RoomCreated
  <2>2. Open' \subseteq Open
    BY <2>1, SettleOpens
  <2>3. DOMAIN page' = {"items", "active"} /\ Distinct(page'.items)
    <3>0. RoomsAsked(r)
      BY <1>0
    <3>1. CASE ConversationItemsRead(r, ok) /\ ok
      <4>1. Distinct(r.list)
        BY <3>0, <3>1 DEF ConversationItemsRead, Ends, RoomsAsked
      <4>2. DOMAIN page' = DOMAIN page /\ page'.items = r.list
        BY <1>0, <3>1 DEF ConversationItemsRead
      <4> QED BY <1>0, <4>1, <4>2
    <3>2. CASE RoomCreated(r, ok) /\ ok
      <4>1. r.made \in RoomEntry
        BY <3>0, <3>2 DEF RoomCreated, Ends, RoomsAsked
      <4>2. DOMAIN page' = DOMAIN page /\ page'.items = Upserted(page.items, r.made)
        BY <1>0, <3>2 DEF RoomCreated
      <4> QED BY <1>0, <4>1, <4>2, UpsertedOnce
    <3>3. CASE ~ok
      BY <1>0, <1>10, <3>3 DEF ConversationItemsRead, RoomCreated
    <3> QED BY <1>10, <3>1, <3>2, <3>3
  <2> QED BY <1>0, <2>1, <2>2, <2>3 DEF SidebarInv
<1>11. ASSUME NEW r \in Open, NEW x, Reply(r, x), RoomsAsked(x), UNCHANGED page, RoomsOf(server')
       PROVE  SidebarInv'
  <2>1. Open' \subseteq Open \cup {x}
    BY <1>11, ReplyOpens
  <2> QED BY <1>0, <1>11, <2>1 DEF SidebarInv
<1>12. ASSUME NEW r \in Open, ServeSidebar(r) PROVE SidebarInv'
  <2>0. RoomsAsked(r) /\ UNCHANGED page
    BY <1>0, <1>12 DEF ServeSidebar
  <2>1. CASE /\ r.op \in {"load", "convs"} /\ UNCHANGED server
             /\ Reply(r, AnsweredWith(r, [list |-> [i \in DOMAIN server.convs |->
                       [id |-> server.convs[i], at |-> server.at[server.convs[i]]]]]))
    <3> DEFINE o == [i \in DOMAIN server.convs |->
                       [id |-> server.convs[i], at |-> server.at[server.convs[i]]]]
               f == [list |-> o]
               x == AnsweredWith(r, f)
    <3>1. Distinct(o)
      BY <1>0, ServerLists
    <3>2. Reply(r, x)
      BY <2>1
    <3> HIDE DEF o
    <3>3. DOMAIN f = {"list"} /\ f["list"] = o
      OBVIOUS
    <3> HIDE DEF f
    <3>4. DOMAIN f \cap {"op", "stage"} = {}
      BY <3>3
    <3>5. {"op", "stage"} \subseteq DOMAIN x /\ x.op = r.op
      BY <2>0, <3>4, AnswerWithAsks DEF RoomsAsked
    <3>6. x["list"] = o
      BY <3>3 DEF AnsweredWith, Joined
    <3> HIDE DEF x
    <3>7. RoomsAsked(x)
      BY <2>1, <3>1, <3>5, <3>6 DEF RoomsAsked
    <3> QED BY <1>0, <1>11, <2>0, <2>1, <3>2, <3>7
  <2>2. CASE /\ r.op = "create" /\ server' = RoomMade(r.conv)
             /\ Reply(r, AnsweredWith(r, [made |-> [id |-> r.conv, at |-> server'.at[r.conv]]]))
    <3> DEFINE e == [id |-> r.conv, at |-> server'.at[r.conv]]
               f == [made |-> e]
               x == AnsweredWith(r, f)
    <3>0. "conv" \in DOMAIN r /\ r.conv \in Rooms /\ RoomsOf(server')
      BY <1>6, <2>0, <2>2 DEF RoomsAsked
    <3>1. e \in RoomEntry
      BY <3>0 DEF RoomEntry, RoomsOf
    <3>2. Reply(r, x)
      BY <2>2
    <3> HIDE DEF e
    <3>3. DOMAIN f = {"made"} /\ f["made"] = e
      OBVIOUS
    <3> HIDE DEF f
    <3>4. DOMAIN f \cap {"op", "stage"} = {}
      BY <3>3
    <3>5. {"op", "stage"} \subseteq DOMAIN x /\ x.op = r.op
      BY <2>0, <3>4, AnswerWithAsks DEF RoomsAsked
    <3>6. x["made"] = e
      BY <3>3 DEF AnsweredWith, Joined
    <3>7. "conv" \in DOMAIN x /\ x["conv"] = r["conv"]
      BY <3>0, <3>3, AnswerWithKeeps
    <3> HIDE DEF x
    <3>8. RoomsAsked(x)
      BY <2>2, <3>0, <3>1, <3>5, <3>6, <3>7 DEF RoomsAsked
    <3> QED BY <1>11, <2>0, <3>0, <3>2, <3>8
  <2> QED BY <1>12, <2>1, <2>2 DEF ServeSidebar
<1> QED BY <1>2, <1>4, <1>5, <1>7, <1>8, <1>9, <1>10, <1>12 DEF SidebarNext

LEMMA SidebarLists == SidebarInv => ListedOnce
BY ItemsListed DEF SidebarInv, ListedOnce

-----------------------------------------------------------------------------
(***************************************************************************)
(* The tab.                                                                *)
(***************************************************************************)
\* The cells of the page that is shown agree.
TeamCellsInv ==
  /\ route = "composer" => MenusInv /\ FilesInv
  /\ route = "sidebar" => SidebarInv
  /\ route = "notices" => NoticesInv
  /\ route = "roster" => RosterInv
  /\ route = "ledger" => LogCells
  /\ route = "signin" => SessionInv

LEMMA TeamCellsStutter ==
  ASSUME TeamCellsInv, UNCHANGED tab
  PROVE  TeamCellsInv'
<1>1. page' = page /\ server' = server /\ route' = route /\ wire' = wire
  BY DEF tab
<1>2. Open' = Open /\ \A r : Copies(r)' = Copies(r)
  BY <1>1 DEF Open, Copies
<1>3. MenusInv => MenusInv'
  BY <1>1 DEF MenusInv
<1>4. FilesInv => FilesInv'
  BY <1>1, SameWire DEF FilesInv
<1>5. NoticesInv => NoticesInv'
  BY <1>1, <1>2 DEF NoticesInv, ListInv, ToastsInv, SummaryInv, OneAtMost, Pending
<1>6. (RosterInv => RosterInv') /\ (LogCells => LogCells')
  BY <1>1 DEF RosterInv, LogCells
<1>7. SessionInv => SessionInv'
  BY <1>1, <1>2 DEF SessionInv, SessionCells, SessionAsked, OneAtMost, Pending
<1>8. SidebarInv => SidebarInv'
  BY <1>1, <1>2 DEF SidebarInv
<1> QED BY <1>1, <1>3, <1>4, <1>5, <1>6, <1>7, <1>8 DEF TeamCellsInv

LEMMA TeamCellsStep ==
  ASSUME TeamInv, TeamCellsInv, [Next]_tab, ~UNCHANGED tab
  PROVE  TeamCellsInv'
<1>1. ASSUME route' = "composer" PROVE MenusInv' /\ FilesInv'
  BY <1>1, ComposerStep, MenusStart, FilesStart, MenusKept, FilesKept DEF TeamCellsInv
<1>2. ASSUME route' = "notices" PROVE NoticesInv'
  BY <1>2, NoticesStep, NoticesStart, NoticesKept DEF TeamCellsInv
<1>3. ASSUME route' = "roster" PROVE RosterInv'
  BY <1>3, RosterStep, RosterStarts, RosterKept DEF TeamCellsInv
<1>4. ASSUME route' = "ledger" PROVE LogCells'
  BY <1>4, LedgerStep, LogStarts, LogKept DEF TeamCellsInv
<1>5. ASSUME route' = "signin" PROVE SessionInv'
  BY <1>5, SignInStep, SessionStarts, SessionKept DEF TeamCellsInv, TeamInv
<1>6. ASSUME route' = "sidebar" PROVE SidebarInv'
  BY <1>6, SidebarStep, SidebarStarts, SidebarKept DEF TeamCellsInv
<1> QED BY <1>1, <1>2, <1>3, <1>4, <1>5, <1>6 DEF TeamCellsInv

-----------------------------------------------------------------------------
\* Cells and rows that several handlers write, and that belong together, agree after
\* any sequence of edits, answers and failures: the files and the menus of the composer
\* and the list of conversations (ChatPage.tsx), the notices and the toasts (notification-store.ts, AppProviders.tsx),
\* the members and teams of the backend (roster.go), the filter of the audit log and
\* the session; for any files, conversations, members, teams and accounts.
THEOREM TeamCellsAgree == Spec => []CellsAgree
<1>1. Init => TeamCellsInv
  BY DEF Init, TeamCellsInv
<1>2. TeamInv /\ TeamCellsInv /\ [Next]_tab => TeamCellsInv'
  BY TeamCellsStutter, TeamCellsStep
<1>3. TeamCellsInv => CellsAgree
  <2> SUFFICES ASSUME TeamCellsInv PROVE CellsAgree
    OBVIOUS
  <2>1. AttachedOnce
    BY FilesInOnePlace DEF TeamCellsInv, AttachedOnce
  <2>2. PickExists
    BY DEF TeamCellsInv, MenusInv, PickExists
  <2>3. LatestNoticed /\ ToastsEnd
    BY NoticesAgree DEF TeamCellsInv, LatestNoticed, ToastsEnd
  <2>4. MemberPlaced
    BY RosterPlaces DEF TeamCellsInv, MemberPlaced
  <2>5. MemberOfTeam
    BY DEF TeamCellsInv, LogCells, MemberOfTeam
  <2>6. SessionStored
    BY DEF TeamCellsInv, SessionInv, SessionCells, SessionStored
  <2>7. ListedOnce
    BY SidebarLists DEF TeamCellsInv, ListedOnce
  <2> QED BY <2>1, <2>2, <2>3, <2>4, <2>5, <2>6, <2>7 DEF CellsAgree
<1> QED BY <1>1, <1>2, <1>3, TeamInvariant, PTL DEF Spec
=============================================================================
