---------------------------- MODULE ChatComposer ----------------------------
(***************************************************************************)
(* The composer of the chat page (pages/chat/ChatPage.tsx): the draft with *)
(* its menus of commands and mentions, and the attachments, which are read *)
(* from disk one after another while everything else goes on.  ChatPage    *)
(* has the conversations and the messages on the screen.                   *)
(*                                                                         *)
(* Of the text only this is kept: whether it is blank, and the menu that   *)
(* is open at the caret with the number of its candidates.                 *)
(***************************************************************************)
EXTENDS ChatStore

CONSTANTS Files,           \* one value for each file that is ever picked
          MaxCandidates    \* bound on the entries of a menu

Menus == {"command", "mention"}

ASSUME CandidatesAssumption == MaxCandidates \in Nat \ {0} /\ Nil \notin Menus

Draft == [blank : BOOLEAN, menu : Menus \cup {Nil}, n : 0..MaxCandidates]
Blank == [blank |-> TRUE, menu |-> Nil, n |-> 0]
Words == [Blank EXCEPT !.blank = FALSE]

\* addPendingFiles in its loop over the files of an input: those left, the one
\* that is being read first, and those it has read.
Loop == [input : {"image", "file"}, rest : Seq(Files), next : Seq(Files),
         latest : BOOLEAN]    \* its FileList is the one the input has now

ComposerState ==
  [ active : Convs, switching : BOOLEAN, status : {"idle", "sending", "failed"},
    draft : Draft, index : [Menus -> 0..MaxCandidates],   \* commandIndex, mentionIndex
    pending : Seq(Files),                                 \* pendingAttachments
    loops : SUBSET Loop, picked : SUBSET Files ]

ComposerMounted(c) ==
  Mounting("composer",
           [active |-> c, switching |-> FALSE, status |-> "idle", draft |-> Blank,
            index |-> [m \in Menus |-> 0], pending |-> <<>>, loops |-> {}, picked |-> {}],
           [posted |-> {}], EmptyBag)

-----------------------------------------------------------------------------
(* The draft and its menus.                                                 *)

\* model.composer.disabled
Disabled == page.switching \/ page.status = "sending"

\* The effects after a change of the draft: an index beyond the candidates
\* starts over.
IndexWithin(d, i) ==
  [m \in Menus |-> LET n == IF d.menu = m THEN d.n ELSE 0 IN IF i[m] >= n THEN 0 ELSE i[m]]

Written(p, d) == [p EXCEPT !.draft = d, !.index = IndexWithin(d, @)]

\* The user types or moves the caret: the text becomes blank, words, or a
\* command or a mention with its candidates.
TypeDraft(d) ==
  /\ ~Disabled
  /\ d.blank => d = Blank
  /\ (d.menu = Nil) <=> (d.n = 0)
  /\ page' = Written(page, d)
  /\ UNCHANGED <<route, server, wire>>

\* The slash is a command only where the text starts.
InsertCommandSlash ==
  /\ ~Disabled
  /\ \E menu \in {"command"} \cup (IF page.draft.blank THEN {} ELSE {Nil}) :
       page' = Written(page, [Words EXCEPT !.menu = menu,
                                           !.n = IF menu = Nil THEN 0 ELSE MaxCandidates])
  /\ UNCHANGED <<route, server, wire>>

\* ArrowDown and ArrowUp in the menu that is open.
MoveInMenu(down) ==
  /\ ~Disabled /\ page.draft.menu # Nil
  /\ LET n == page.draft.n
     IN page' = [page EXCEPT !.index[page.draft.menu] = IF down THEN (@ + 1) % n
                                                                ELSE (@ + n - 1) % n]
  /\ UNCHANGED <<route, server, wire>>

\* applyCommand and applyMention, by Enter or by a click: what they insert ends
\* in a space, which closes the menu.  A click works while the text is disabled.
PickFromMenu ==
  /\ page.draft.menu # Nil
  /\ page' = Written(page, Words)
  /\ UNCHANGED <<route, server, wire>>

\* Escape: cancelMention takes the mention out; a command stays, at its first
\* candidate.
EscapeMenu ==
  /\ ~Disabled /\ page.draft.menu # Nil
  /\ IF page.draft.menu = "command"
     THEN page' = [page EXCEPT !.index["command"] = 0]
     ELSE \E d \in {Blank, Words} : page' = Written(page, d)
  /\ UNCHANGED <<route, server, wire>>

-----------------------------------------------------------------------------
(* Attachments.                                                             *)

\* The inputs are never disabled, and a file is picked while others are read.
PickFiles(input, files) ==
  /\ files # <<>> /\ IsInjective(files) /\ ToSet(files) \cap page.picked = {}
  /\ page' = [page EXCEPT
       !.picked = @ \cup ToSet(files),
       !.loops = {[l EXCEPT !.latest = @ /\ l.input # input] : l \in @}
                   \cup {[input |-> input, rest |-> files, next |-> <<>>, latest |-> TRUE]}]
  /\ UNCHANGED <<route, server, wire>>

\* The end of a loop empties both inputs; whether that also empties the FileList
\* another loop is going through depends on the browser.
Emptied(l) == IF l.latest THEN [l EXCEPT !.rest = SubSeq(@, 1, 1), !.latest = FALSE] ELSE l
Cleared(loops) == {loops, {Emptied(l) : l \in loops}}

\* A file is read, or cannot be (too large, or an error of the reader).
FileRead(l, ok) ==
  LET rest == Tail(l.rest)
      next == IF ok THEN Append(l.next, Head(l.rest)) ELSE l.next
      others == page.loops \ {l}
  IN  /\ IF rest # <<>>
         THEN page' = [page EXCEPT !.loops = others \cup {[l EXCEPT !.rest = rest, !.next = next]}]
         ELSE \E left \in Cleared(others) : page' = [page EXCEPT !.loops = left,
                                                             !.pending = @ \o next]
      /\ UNCHANGED <<route, server, wire>>

RemovePending(i) ==
  /\ page' = [page EXCEPT !.pending = RemoveAt(@, i)]
  /\ UNCHANGED <<route, server, wire>>

-----------------------------------------------------------------------------
(* Sending.                                                                 *)

Taken(p) == [Written(p, Blank) EXCEPT !.status = "sending", !.pending = <<>>]

\* sendMessage, by the button, or by Enter while no menu is open.
SendDraft ==
  /\ ~Disabled /\ Room(1)
  /\ ~page.draft.blank \/ page.pending # <<>>
  /\ page' = Taken(page)
  /\ Ask(Joined([files |-> page.pending], Query("send")))
  /\ UNCHANGED <<route, server>>

DraftSent(r, ok) ==
  /\ r.op = "send" /\ Ends(r, ok)
  /\ page' = [page EXCEPT !.status = IF ok THEN "idle" ELSE "failed"]
  /\ wire' = Settled(r)
  /\ UNCHANGED <<route, server>>

\* A chat.status event reports that an earlier message was not delivered.
DeliveryReported ==
  /\ page.status # "failed"
  /\ page' = [page EXCEPT !.status = "failed"]
  /\ UNCHANGED <<route, server, wire>>

RetryDraft ==
  /\ page.status = "failed"
  /\ page' = [page EXCEPT !.status = "idle"]
  /\ UNCHANGED <<route, server, wire>>

\* The draft and what is pending stay.
SwitchDraft(c) ==
  /\ c # page.active /\ Room(1)
  /\ page' = [page EXCEPT !.active = c, !.switching = TRUE]
  /\ Ask(Query("messages"))
  /\ UNCHANGED <<route, server>>

DraftSwitched(r, ok) ==
  /\ r.op = "messages" /\ Ends(r, ok)
  /\ page' = [page EXCEPT !.switching = FALSE]
  /\ wire' = Settled(r)
  /\ UNCHANGED <<route, server>>

ServeComposer(r) ==
  /\ r.stage = "sent"
  /\ server' = [posted |-> IF r.op = "send" THEN server.posted \cup ToSet(r.files)
                                            ELSE server.posted]
  /\ Reply(r, Answered(r))
  /\ UNCHANGED <<route, page>>

Lists == {<<>>} \cup {<<f>> : f \in Files} \cup {<<f, g>> : f, g \in Files}

ComposerNext ==
  \/ \E d \in Draft : TypeDraft(d)
  \/ \E down \in BOOLEAN : MoveInMenu(down)
  \/ InsertCommandSlash \/ PickFromMenu \/ EscapeMenu
  \/ \E input \in {"image", "file"}, files \in Lists : PickFiles(input, files)
  \/ \E l \in page.loops, ok \in BOOLEAN : FileRead(l, ok)
  \/ \E i \in DOMAIN page.pending : RemovePending(i)
  \/ SendDraft \/ DeliveryReported \/ RetryDraft
  \/ \E c \in Convs : SwitchDraft(c)
  \/ \E r \in Open : \/ ServeComposer(r)
                     \/ \E ok \in BOOLEAN : DraftSent(r, ok) \/ DraftSwitched(r, ok)

-----------------------------------------------------------------------------
\* The places of file f: the loops that have still to read it or have read it, the
\* draft it is attached to, the messages on their way that it is part of, and the
\* messages that were posted with it.
Places(f) ==
  UNION { {<<"read", l>> : l \in {x \in page.loops : f \in ToSet(x.rest \o x.next)}},
          {<<"draft", i>> : i \in {x \in DOMAIN page.pending : page.pending[x] = f}},
          UNION {{<<"sent", r, n>> : n \in 1..Copies(r)} :
                   r \in {x \in Pending("send") : x.stage = "sent" /\ f \in ToSet(x.files)}},
          IF f \in server.posted THEN {<<"posted">>} ELSE {} }

\* A file that was picked once is attached to one message at most, and to one
\* place of it, although files are still read while the message is sent, picks
\* overlap, messages fail and conversations are switched.
AttachedOnce == route = "composer" => \A f \in Files : \A x, y \in Places(f) : x = y

\* The entry that Enter picks exists, although the candidates shrink as the user
\* types and the indices outlive the menus.
PickExists ==
  route = "composer" =>
    \A m \in Menus : page.index[m] < (IF page.draft.menu = m THEN page.draft.n ELSE 1)
=============================================================================
