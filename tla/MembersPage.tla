----------------------------- MODULE MembersPage -----------------------------
(***************************************************************************)
(* The team roster: pages/members/MembersPage.tsx with its three dialogs   *)
(* (invite a member, invite AI assistants, new team), against the roster   *)
(* and the settings of the account.                                        *)
(*                                                                         *)
(* server.members and server.teams are the roster; server.keys are the     *)
(* providers whose API key the settings hold.  "cli" is the provider the   *)
(* user invites and "other" any provider configured before.                *)
(***************************************************************************)
EXTENDS WebTab

CONSTANTS Ids,     \* member ids
          Teams,   \* team ids; the default team always exists
          DefaultTeam

ASSUME DefaultTeamAssumption == DefaultTeam \in Teams

KeyOwners == {"cli", "other"}
Dialogs == {"member", "ai", "team"}

MembersState ==
  [ list : SUBSET Ids, teams : SUBSET Teams,       \* model
    team : Teams \cup {Nil},                       \* selectedTeamId
    dialog : Dialogs \cup {"none"},                \* the modal that is open
    busy : SUBSET Dialogs,                         \* loading of each modal
    step : 1..3,                                   \* of the assistant dialog
    provider : {"none", "cli", "shell"},           \* selectedProvider
    cred : {"none", "typed", "login"},             \* apiKey, authMode
    saved : BOOLEAN,                               \* providerAuth.hasApiKey
    focus : Dialogs ]  \* bound: the one dialog the user opens in this visit

\* load: unset says that selectedTeamId was empty when the load was created;
\* batch are the members the awaiting handler has created.
Roster(handler, batch) ==
  [op |-> "roster", stage |-> "sent", handler |-> handler, batch |-> batch,
   unset |-> page.team = Nil]
FirstRoster == [op |-> "roster", stage |-> "sent", handler |-> "none",
                batch |-> {}, unset |-> TRUE]

\* The settings are read once, when the page is mounted: known says whether
\* that read has succeeded.
MembersMounted(keys, known, d) ==
  Mounting("members",
           [list |-> {}, teams |-> {}, team |-> Nil, dialog |-> "none",
            busy |-> {}, step |-> 1, provider |-> "none", cred |-> "none",
            saved |-> known /\ "cli" \in keys, focus |-> d],
           [members |-> {}, teams |-> {DefaultTeam}, keys |-> keys],
           SetToBag({FirstRoster}))

-----------------------------------------------------------------------------
(* The roster on the screen.                                                *)

\* A load that was created before a team was selected selects the first one of
\* its answer, whatever the user has selected since.
RosterLoaded(r, ok) ==
  /\ r.op = "roster" /\ Ends(r, ok)
  /\ LET shown == IF ok
                  THEN [page EXCEPT !.list = r.members, !.teams = r.teams,
                          !.team = IF r.unset THEN DefaultTeam ELSE @]
                  ELSE page
         \* the handler, when a batch that has failed reloads
         who   == IF r.handler = "aiFailed" THEN "ai" ELSE r.handler
         idle  == [shown EXCEPT !.busy = @ \ {who}]
         \* handleClose of the assistant dialog; the other two only close.
         fresh == [idle EXCEPT !.step = 1, !.provider = "none", !.cred = "none"]
     IN page' = IF ok /\ r.handler \in Dialogs
                THEN [(IF who = "ai" THEN fresh ELSE idle) EXCEPT !.dialog = "none"]
                ELSE idle
  /\ wire' = Settled(r)
  /\ UNCHANGED <<route, server>>

\* The refresh button, a new realtime status and a new selection all reload
\* (bound: one such reload is open at a time).
MembersReload ==
  /\ \A r \in Pending("roster") : r.handler # "none"
  /\ Room(1)
  /\ Ask(Roster("none", {}))
  /\ UNCHANGED <<route, page, server>>

SelectTeam(t) ==
  /\ page.dialog = "none" /\ t \in page.teams \ {page.team} /\ Room(1)
  /\ page' = [page EXCEPT !.team = t]
  /\ Ask([Roster("none", {}) EXCEPT !.unset = FALSE])
  /\ UNCHANGED <<route, server>>

OpenMembersDialog(d) ==
  /\ page.dialog = "none" /\ d = page.focus
  /\ page' = [page EXCEPT !.dialog = d]
  /\ UNCHANGED <<route, server, wire>>

\* Cancel is disabled while a dialog waits, but Escape closes it all the same;
\* the assistant dialog forgets its form.
CancelMembersDialog ==
  /\ page.dialog # "none"
  /\ page' = [page EXCEPT !.dialog = "none", !.step = 1,
                          !.provider = "none", !.cred = "none"]
  /\ UNCHANGED <<route, server, wire>>

-----------------------------------------------------------------------------
(* One member, one team.                                                    *)

CreateMember(kind, ids) ==
  [op |-> "createMember", stage |-> "sent", kind |-> kind,
   who |-> Head(ids), rest |-> Tail(ids), batch |-> ToSet(ids)]

InviteMember(m) ==
  /\ page.dialog = "member" /\ "member" \notin page.busy
  /\ m \notin page.list /\ Room(1)
  /\ page' = [page EXCEPT !.busy = @ \cup {"member"}]
  /\ Ask(CreateMember("member", <<m>>))
  /\ UNCHANGED <<route, server>>

NewTeam(t) ==
  /\ page.dialog = "team" /\ "team" \notin page.busy
  /\ t \notin page.teams /\ Room(1)
  /\ page' = [page EXCEPT !.busy = @ \cup {"team"}]
  /\ Ask([op |-> "createTeam", stage |-> "sent", who |-> t])
  /\ UNCHANGED <<route, server>>

\* The new team is selected before the roster that holds it is loaded.
TeamCreated(r, ok) ==
  /\ r.op = "createTeam" /\ Ends(r, ok)
  /\ IF ok THEN /\ page' = [page EXCEPT !.team = r.who]
                /\ wire' = BagAdd(Settled(r), Roster("team", {}))
           ELSE /\ page' = [page EXCEPT !.busy = @ \ {"team"}]
                /\ wire' = Settled(r)
  /\ UNCHANGED <<route, server>>

-----------------------------------------------------------------------------
(* The assistants: three steps, the key, then one member after another.     *)

NeedsAuth == page.provider = "cli" /\ page.cred = "none" /\ ~page.saved

SelectProvider(p) ==
  /\ page.dialog = "ai" /\ page.step = 1
  /\ page' = [page EXCEPT !.provider = p, !.cred = "none"]
  /\ UNCHANGED <<route, server, wire>>

TypeCredential(c) ==
  /\ page.dialog = "ai" /\ page.step = 2 /\ page.provider = "cli"
  /\ page' = [page EXCEPT !.cred = c]
  /\ UNCHANGED <<route, server, wire>>

NextStep ==
  /\ page.dialog = "ai" /\ page.step < 3
  /\ page.provider # "none" /\ (page.step = 2 => ~NeedsAuth)
  /\ page' = [page EXCEPT !.step = @ + 1]
  /\ UNCHANGED <<route, server, wire>>

\* Mutant: the first step has a step before it.
StepBack ==
  /\ page.dialog = "ai"
  /\ page' = [page EXCEPT !.step = @ - 1]
  /\ UNCHANGED <<route, server, wire>>

PreviousStep ==
  /\ page.dialog = "ai" /\ page.step > 1
  /\ page' = [page EXCEPT !.step = @ - 1]
  /\ UNCHANGED <<route, server, wire>>

\* buildUniqueAgentIdentities: distinct ids that the list shown does not hold
\* (bound: a batch takes all that are left of Ids, in any order).
FreshBatches ==
  {s \in SeqOf(Ids \ page.list, Cardinality(Ids)) :
     s # <<>> /\ IsInjective(s) /\ ToSet(s) = Ids \ page.list}

CreateOffered == /\ page.dialog = "ai" /\ page.step = 3
                 /\ ~NeedsAuth /\ "ai" \notin page.busy

\* With a provider that signs in, the settings are read first.
CreateAssistants(ids) ==
  /\ CreateOffered /\ ids \in FreshBatches /\ Room(1)
  /\ page' = [page EXCEPT !.busy = @ \cup {"ai"}]
  /\ Ask(IF page.provider = "shell" THEN CreateMember("ai", ids)
         ELSE [op |-> "getSettings", stage |-> "sent", ids |-> ids,
               cred |-> page.cred])
  /\ UNCHANGED <<route, server>>

\* Settings that cannot be read are taken to be empty.
SettingsRead(r, ok) ==
  /\ r.op = "getSettings" /\ Ends(r, ok)
  /\ wire' = BagAdd(Settled(r),
               [op |-> "putSettings", stage |-> "sent", ids |-> r.ids,
                cred |-> r.cred, base |-> IF ok THEN r.base ELSE {}])
  /\ UNCHANGED <<route, page, server>>

SettingsPut(r, ok) ==
  /\ r.op = "putSettings" /\ Ends(r, ok)
  /\ IF ok THEN /\ page' = [page EXCEPT !.saved = @ \/ r.cred = "typed"]
                /\ wire' = BagAdd(Settled(r), CreateMember("ai", r.ids))
           ELSE /\ page' = [page EXCEPT !.busy = @ \ {"ai"}]
                /\ wire' = Settled(r)
  /\ UNCHANGED <<route, server>>

\* Mutant: the loop goes on after a member that failed.
MemberTried(r, ok) ==
  /\ r.op = "createMember" /\ Ends(r, ok)
  /\ wire' = BagAdd(Settled(r),
                    IF r.rest # <<>> THEN [r EXCEPT !.stage = "sent", !.who = Head(r.rest),
                                                    !.rest = Tail(@)]
                    ELSE Roster(r.kind, r.batch))
  /\ UNCHANGED <<route, page, server>>

\* The first member that fails ends the loop; the roster is loaded either way.
MemberCreated(r, ok) ==
  /\ r.op = "createMember" /\ Ends(r, ok)
  /\ \/ /\ ok /\ r.rest # <<>>
        /\ wire' = BagAdd(Settled(r), [r EXCEPT !.stage = "sent",
                                !.who = Head(r.rest), !.rest = Tail(@)])
        /\ UNCHANGED page
     \/ /\ ok /\ r.rest = <<>>
        /\ wire' = BagAdd(Settled(r), Roster(r.kind, r.batch))
        /\ UNCHANGED page
     \/ /\ ~ok /\ r.kind = "ai"
        /\ wire' = BagAdd(Settled(r), Roster("aiFailed", {}))
        /\ UNCHANGED page
     \/ /\ ~ok /\ r.kind = "member"
        /\ wire' = Settled(r)
        /\ page' = [page EXCEPT !.busy = @ \ {"member"}]
  /\ UNCHANGED <<route, server>>

-----------------------------------------------------------------------------
(* The backend.                                                             *)

\* PUT settings replaces them (base: the other providers it names); a provider in
\* api_key mode without a key keeps the key it had.
MergedKeys(r) ==
  (server.keys \cap r.base) \cup
  (IF r.cred = "typed" \/ (r.cred = "none" /\ "cli" \in server.keys)
   THEN {"cli"} ELSE {})

ServeMembers(r) ==
  /\ r.stage = "sent"
  /\ \/ /\ r.op = "roster"
        /\ Reply(r, AnsweredWith(r, [members |-> server.members, teams |-> server.teams]))
        /\ UNCHANGED server
     \/ /\ r.op = "createMember" /\ r.who \notin server.members
        /\ server' = [server EXCEPT !.members = @ \cup {r.who}]
        /\ Reply(r, Answered(r))
     \/ /\ r.op = "createTeam" /\ r.who \notin server.teams
        /\ server' = [server EXCEPT !.teams = @ \cup {r.who}]
        /\ Reply(r, Answered(r))
     \/ /\ r.op = "getSettings"
        /\ Reply(r, AnsweredWith(r, [base |-> server.keys \ {"cli"}]))
        /\ UNCHANGED server
     \/ /\ r.op = "putSettings"
        /\ server' = [server EXCEPT !.keys = MergedKeys(r)]
        /\ Reply(r, Answered(r))
  /\ UNCHANGED <<route, page>>

MembersAnswer(r) ==
  \E ok \in BOOLEAN : \/ RosterLoaded(r, ok) \/ TeamCreated(r, ok)
                      \/ SettingsRead(r, ok) \/ SettingsPut(r, ok)
                      \/ MemberCreated(r, ok)

MembersNext ==
  \/ MembersReload \/ CancelMembersDialog
  \/ NextStep \/ PreviousStep
  \/ \E t \in Teams : SelectTeam(t) \/ NewTeam(t)
  \/ \E d \in Dialogs : OpenMembersDialog(d)
  \/ \E m \in Ids : InviteMember(m)
  \/ \E p \in {"cli", "shell"} : SelectProvider(p)
  \/ \E c \in {"typed", "login"} : TypeCredential(c)
  \/ \E ids \in FreshBatches : CreateAssistants(ids)
  \/ \E r \in Open : ServeMembers(r) \/ MembersAnswer(r)

-----------------------------------------------------------------------------
\* The open requests that work for dialog d.
WorkFor(d) ==
  {r \in Open : CASE r.op = "createMember" -> r.kind = d
                  [] r.op = "createTeam" -> d = "team"
                  [] r.op = "roster" ->
                       r.handler = d \/ (d = "ai" /\ r.handler = "aiFailed")
                  [] OTHER -> d = "ai"}

\* A dialog shows that it works while, and only while, a request works for it:
\* also for the assistant dialog, which can be cancelled and used again while
\* the first batch is still being created.
MembersBusyMeansWaiting == \A d \in Dialogs : d \in page.busy <=> WorkFor(d) # {}

\* One batch, one invitation and one team are created at a time.
MembersNoDoubleSubmit ==
  \A d \in Dialogs : OneAtMost(WorkFor(d))

\* The notice "assistants added" is only on its way when every assistant of the
\* batch is in the roster: a batch that broke off in the middle reports a failure.
InviteComplete ==
  route = "members" =>
    \A r \in Pending("roster") : r.batch \subseteq server.members
=============================================================================
