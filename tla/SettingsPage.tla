---------------------------- MODULE SettingsPage ----------------------------
(***************************************************************************)
(* The settings of one member (pages/settings/SettingsPage.tsx with the    *)
(* sections of features/settings) and what handlers/settings.go makes of   *)
(* them.                                                                   *)
(*                                                                         *)
(* The settings are a value for every section and a credential for every  *)
(* provider: absent, or empty or key, without and with a key in mode       *)
(* api_key, or other or spare, without and with one in another mode.  The  *)
(* keys never come back from the backend, only whether there is one.       *)
(* Theme, language, shortcuts, the figures of the diagnosis and the other  *)
(* tabs of the member are left out.                                        *)
(***************************************************************************)
EXTENDS WebTab

CONSTANTS Sections,     \* the profile, the notification preferences
          Values,       \* their contents, among them Default
          Default,      \* what Get answers, and a section shows, at first
          Omitted,      \* what a section becomes that a save does not send
          Providers,
          MaxSaves      \* saves of one mount (the bound of the model)

Credentials == {"absent", "empty", "key", "other", "spare"}
Settings == [values : [Sections -> Values], auth : [Providers -> Credentials]]
Untouched == [values |-> [s \in Sections |-> Default], auth |-> [p \in Providers |-> "absent"]]

ASSUME SettingsAssumption ==
  /\ Default \in Values /\ Omitted \in [Sections -> Values]
  /\ Nil \notin Settings /\ MaxSaves \in Nat

SettingsState ==
  [ known : Settings \cup {Nil},                   \* backendSettings
    draft : [Sections -> Values], dirty : SUBSET Sections,
    diagnosing : BOOLEAN,                          \* diagRunning
    saves : 0..MaxSaves ]                          \* made since the mount

SettingsMounted(stored) ==
  Mounting("settings",
           [known |-> Nil, draft |-> Untouched.values, dirty |-> {}, diagnosing |-> TRUE,
            saves |-> 0],
           stored, SetToBag({Query("get"), Query("diagnose")}))

\* The effects of the sections: one that is not dirty shows what is known.
ShownValue(p) ==
  [p EXCEPT !.draft = [s \in Sections |-> IF s \in p.dirty THEN p.draft[s]
                                          ELSE IF p.known = Nil THEN Default
                                          ELSE p.known.values[s]]]

-----------------------------------------------------------------------------
EditSection(s, v) ==
  /\ page' = [page EXCEPT !.draft[s] = v, !.dirty = @ \cup {s}]
  /\ UNCHANGED <<route, server, wire>>

\* saveSettings: all that is known, as it was when the handler was made, and the
\* patch over it, which is of a section or a provider.  Nobody waits for the answer
\* before the next save.  current says that nothing else was stored since it became
\* known.
Put(of, values, auth) ==
  [op |-> "put", stage |-> "sent", of |-> of, current |-> page.known = server,
   values |-> values, auth |-> auth]
MaySave == page.saves < MaxSaves /\ Room(1)
KnownValues == IF page.known = Nil THEN <<>> ELSE page.known.values

\* What is sent of a credential: nothing, or its mode, with or without a key.
Forms == {"untyped", "typed", "other", "otherTyped"}
Resent(c) == CASE c = "absent" -> "absent"
               [] c \in {"empty", "key"} -> "untyped"
               [] c \in {"other", "spare"} -> "other"
KnownAuth == IF page.known = Nil THEN Untouched.auth
             ELSE [p \in Providers |-> Resent(page.known.auth[p])]

SaveSection(s) ==
  /\ s \in page.dirty /\ MaySave
  /\ page' = ShownValue([page EXCEPT !.dirty = @ \ {s}, !.saves = @ + 1])
  /\ Ask(Put(s, With(KnownValues, s, page.draft[s]), KnownAuth))
  /\ UNCHANGED <<route, server>>

\* updateProviderAuth: form is what the row of provider p holds.
SaveProvider(p, form) ==
  /\ MaySave
  /\ page' = [page EXCEPT !.saves = @ + 1]
  /\ Ask(Put(p, KnownValues, [KnownAuth EXCEPT ![p] = form]))
  /\ UNCHANGED <<route, server>>

Diagnose ==
  /\ ~page.diagnosing /\ Room(1)
  /\ page' = [page EXCEPT !.diagnosing = TRUE]
  /\ Ask(Query("diagnose"))
  /\ UNCHANGED <<route, server>>

-----------------------------------------------------------------------------
Diagnosed(r) ==
  /\ r.op = "diagnose"
  /\ page' = [page EXCEPT !.diagnosing = FALSE]
  /\ wire' = Settled(r)
  /\ UNCHANGED <<route, server>>

\* The answers of get and of put, whichever comes last.
SettingsArrive(r, ok) ==
  /\ r.op \in {"get", "put"} /\ Ends(r, ok)
  /\ page' = IF ok THEN ShownValue([page EXCEPT !.known = r.settings]) ELSE page
  /\ wire' = Settled(r)
  /\ UNCHANGED <<route, server>>

-----------------------------------------------------------------------------
\* Mutant: a credential that comes without its key is stored without it.
MergedBlindly(stored, sent) ==
  CASE sent = "typed" -> "key"
    [] sent = "untyped" -> "empty"
    [] sent = "otherTyped" -> "spare"
    [] OTHER -> sent

\* mergeProviderAuth for one provider.
Merged(stored, sent) ==
  CASE sent = "typed" -> "key"
    [] sent = "untyped" -> IF stored \in {"key", "spare"} THEN "key" ELSE "empty"
    [] sent = "otherTyped" -> "spare"
    [] OTHER -> sent

\* What HandleUpdate makes of a body and what it has read: the body replaces it all,
\* what it does not send becoming zero, but for credentials: their keys, and all of
\* them if the body has no providerAuth.
SettingsAfter(r) ==
  [ values |-> Joined(r.values, Omitted),
    auth   |-> IF r.auth = Untouched.auth THEN server.auth
               ELSE [p \in Providers |-> Merged(server.auth[p], r.auth[p])] ]

\* The saves made from what is stored now.
Fresh == {x \in Pending("put") : x.current}

ServeSettings(r) ==
  /\ r.stage = "sent"
  /\ \/ r.op = "get" /\ Reply(r, AnsweredWith(r, [settings |-> server])) /\ UNCHANGED server
     \/ /\ r.op = "put" /\ UNCHANGED server
        /\ Reply(r, [op |-> "put", stage |-> "read", of |-> r.of, current |-> r.current,
                     settings |-> SettingsAfter(r)])
     \/ r.op = "diagnose" /\ Reply(r, Answered(r)) /\ UNCHANGED server
  /\ UNCHANGED <<route, page>>

\* Update, under a lock of its own: others may have written since Get.
WriteSettings(r) ==
  /\ r.op = "put" /\ r.stage = "read"
  /\ server' = r.settings
  /\ wire' = BagAdd(Become(Settled(r), [x \in Fresh |-> [x EXCEPT !.current = FALSE]]),
                    [op |-> "put", stage |-> "ok", settings |-> r.settings, current |-> FALSE])
  /\ UNCHANGED <<route, page>>

SettingsNext ==
  \/ \E s \in Sections : SaveSection(s) \/ \E v \in Values : EditSection(s, v)
  \/ \E p \in Providers, f \in Forms : SaveProvider(p, f)
  \/ Diagnose
  \/ \E r \in Open : \/ ServeSettings(r) \/ WriteSettings(r) \/ Diagnosed(r)
                     \/ \E ok \in BOOLEAN : SettingsArrive(r, ok)

-----------------------------------------------------------------------------
\* "Running..." is shown only while a diagnosis is.
SettingsBusyMeansWaiting == page.diagnosing => Pending("diagnose") # {}

\* A save that was made from what the backend still has changes what it was made
\* to change and nothing else: it stores every other section as it is, and every
\* other provider with its mode and its key, although the keys are never known to
\* the page, and a body replaces the whole document.  Only a key that is kept
\* below another mode is dropped with it.
SaveChangesItsOwn ==
  route = "settings" =>
    \A r \in Fresh :
      r.stage = "read" =>
        /\ \A s \in Sections \ {r.of} : r.settings.values[s] = server.values[s]
        /\ \A p \in Providers \ {r.of} :
             \/ r.settings.auth[p] = server.auth[p]
             \/ r.settings.auth[p] = "other" /\ server.auth[p] = "spare"
=============================================================================
