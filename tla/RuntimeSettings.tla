-------------------------- MODULE RuntimeSettings --------------------------
(***************************************************************************)
(* The runtime settings: the repository that keeps them under one revision *)
(* (server/internal/settings), the requests that read and update them      *)
(* (server/internal/httpapi/admin_governance.go) and the page that edits   *)
(* them a section at a time (web/src/routes/settings).  One administrator  *)
(* is followed from read to save, others save in between.                  *)
(*                                                                         *)
(* A value is the number of the edit that made it, so two values are equal *)
(* only when they come from the same edit.                                 *)
(***************************************************************************)
EXTENDS Naturals

CONSTANTS
  Watched,    \* the settings followed, a few of the nine
  Unset,       \* absence of a value
  MaxEdits,   \* edits of anyone in a behaviour
  MaxSaves,   \* saves sent by the page in a behaviour
  MaxStays    \* times the page is opened in a behaviour

(* SECTION_KEYS *)
SECTION_KEYS ==
  [security   |-> {"session_absolute_hours", "session_idle_minutes"},
   retention  |-> {"usage_retention_months", "audit_retention_days",
                   "webhook_delivery_retention_days", "outbox_event_retention_days"},
   apiClients |-> {"api_client_default_rpm", "api_client_default_ttl_days"},
   console    |-> {"default_locale"}]

Sections == DOMAIN SECTION_KEYS

ASSUME WatchedAssumption == Watched \subseteq UNION {SECTION_KEYS[s] : s \in Sections}
ASSUME SettingsBoundsAssumption == MaxEdits \in Nat /\ MaxSaves \in Nat /\ MaxStays \in Nat
ASSUME UnsetAssumption ==
  Unset \notin Nat \cup [revision : Nat, values : [Watched -> Nat], marked : BOOLEAN]

VARIABLES
  revision,   \* admin_settings_revision.version
  value,      \* admin_settings: the value of each setting
  snapshot,   \* the cached answer: Unset, or revision, values and whether it is marked
  reading,    \* the query in flight, and what the server has read for it
  draft,      \* the values being edited, Unset before the first edit
  saves,      \* the page's saves: Unset, or what was sent and how far it came
  inSettings, \* whether the page is open
  stay,       \* which life of the page
  edits,      \* edits so far
  seen,       \* ghost: the settings and values the tab was ever answered
  shown       \* ghost: the settings and values the page ever displayed

settingsVars ==
  <<revision, value, snapshot, reading, draft, saves, inSettings, stay, edits, seen, shown>>

----------------------------------------------------------------------------
NotReading == [at |-> "idle", revision |-> 0, values |-> [k \in Watched |-> 0]]
Asked      == [NotReading EXCEPT !.at = "sent"]
Saves      == 1..MaxSaves
Sending    == {n \in Saves : saves[n] # Unset}

KeysOf(section) == SECTION_KEYS[section] \cap Watched
Pairs(values)   == {<<k, values[k]>> : k \in Watched}

(* values: the draft, else what was loaded. *)
Displayed == IF draft # Unset THEN draft ELSE snapshot.values

(* savingSection: one save of this life of the page is not over yet. *)
Saving ==
  \E n \in Sending : saves[n].stay = stay /\ saves[n].client \in {"waiting", "refetching"}

SettingsInit ==
  /\ revision = 1 /\ value = [k \in Watched |-> 0]
  /\ snapshot = Unset /\ reading = NotReading /\ draft = Unset
  /\ saves = [n \in Saves |-> Unset]
  /\ inSettings = FALSE /\ stay = 0 /\ edits = 0
  /\ seen = {} /\ shown = {}

----------------------------------------------------------------------------
(* The server *)

(* Mutant: the values are read before the revision. *)
valuesBeforeRevision ==
  IF reading.at = "sent"
  THEN [reading EXCEPT !.at = "half", !.values = value]
  ELSE [reading EXCEPT !.at = "read", !.revision = revision]

(* Two statements, no transaction around them: the revision, then the values. *)
readSnapshot ==
  IF reading.at = "sent"
  THEN [reading EXCEPT !.at = "half", !.revision = revision]
  ELSE [reading EXCEPT !.at = "read", !.values = value]

GetSettings ==
  /\ reading.at \in {"sent", "half"}
  /\ reading' = readSnapshot
  /\ UNCHANGED <<revision, value, snapshot, draft, saves, inSettings, stay, edits>>

(* The revision is locked and compared with If-Match; an update writes what  *)
(* it was given and answers with every value.                                *)
UpdateSettings(n) ==
  LET save == saves[n]
      written == [k \in Watched |-> IF k \in KeysOf(save.section) THEN save.values[k] ELSE value[k]]
  IN
  /\ n \in Sending /\ save.server = "sent"
  /\ IF save.revision = revision
     THEN /\ revision' = revision + 1 /\ value' = written
          /\ saves' = [saves EXCEPT ![n].server = "accepted", ![n].revision = revision + 1,
                                    ![n].values = written]
     ELSE /\ saves' = [saves EXCEPT ![n].server = "refused"]
          /\ UNCHANGED <<revision, value>>
  /\ UNCHANGED <<snapshot, reading, draft, inSettings, stay, edits>>

(* Invalid together with the other values, or a statement or the audit       *)
(* entry failed: nothing is written.                                         *)
RefuseSettings(n) ==
  /\ n \in Sending /\ saves[n].server = "sent"
  /\ saves' = [saves EXCEPT ![n].server = "refused"]
  /\ UNCHANGED <<revision, value, snapshot, reading, draft, inSettings, stay, edits>>

OtherAdminSaves(k) ==
  /\ edits < MaxEdits /\ edits' = edits + 1
  /\ revision' = revision + 1 /\ value' = [value EXCEPT ![k] = edits + 1]
  /\ UNCHANGED <<snapshot, reading, draft, saves, inSettings, stay>>

----------------------------------------------------------------------------
(* The query of the page *)
OpenSettings ==
  /\ ~inSettings /\ stay < MaxStays
  /\ inSettings' = TRUE /\ stay' = stay + 1
  /\ reading' = IF snapshot # Unset => snapshot.marked THEN Asked ELSE NotReading
  /\ UNCHANGED <<revision, value, snapshot, draft, saves, edits>>

LeaveSettings ==
  /\ inSettings
  /\ inSettings' = FALSE /\ draft' = Unset /\ reading' = NotReading
  /\ UNCHANGED <<revision, value, snapshot, saves, stay, edits>>

SettingsAnswered ==
  /\ reading.at = "read"
  /\ snapshot' = [revision |-> reading.revision, values |-> reading.values, marked |-> FALSE]
  /\ reading' = NotReading
  /\ UNCHANGED <<revision, value, draft, saves, inSettings, stay, edits>>

ReadingFails ==
  /\ reading.at # "idle"
  /\ reading' = NotReading
  /\ UNCHANGED <<revision, value, snapshot, draft, saves, inSettings, stay, edits>>

(* The answer is older than staleTime and the page is opened, or the window  *)
(* gets the focus.                                                           *)
SettingsRefetch ==
  /\ inSettings /\ snapshot # Unset /\ reading.at = "idle"
  /\ reading' = Asked
  /\ UNCHANGED <<revision, value, snapshot, draft, saves, inSettings, stay, edits>>

----------------------------------------------------------------------------
(* The form *)

(* The first edit copies every value displayed into the draft. *)
EditSetting(k) ==
  /\ inSettings /\ snapshot # Unset /\ edits < MaxEdits
  /\ edits' = edits + 1 /\ draft' = [Displayed EXCEPT ![k] = edits + 1]
  /\ UNCHANGED <<revision, value, snapshot, reading, saves, inSettings, stay>>

(* Every setting of the section is sent as displayed, with the revision of   *)
(* the answer cached by now.                                                 *)
saveSection(n, section) ==
  /\ inSettings /\ snapshot # Unset /\ ~Saving /\ KeysOf(section) # {}
  /\ n \notin Sending /\ \A m \in 1..(n - 1) : m \in Sending
  /\ saves' = [saves EXCEPT ![n] =
       [section |-> section, values |-> Displayed, revision |-> snapshot.revision, stay |-> stay,
        server |-> "sent", client |-> "waiting"]]
  /\ UNCHANGED <<revision, value, snapshot, reading, draft, inSettings, stay, edits>>

(* setQueryData; the section's part of the draft becomes what was saved. *)
SaveAnswered(n) ==
  /\ n \in Sending /\ saves[n].client = "waiting" /\ saves[n].server = "accepted"
  /\ saves' = [saves EXCEPT ![n].client = "done"]
  /\ snapshot' = [revision |-> saves[n].revision, values |-> saves[n].values, marked |-> FALSE]
  /\ draft' = IF draft = Unset \/ saves[n].stay # stay THEN draft
              ELSE [k \in Watched |-> IF k \in KeysOf(saves[n].section) THEN saves[n].values[k]
                                      ELSE draft[k]]
  /\ UNCHANGED <<revision, value, reading, inSettings, stay, edits>>

(* A conflict, a refusal or a lost answer: the query is marked, and fetched  *)
(* again if the page is open.  The draft stays as it is.                     *)
SaveFails(n) ==
  /\ n \in Sending /\ saves[n].client = "waiting"
  /\ saves' = [saves EXCEPT ![n].client = "refetching"]
  /\ snapshot' = [snapshot EXCEPT !.marked = TRUE]
  /\ reading' = IF inSettings THEN Asked ELSE reading
  /\ UNCHANGED <<revision, value, draft, inSettings, stay, edits>>

SaveSettles(n) ==
  /\ n \in Sending /\ saves[n].client = "refetching" /\ reading.at = "idle"
  /\ saves' = [saves EXCEPT ![n].client = "done"]
  /\ UNCHANGED <<revision, value, snapshot, reading, draft, inSettings, stay, edits>>

----------------------------------------------------------------------------
(* What the tab has been answered, and what the page displays after a step. *)
Witness ==
  /\ seen' = IF snapshot' = Unset THEN seen ELSE seen \cup Pairs(snapshot'.values)
  /\ shown' = IF inSettings' /\ snapshot' # Unset THEN shown \cup Pairs(Displayed') ELSE shown

SettingsNext ==
  /\ \/ GetSettings \/ OpenSettings \/ LeaveSettings \/ SettingsAnswered \/ ReadingFails \/ SettingsRefetch
     \/ \E k \in Watched : OtherAdminSaves(k) \/ EditSetting(k)
     \/ \E n \in Saves : \/ UpdateSettings(n) \/ RefuseSettings(n) \/ SaveAnswered(n)
                         \/ SaveFails(n) \/ SaveSettles(n)
                         \/ \E section \in Sections : saveSection(n, section)
  /\ Witness

SettingsSpec == SettingsInit /\ [][SettingsNext]_settingsVars

----------------------------------------------------------------------------
(* A save of the page is accepted, and what it replaces on the server. *)
Accepted == \E n \in Sending : saves[n].server = "sent" /\ saves'[n].server = "accepted"
Replaced == {<<k, value[k]>> : k \in {j \in Watched : value'[j] # value[j]}}

(* An accepted save replaces only values the tab had been answered: the      *)
(* revision it sends stands for the values that came with it, although the   *)
(* server reads the two with separate statements and others save in between. *)
UnseenStep == Accepted => Replaced \subseteq seen
NoUnseenOverwrite == [][UnseenStep]_settingsVars

(* "Alterações concorrentes não são sobrescritas silenciosamente": an        *)
(* accepted save replaces only values the page displayed to the user.        *)
SilentStep == Accepted => Replaced \subseteq shown
NoSilentOverwrite == [][SilentStep]_settingsVars
=============================================================================
