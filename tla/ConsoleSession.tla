--------------------------- MODULE ConsoleSession ---------------------------
(***************************************************************************)
(* Who the console acts for: the shell (components/app-shell.tsx), the     *)
(* token and the session it sends (lib/api.ts), and what a change of       *)
(* either does to the query cache (lib/query-client.ts) and to revealed    *)
(* values (lib/use-transient-resource-reveal.ts).  Other tabs of the       *)
(* browser share the stored token; what they write reaches this tab later, *)
(* as a storage event.                                                     *)
(***************************************************************************)
EXTENDS Naturals, Sequences

CONSTANTS
  Credentials,   \* tokens, or server sessions
  NoOne,         \* no credential
  NoRequest,          \* no request
  MaxChanges     \* writes of other tabs and sign-ins of this one in a behaviour

ASSUME CredentialAssumption == NoOne \notin Credentials /\ NoRequest \notin Credentials \cup {NoOne}
ASSUME ChangesAssumption == MaxChanges \in Nat

VARIABLES
  authMode,   \* authConfig.mode of the server: "oidc" or "legacy_shared_token"
  stored,     \* the token in localStorage, which every tab shares
  cookie,     \* the session the browser's cookie stands for
  current,    \* currentAdminSession of lib/api.ts
  shell,      \* state of AppShell: config, session, hasToken and the remount timer
  storage,    \* storage events on their way to this tab: the keys written
  answers,    \* the credential the cached answers were asked with, or NoOne
  asked,      \* the credential of the query in flight, NoRequest if there is none
  sending,    \* the credential of the write in flight, NoRequest if there is none
  secret,     \* revealed values: none, asked or shown, and for which credential
  opened,     \* ghost: the credential the mounted page was opened with
  changes     \* bound: sign-ins and writes of other tabs so far

sessionVars == <<authMode, stored, cookie, current, shell, storage, answers, asked, sending,
                 secret, opened, changes>>

----------------------------------------------------------------------------
NoSecret == [at |-> "hidden", by |-> NoOne]
Started(token) ==
  [config |-> "loading", session |-> NoOne, hasToken |-> token # NoOne, timer |-> FALSE]

(* What a request carries: the session if there is one, else the token. *)
Credential == IF current # NoOne THEN current ELSE stored

(* What the shell shows: one of four screens, or the page.  With OIDC the    *)
(* sign-in is offered as soon as the configuration is there.                 *)
UnavailableScreen(s) == s.config = "error"
LoadingScreen(s)     == s.config = "loading"
OIDCAccessScreen(s)  == authMode = "oidc" /\ s.config \in {"session", "ready"} /\ s.session = NoOne
AdminAccessScreen(s) == authMode = "legacy_shared_token" /\ s.config = "ready" /\ ~s.hasToken
IsOpen(s) ==
  ~(UnavailableScreen(s) \/ LoadingScreen(s) \/ OIDCAccessScreen(s) \/ AdminAccessScreen(s))
PageOpen == IsOpen(shell)

(* The shell becomes s: a page that is not mounted any more takes its query  *)
(* and its revealed values with it; one that is mounted anew belongs to the  *)
(* credential of that moment.                                                *)
Becomes(s, credential) ==
  /\ shell' = s
  /\ opened' = IF ~IsOpen(s) THEN NoOne ELSE IF PageOpen THEN opened ELSE credential

(* Mutant: the query in flight is left to answer. *)
clearAnswersOnly == answers' = NoOne /\ asked' = asked

(* clearCache: every query cancelled, reset and dropped. *)
clearCache == answers' = NoOne /\ asked' = NoRequest

(* Mutant: the timer of an earlier event is left to fire. *)
syncWithoutClearTimeout(s, token) ==
  [s EXCEPT !.hasToken = FALSE, !.timer = s.timer \/ token # NoOne]

(* syncAdminTokenState: close, and open again in a later task if a token is  *)
(* stored.  The timer of an earlier event is cleared.                        *)
syncAdminTokenState(s, token) == [s EXCEPT !.hasToken = FALSE, !.timer = token # NoOne]

(* The document is loaded again: everything but the browser's storage and    *)
(* cookies starts anew.                                                      *)
ReloadTab(token) ==
  /\ shell' = Started(token) /\ current' = NoOne /\ opened' = NoOne
  /\ storage' = <<>> /\ sending' = NoRequest /\ secret' = NoSecret
  /\ clearCache

SessionInit ==
  /\ authMode \in {"oidc", "legacy_shared_token"}
  /\ stored \in Credentials \cup {NoOne}
  /\ cookie \in IF authMode = "oidc" THEN Credentials \cup {NoOne} ELSE {NoOne}
  /\ current = NoOne /\ shell = Started(stored)
  /\ storage = <<>> /\ answers = NoOne /\ asked = NoRequest /\ sending = NoRequest
  /\ secret = NoSecret /\ opened = NoOne /\ changes = 0

----------------------------------------------------------------------------
(* Loading: loadAuthentication *)

(* The configuration arrives.  With OIDC a stored token is dropped first. *)
ConfigLoaded ==
  /\ LoadingScreen(shell)
  /\ IF authMode = "oidc"
     THEN /\ stored' = NoOne /\ clearCache
          /\ Becomes([syncAdminTokenState(shell, NoOne) EXCEPT !.config = "session"], NoOne)
     ELSE /\ Becomes([shell EXCEPT !.config = "ready"], stored)
          /\ UNCHANGED <<stored, answers, asked>>
  /\ UNCHANGED <<authMode, cookie, current, storage, sending, secret, changes>>

(* fetchAdminSession: the cookie's session, or none (401). *)
SessionLoaded ==
  /\ shell.config = "session"
  /\ current' = cookie /\ clearCache
  /\ Becomes([shell EXCEPT !.config = "ready", !.session = cookie], cookie)
  /\ UNCHANGED <<authMode, stored, cookie, storage, sending, secret, changes>>

LoadFails ==
  /\ shell.config \in {"loading", "session"}
  /\ Becomes([shell EXCEPT !.config = "error"], NoOne)
  /\ UNCHANGED <<authMode, stored, cookie, current, storage, answers, asked, sending, secret, changes>>

(* The button of the screen that says the service is unavailable. *)
Retry ==
  /\ UnavailableScreen(shell)
  /\ ReloadTab(stored)
  /\ UNCHANGED <<authMode, stored, cookie, changes>>

----------------------------------------------------------------------------
(* Requests *)
StartQuery ==
  /\ PageOpen /\ asked = NoRequest
  /\ asked' = Credential
  /\ UNCHANGED <<authMode, stored, cookie, current, shell, storage, answers, sending, secret,
                 opened, changes>>

QueryAnswered ==
  /\ asked \in Credentials
  /\ answers' = asked /\ asked' = NoRequest
  /\ UNCHANGED <<authMode, stored, cookie, current, shell, storage, sending, secret, opened, changes>>

StartWrite ==
  /\ PageOpen /\ sending = NoRequest
  /\ sending' = Credential
  /\ UNCHANGED <<authMode, stored, cookie, current, shell, storage, answers, asked, secret,
                 opened, changes>>

WriteAnswered ==
  /\ sending \in Credentials
  /\ sending' = NoRequest
  /\ UNCHANGED <<authMode, stored, cookie, current, shell, storage, answers, asked, secret,
                 opened, changes>>

(* show and its answer, kept only if the token is the one it was asked with. *)
AskSecret ==
  /\ PageOpen /\ secret.at = "hidden"
  /\ secret' = [at |-> "asked", by |-> Credential]
  /\ UNCHANGED <<authMode, stored, cookie, current, shell, storage, answers, asked, sending,
                 opened, changes>>

SecretAnswered ==
  /\ secret.at = "asked" /\ secret.by # NoOne
  /\ secret' = IF authMode = "oidc" \/ stored = secret.by
               THEN [secret EXCEPT !.at = "shown"] ELSE NoSecret
  /\ UNCHANGED <<authMode, stored, cookie, current, shell, storage, answers, asked, sending,
                 opened, changes>>

(* A 401, for a query, a revelation or a write: req drops the session, the   *)
(* shell signs out.  With a shared token showAdminAuth clears the stored     *)
(* token, whichever it is by then.                                           *)
SignOut ==
  /\ clearCache /\ secret' = NoSecret
  /\ IF authMode = "oidc"
     THEN /\ current' = NoOne
          /\ Becomes([shell EXCEPT !.session = NoOne], NoOne)
          /\ UNCHANGED stored
     ELSE /\ stored' = NoOne
          /\ Becomes(syncAdminTokenState(shell, NoOne), NoOne)
          /\ UNCHANGED current

Unauthorized ==
  /\ \/ (asked # NoRequest \/ secret.at = "asked") /\ UNCHANGED sending
     \/ sending # NoRequest /\ sending' = NoRequest
  /\ SignOut
  /\ UNCHANGED <<authMode, cookie, storage, changes>>

----------------------------------------------------------------------------
(* Signing in and out in this tab *)

(* saveAdminToken *)
SaveToken(token) ==
  /\ AdminAccessScreen(shell)
  /\ changes < MaxChanges /\ changes' = changes + 1
  /\ stored' = token
  /\ ReloadTab(token)
  /\ UNCHANGED <<authMode, cookie>>

(* The login endpoint brings the browser back with a new session. *)
SignIn(session) ==
  /\ OIDCAccessScreen(shell)
  /\ changes < MaxChanges /\ changes' = changes + 1
  /\ cookie' = session
  /\ ReloadTab(stored)
  /\ UNCHANGED <<authMode, stored>>

(* The menu of the account is part of the open shell. *)
UserMenu == PageOpen

(* The server ends the session and the cookie; a session that it no longer   *)
(* knows is as good as ended.                                                *)
logoutAdminSession == cookie' = NoOne /\ current' = NoOne /\ clearCache

(* logoutAdmin: with OIDC once the server has answered, in place. *)
Logout ==
  /\ UserMenu
  /\ IF authMode = "oidc"
     THEN /\ logoutAdminSession /\ secret' = NoSecret
          /\ Becomes([shell EXCEPT !.session = NoOne], NoOne)
          /\ UNCHANGED <<stored, storage, sending>>
     ELSE /\ stored' = NoOne /\ ReloadTab(NoOne) /\ UNCHANGED cookie
  /\ UNCHANGED <<authMode, changes>>

----------------------------------------------------------------------------
(* Other tabs *)
OtherTabStores(token) ==
  /\ authMode = "legacy_shared_token" /\ changes < MaxChanges /\ changes' = changes + 1
  /\ stored' = token /\ storage' = Append(storage, "token")
  /\ UNCHANGED <<authMode, cookie, current, shell, answers, asked, sending, secret, opened>>

(* A preference: locale, theme, a table's columns. *)
OtherTabPrefers ==
  /\ changes < MaxChanges /\ changes' = changes + 1
  /\ storage' = Append(storage, "other")
  /\ UNCHANGED <<authMode, stored, cookie, current, shell, answers, asked, sending, secret, opened>>

(* The event arrives.  The cache and the revealed values go by its key, the  *)
(* shell closes whatever the key; a closed page cancels its query.           *)
StorageEvent ==
  LET next == syncAdminTokenState(shell, stored) IN
  /\ storage # <<>>
  /\ storage' = Tail(storage)
  /\ Becomes(next, stored)
  /\ IF Head(storage) = "token"
     THEN clearCache
     ELSE UNCHANGED answers /\ asked' = IF IsOpen(next) THEN asked ELSE NoRequest
  /\ secret' = IF Head(storage) = "token" \/ ~IsOpen(next) THEN NoSecret ELSE secret
  /\ UNCHANGED <<authMode, stored, cookie, current, sending, changes>>

Remount ==
  /\ shell.timer
  /\ Becomes([shell EXCEPT !.hasToken = TRUE, !.timer = FALSE], stored)
  /\ UNCHANGED <<authMode, stored, cookie, current, storage, answers, asked, sending, secret, changes>>

----------------------------------------------------------------------------
SessionNext ==
  \/ ConfigLoaded \/ SessionLoaded \/ LoadFails \/ Retry
  \/ StartQuery \/ QueryAnswered \/ StartWrite \/ WriteAnswered \/ AskSecret \/ SecretAnswered \/ Unauthorized
  \/ \E c \in Credentials : SaveToken(c) \/ SignIn(c)
  \/ Logout
  \/ \E c \in Credentials \cup {NoOne} : OtherTabStores(c)
  \/ OtherTabPrefers \/ StorageEvent \/ Remount

SessionSpec == SessionInit /\ [][SessionNext]_sessionVars

----------------------------------------------------------------------------
(* No event that says the token has changed is still on its way. *)
Informed == \A i \in 1..Len(storage) : storage[i] # "token"

(* Once the tab knows of a change of credential, nothing it was told or      *)
(* shown under another one is left: not in the cache, not revealed, and no   *)
(* answer on its way will bring it back.                                     *)
NothingFromBefore ==
  Informed =>
    /\ answers # NoOne => answers = Credential
    /\ asked # NoRequest => asked = Credential
    /\ secret.at = "shown" => secret.by = Credential

(* The page the user sees, with its drafts, dialogs and one-time tokens, was *)
(* mounted for the credential the tab now sends: it is never carried over    *)
(* from one to another, nor left open without one.                           *)
PageBelongsToCredential ==
  Informed /\ PageOpen => Credential # NoOne /\ opened = Credential

=============================================================================
