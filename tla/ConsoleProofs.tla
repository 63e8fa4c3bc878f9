--------------------------- MODULE ConsoleProofs ---------------------------
(***************************************************************************)
(* What the console promises its user whatever arrives late, for any       *)
(* credentials, payloads and lengths of behaviours: nothing of one         *)
(* credential is left for the next (ConsoleSession), an intent has one     *)
(* effect and every success is its own (KeyedForms), what the user chose   *)
(* is what the tab shows (ConsolePreferences), and a save of the settings  *)
(* replaces only values its tab had been answered (RuntimeSettings).       *)
(***************************************************************************)
EXTENDS ConsoleSession, KeyedForms, ConsolePreferences, RuntimeSettings, TLAPS

-----------------------------------------------------------------------------
(* The session of the tab *)

Anyone == Credentials \cup {NoOne}

Shell == [config : {"loading", "session", "ready", "error"}, session : Anyone,
          hasToken : BOOLEAN, timer : BOOLEAN]

Secret == [at : {"hidden", "asked", "shown"}, by : Anyone]

SessionTypeOK ==
  /\ authMode \in {"oidc", "legacy_shared_token"}
  /\ stored \in Anyone /\ cookie \in Anyone /\ current \in Anyone
  /\ shell \in Shell
  /\ storage \in Seq({"token", "other"})
  /\ answers \in Anyone /\ opened \in Anyone
  /\ asked \in Anyone \cup {NoRequest} /\ sending \in Anyone \cup {NoRequest}
  /\ secret \in Secret

\* Before the shell is ready the tab knows nobody and was told nothing.
NothingBeforeReady ==
  shell.config # "ready" =>
    /\ current = NoOne /\ answers = NoOne
    /\ asked = NoRequest /\ secret.at = "hidden"

\* With OIDC the session is the only credential, and the shell's session the
\* one the requests carry; the token is gone and no tab can bring one.
SessionIsTheCredential ==
  authMode = "oidc" =>
    /\ shell.session = current
    /\ shell.config \in {"session", "ready"} => stored = NoOne
    /\ secret.at # "hidden" => secret.by = Credential
    /\ Informed

\* With a shared token there is no session, and what opens the page, now or in
\* a later task, stands for a token the tab will find.
TokenIsTheCredential ==
  authMode = "legacy_shared_token" =>
    /\ current = NoOne /\ shell.session = NoOne /\ shell.config # "session"
    /\ (Informed /\ (shell.hasToken \/ shell.timer)) => stored # NoOne

\* The remount timer runs only while the page is closed.
TimerWhileClosed == shell.timer => ~shell.hasToken

SessionInv ==
  /\ SessionTypeOK
  /\ NothingBeforeReady
  /\ SessionIsTheCredential
  /\ TokenIsTheCredential
  /\ TimerWhileClosed
  /\ NothingFromBefore
  /\ PageBelongsToCredential

\* When a page is open, by mode.
LEMMA OpenByMode ==
  ASSUME NEW s \in Shell, authMode \in {"oidc", "legacy_shared_token"}
  PROVE  /\ authMode = "oidc" => (IsOpen(s) <=> s.config \in {"session", "ready"} /\ s.session # NoOne)
         /\ (authMode = "legacy_shared_token" /\ s.config # "session") =>
              (IsOpen(s) <=> s.config = "ready" /\ s.hasToken)
  BY DEF Shell, IsOpen, UnavailableScreen, LoadingScreen, OIDCAccessScreen, AdminAccessScreen

\* Events on their way: what another tab appends, and what an arrival leaves.
LEMMA EventsArrive ==
  ASSUME NEW q \in Seq({"token", "other"}), q # <<>>
  PROVE  /\ Tail(q) \in Seq({"token", "other"}) /\ Head(q) \in {"token", "other"}
         /\ (Head(q) # "token" /\ \A i \in 1 .. Len(Tail(q)) : Tail(q)[i] # "token") =>
              \A i \in 1 .. Len(q) : q[i] # "token"
         /\ (\A i \in 1 .. Len(q) : q[i] # "token") =>
              Head(q) # "token" /\ \A i \in 1 .. Len(Tail(q)) : Tail(q)[i] # "token"
  <1>1. /\ Tail(q) \in Seq({"token", "other"}) /\ Head(q) \in {"token", "other"}
        /\ Head(q) = q[1] /\ Len(q) \in Nat /\ Len(q) # 0
        /\ Len(Tail(q)) = Len(q) - 1 /\ \A i \in 1 .. Len(Tail(q)) : Tail(q)[i] = q[i + 1]
    OBVIOUS
  <1>2. \A i \in 1 .. Len(q) : i = 1 \/ (i - 1 \in 1 .. Len(Tail(q)) /\ q[i] = Tail(q)[i - 1])
    BY <1>1
  <1>3. \A i \in 1 .. Len(Tail(q)) : i + 1 \in 1 .. Len(q)
    BY <1>1
  <1> QED
    BY <1>1, <1>2, <1>3

\* A storage event that another tab queues comes last.
LEMMA EventsAppended ==
  ASSUME NEW q \in Seq({"token", "other"}), NEW k \in {"token", "other"}
  PROVE  /\ Append(q, k) \in Seq({"token", "other"})
         /\ (\A i \in 1 .. Len(Append(q, k)) : Append(q, k)[i] # "token") <=>
              (k # "token" /\ \A i \in 1 .. Len(q) : q[i] # "token")
  <1>1. /\ Append(q, k) \in Seq({"token", "other"}) /\ Len(q) \in Nat /\ Len(Append(q, k)) = Len(q) + 1
        /\ Append(q, k)[Len(q) + 1] = k /\ \A i \in 1 .. Len(q) : Append(q, k)[i] = q[i]
    OBVIOUS
  <1>2. \A i \in 1 .. Len(Append(q, k)) : i \in 1 .. Len(q) \/ i = Len(q) + 1
    BY <1>1
  <1>3. Len(q) + 1 \in 1 .. Len(Append(q, k)) /\ \A i \in 1 .. Len(q) : i \in 1 .. Len(Append(q, k))
    BY <1>1
  <1> QED
    BY <1>1, <1>2, <1>3

\* A document that is loaded has no answer, no secret and no page.
LEMMA StartedShell ==
  ASSUME NEW token \in Anyone
  PROVE  /\ Started(token) \in Shell /\ Started(token).config = "loading"
         /\ Started(token).session = NoOne /\ ~Started(token).timer
         /\ Started(token).hasToken <=> token # NoOne
  BY DEF Started, Shell, Anyone

\* Where no secret is shown, none is kept.
LEMMA NoSecretYet == NoSecret \in Secret /\ NoSecret.at = "hidden"
  BY DEF NoSecret, Secret, Anyone

\* The tab starts with the invariant.
LEMMA SessionInitially == SessionInit => SessionInv
  <1> SUFFICES ASSUME SessionInit PROVE SessionInv
    OBVIOUS
  <1>1. /\ stored \in Anyone /\ cookie \in Anyone /\ current = NoOne /\ shell = Started(stored)
        /\ storage = <<>> /\ answers = NoOne /\ asked = NoRequest /\ sending = NoRequest
        /\ secret = NoSecret /\ opened = NoOne /\ authMode \in {"oidc", "legacy_shared_token"}
    BY DEF SessionInit, Anyone
  <1>2. SessionTypeOK
    BY <1>1, StartedShell, NoSecretYet DEF SessionTypeOK, Anyone
  <1>3. Informed
    BY <1>1 DEF Informed
  <1>4. ~PageOpen
    BY <1>1, StartedShell, OpenByMode DEF PageOpen
  <1> QED
    BY <1>1, <1>2, <1>3, <1>4, StartedShell, NoSecretYet
       DEF SessionInv, NothingBeforeReady, SessionIsTheCredential, TokenIsTheCredential, TimerWhileClosed,
           NothingFromBefore, PageBelongsToCredential

\* The document is loaded again: the tab starts with the token stored by then.
LEMMA ReloadStep ==
  ASSUME SessionInv, ReloadTab(stored'), stored' \in Anyone, cookie' \in Anyone, authMode' = authMode
  PROVE  SessionInv'
  <1>1. /\ current' = NoOne /\ shell' = Started(stored')
        /\ storage' = <<>> /\ answers' = NoOne /\ asked' = NoRequest /\ sending' = NoRequest
        /\ secret' = NoSecret /\ opened' = NoOne /\ authMode' \in {"oidc", "legacy_shared_token"}
    BY DEF ReloadTab, clearCache, SessionInv, SessionTypeOK
  <1>2. SessionTypeOK'
    BY <1>1, StartedShell, NoSecretYet DEF SessionTypeOK, Anyone
  <1>3. Informed'
    BY <1>1 DEF Informed
  <1>4. ~PageOpen'
    BY <1>1, StartedShell DEF PageOpen, IsOpen, LoadingScreen
  <1> QED
    BY <1>1, <1>2, <1>3, <1>4, StartedShell, NoSecretYet
       DEF SessionInv, NothingBeforeReady, SessionIsTheCredential, TokenIsTheCredential, TimerWhileClosed,
           NothingFromBefore, PageBelongsToCredential

\* Requests and answers, the credential and the screen unchanged.
LEMMA RequestStep ==
  ASSUME SessionInv,
         StartQuery \/ QueryAnswered \/ StartWrite \/ WriteAnswered \/ AskSecret \/ SecretAnswered
  PROVE  SessionInv'
  <1> USE DEF SessionInv
  <1>1. UNCHANGED <<authMode, stored, cookie, current, shell, storage, opened>>
    BY DEF StartQuery, QueryAnswered, StartWrite, WriteAnswered, AskSecret, SecretAnswered
  <1>2. /\ Credential' = Credential /\ Informed' = Informed /\ PageOpen' = PageOpen /\ Credential \in Anyone
        /\ PageOpen => shell.config = "ready"
    <2>1. PageOpen => shell.config = "ready"
      BY OpenByMode DEF PageOpen, SessionTypeOK, SessionIsTheCredential, TokenIsTheCredential,
                        NothingBeforeReady, Shell
    <2> QED
      BY <1>1, <2>1 DEF Credential, Informed, PageOpen, IsOpen, UnavailableScreen, LoadingScreen,
                        OIDCAccessScreen, AdminAccessScreen, SessionTypeOK
  <1>3. TimerWhileClosed' /\ TokenIsTheCredential' /\ PageBelongsToCredential'
    BY <1>1, <1>2 DEF TimerWhileClosed, TokenIsTheCredential, PageBelongsToCredential
  <1>4. CASE StartQuery
    BY <1>1, <1>2, <1>3, <1>4
       DEF StartQuery, SessionTypeOK, NothingBeforeReady, SessionIsTheCredential, NothingFromBefore
  <1>5. CASE QueryAnswered
    BY <1>1, <1>2, <1>3, <1>5, CredentialAssumption
       DEF QueryAnswered, SessionTypeOK, NothingBeforeReady, SessionIsTheCredential, NothingFromBefore, Anyone
  <1>6. CASE StartWrite \/ WriteAnswered
    BY <1>1, <1>2, <1>3, <1>6
       DEF StartWrite, WriteAnswered, SessionTypeOK, NothingBeforeReady, SessionIsTheCredential,
           NothingFromBefore
  <1>7. CASE AskSecret
    <2> DEFINE t == [at |-> "asked", by |-> Credential]
    <2>1. secret' = t /\ PageOpen /\ UNCHANGED <<answers, asked, sending>>
      BY <1>7 DEF AskSecret
    <2>2. t \in Secret /\ t.at = "asked" /\ t.by = Credential
      BY <1>2 DEF Secret
    <2> HIDE DEF t
    <2> QED
      BY <1>1, <1>2, <1>3, <2>1, <2>2
         DEF SessionTypeOK, NothingBeforeReady, SessionIsTheCredential, NothingFromBefore
  <1>8. CASE SecretAnswered
    <2> DEFINE t == [secret EXCEPT !.at = "shown"]
    <2>1. t \in Secret /\ t.at = "shown" /\ t.by = secret.by
      BY DEF Secret, SessionTypeOK
    <2>2. /\ \/ secret' = NoSecret
             \/ secret' = t /\ (authMode = "oidc" \/ stored = secret.by)
          /\ secret.at = "asked" /\ UNCHANGED <<answers, asked, sending>>
      BY <1>8 DEF SecretAnswered
    <2>3. authMode = "legacy_shared_token" => Credential = stored
      BY DEF Credential, TokenIsTheCredential
    <2> HIDE DEF t
    <2>4. secret' \in Secret
      BY <2>1, <2>2, NoSecretYet
    <2>5. SessionTypeOK' /\ NothingBeforeReady'
      BY <1>1, <2>2, <2>4 DEF SessionTypeOK, NothingBeforeReady
    <2>6. secret'.at = "shown" => secret'.by = Credential
      BY <2>1, <2>2, <2>3, NoSecretYet DEF SessionTypeOK, SessionIsTheCredential
    <2>7. secret'.at # "hidden" => secret'.at = "shown"
      BY <2>1, <2>2, NoSecretYet
    <2> QED
      BY <1>1, <1>2, <1>3, <2>2, <2>5, <2>6, <2>7 DEF SessionIsTheCredential, NothingFromBefore
  <1> QED
    BY <1>4, <1>5, <1>6, <1>7, <1>8

\* The shell after syncAdminTokenState.
LEMMA SyncedShell ==
  ASSUME NEW s \in Shell, NEW token
  PROVE  /\ syncAdminTokenState(s, token) \in Shell
         /\ syncAdminTokenState(s, token).config = s.config
         /\ syncAdminTokenState(s, token).session = s.session
         /\ ~syncAdminTokenState(s, token).hasToken
         /\ syncAdminTokenState(s, token).timer <=> token # NoOne
  BY DEF syncAdminTokenState, Shell

\* The screen after the shell has become s.
LEMMA BecomesScreen ==
  ASSUME SessionInv, NEW s \in Shell, NEW c, Becomes(s, c), authMode' = authMode
  PROVE  /\ shell' = s /\ PageOpen' = IsOpen(s)
         /\ IsOpen(s) => opened' = IF PageOpen THEN opened ELSE c
         /\ ~IsOpen(s) => opened' = NoOne
         /\ c \in Anyone => opened' \in Anyone
         /\ authMode = "oidc" => (IsOpen(s) <=> s.config \in {"session", "ready"} /\ s.session # NoOne)
         /\ (authMode = "legacy_shared_token" /\ s.config # "session") =>
              (IsOpen(s) <=> s.config = "ready" /\ s.hasToken)
         /\ authMode = "oidc" => (PageOpen <=> shell.config \in {"session", "ready"} /\ shell.session # NoOne)
         /\ authMode = "legacy_shared_token" => (PageOpen <=> shell.config = "ready" /\ shell.hasToken)
  <1>1. shell' = s /\ PageOpen' = IsOpen(s)
    BY DEF Becomes, PageOpen, IsOpen, UnavailableScreen, LoadingScreen, OIDCAccessScreen, AdminAccessScreen
  <1>2. authMode = "legacy_shared_token" => shell.config # "session"
    BY DEF SessionInv, TokenIsTheCredential
  <1>3. /\ authMode = "oidc" => (PageOpen <=> shell.config \in {"session", "ready"} /\ shell.session # NoOne)
        /\ authMode = "legacy_shared_token" => (PageOpen <=> shell.config = "ready" /\ shell.hasToken)
    BY <1>2, OpenByMode DEF PageOpen, SessionInv, SessionTypeOK
  <1>4. /\ authMode = "oidc" => (IsOpen(s) <=> s.config \in {"session", "ready"} /\ s.session # NoOne)
        /\ (authMode = "legacy_shared_token" /\ s.config # "session") =>
             (IsOpen(s) <=> s.config = "ready" /\ s.hasToken)
    BY OpenByMode DEF SessionInv, SessionTypeOK
  <1>5. /\ IsOpen(s) => opened' = IF PageOpen THEN opened ELSE c
        /\ ~IsOpen(s) => opened' = NoOne
        /\ c \in Anyone => opened' \in Anyone
    BY DEF Becomes, SessionInv, SessionTypeOK, Anyone
  <1> QED
    BY <1>1, <1>3, <1>4, <1>5

\* The configuration of the server arrives.
LEMMA ConfigLoadedStep ==
  ASSUME SessionInv, ConfigLoaded
  PROVE  SessionInv'
  <1> USE DEF SessionInv
  <1>1. /\ shell.config = "loading" /\ shell \in Shell /\ current = NoOne /\ answers = NoOne
        /\ asked = NoRequest /\ secret.at = "hidden"
        /\ UNCHANGED <<authMode, cookie, current, storage, sending, secret>>
    BY DEF ConfigLoaded, LoadingScreen, SessionTypeOK, NothingBeforeReady
  <1>2. Informed' = Informed
    BY <1>1 DEF Informed
  <1>3. CASE authMode = "oidc"
    <2> DEFINE s == syncAdminTokenState(shell, NoOne)
               t == [s EXCEPT !.config = "session"]
    <2>1. Becomes(t, NoOne) /\ stored' = NoOne /\ clearCache
      BY <1>3 DEF ConfigLoaded
    <2>2. s \in Shell /\ s.session = shell.session /\ ~s.hasToken /\ ~s.timer
      BY <1>1, SyncedShell
    <2> HIDE DEF s
    <2>3. /\ t \in Shell /\ t.config = "session" /\ t.session = shell.session
          /\ t.hasToken = s.hasToken /\ t.timer = s.timer
      BY <2>2 DEF Shell
    <2> HIDE DEF t
    <2>4. shell' = t /\ PageOpen' = IsOpen(t) /\ opened' \in Anyone /\ (IsOpen(t) <=> t.session # NoOne)
      BY <1>1, <1>3, <2>1, <2>3, BecomesScreen DEF Anyone
    <2>5. shell.session = NoOne /\ Informed
      BY <1>1, <1>3 DEF SessionIsTheCredential
    <2>6. SessionTypeOK'
      BY <1>1, <2>1, <2>3, <2>4 DEF SessionTypeOK, clearCache, Anyone
    <2> QED
      BY <1>1, <1>2, <1>3, <2>1, <2>2, <2>3, <2>4, <2>5, <2>6
         DEF NothingBeforeReady, SessionIsTheCredential, TokenIsTheCredential, TimerWhileClosed,
             NothingFromBefore, PageBelongsToCredential, clearCache
  <1>4. CASE authMode = "legacy_shared_token"
    <2> DEFINE t == [shell EXCEPT !.config = "ready"]
    <2>1. Becomes(t, stored) /\ UNCHANGED <<stored, answers, asked>>
      BY <1>4 DEF ConfigLoaded
    <2>2. /\ t \in Shell /\ t.config = "ready" /\ t.session = shell.session
          /\ t.hasToken = shell.hasToken /\ t.timer = shell.timer
      BY <1>1 DEF Shell
    <2> HIDE DEF t
    <2>3. /\ shell' = t /\ PageOpen' = IsOpen(t) /\ opened' \in Anyone /\ (IsOpen(t) <=> t.hasToken)
          /\ IsOpen(t) => opened' = stored
      BY <1>1, <1>4, <2>1, <2>2, BecomesScreen DEF SessionTypeOK
    <2>4. Credential' = stored
      BY <1>1, <2>1 DEF Credential
    <2>5. SessionTypeOK'
      BY <1>1, <2>1, <2>2, <2>3 DEF SessionTypeOK
    <2>6. TimerWhileClosed' /\ NothingBeforeReady' /\ SessionIsTheCredential'
      BY <1>1, <1>4, <2>2, <2>3 DEF TimerWhileClosed, NothingBeforeReady, SessionIsTheCredential
    <2>7. TokenIsTheCredential'
      BY <1>1, <1>2, <1>4, <2>1, <2>2, <2>3 DEF TokenIsTheCredential
    <2>8. NothingFromBefore'
      BY <1>1, <2>1 DEF NothingFromBefore
    <2>9. PageBelongsToCredential'
      BY <1>2, <1>4, <2>2, <2>3, <2>4 DEF PageBelongsToCredential, TokenIsTheCredential
    <2> QED
      BY <2>5, <2>6, <2>7, <2>8, <2>9
  <1> QED
    BY <1>3, <1>4 DEF SessionTypeOK

\* fetchAdminSession answers.
LEMMA SessionLoadedStep ==
  ASSUME SessionInv, SessionLoaded
  PROVE  SessionInv'
  <1> USE DEF SessionInv
  <1> DEFINE t == [shell EXCEPT !.config = "ready", !.session = cookie]
  <1>1. /\ shell.config = "session" /\ shell \in Shell /\ secret.at = "hidden" /\ authMode = "oidc"
        /\ current = NoOne /\ shell.session = NoOne /\ stored = NoOne /\ Informed
    BY DEF SessionLoaded, SessionTypeOK, NothingBeforeReady, SessionIsTheCredential, TokenIsTheCredential
  <1>2. /\ Becomes(t, cookie) /\ current' = cookie /\ clearCache
        /\ UNCHANGED <<authMode, stored, cookie, storage, sending, secret>>
    BY DEF SessionLoaded
  <1>3. cookie \in Anyone
    BY DEF SessionTypeOK
  <1>4. /\ t \in Shell /\ t.config = "ready" /\ t.session = cookie
        /\ t.hasToken = shell.hasToken /\ t.timer = shell.timer
    BY <1>1, <1>3 DEF Shell
  <1> HIDE DEF t
  <1>5. /\ shell' = t /\ PageOpen' = IsOpen(t) /\ opened' \in Anyone /\ (IsOpen(t) <=> cookie # NoOne)
        /\ IsOpen(t) => opened' = cookie
    BY <1>1, <1>2, <1>3, <1>4, BecomesScreen
  <1>6. SessionTypeOK'
    BY <1>2, <1>3, <1>4, <1>5 DEF SessionTypeOK, clearCache, Anyone
  <1>7. Informed' /\ (cookie # NoOne => Credential' = cookie)
    BY <1>1, <1>2 DEF Informed, Credential
  <1> QED
    BY <1>1, <1>2, <1>4, <1>5, <1>6, <1>7
       DEF NothingBeforeReady, SessionIsTheCredential, TokenIsTheCredential, TimerWhileClosed,
           NothingFromBefore, PageBelongsToCredential, clearCache

\* The configuration or the session cannot be had.
LEMMA LoadFailsStep ==
  ASSUME SessionInv, LoadFails
  PROVE  SessionInv'
  <1> USE DEF SessionInv
  <1> DEFINE t == [shell EXCEPT !.config = "error"]
  <1>1. /\ shell \in Shell /\ current = NoOne /\ answers = NoOne /\ asked = NoRequest /\ secret.at = "hidden"
    BY DEF LoadFails, SessionTypeOK, NothingBeforeReady
  <1>2. /\ Becomes(t, NoOne)
        /\ UNCHANGED <<authMode, stored, cookie, current, storage, answers, asked, sending, secret>>
    BY DEF LoadFails
  <1>3. /\ t \in Shell /\ t.config = "error" /\ t.session = shell.session
        /\ t.hasToken = shell.hasToken /\ t.timer = shell.timer
    BY <1>1 DEF Shell
  <1> HIDE DEF t
  <1>4. shell' = t /\ ~PageOpen' /\ opened' \in Anyone
    BY <1>2, <1>3, BecomesScreen DEF Anyone, SessionTypeOK
  <1>5. SessionTypeOK'
    BY <1>2, <1>3, <1>4 DEF SessionTypeOK
  <1>6. Informed' = Informed /\ Credential' = Credential
    BY <1>2 DEF Informed, Credential
  <1> QED
    BY <1>1, <1>2, <1>3, <1>4, <1>5, <1>6
       DEF NothingBeforeReady, SessionIsTheCredential, TokenIsTheCredential, TimerWhileClosed,
           NothingFromBefore, PageBelongsToCredential

\* Signing out, after a 401 or from the menu: the tab forgets what it was told.
LEMMA SignedOutStep ==
  ASSUME SessionInv, NEW t \in Shell, Becomes(t, NoOne), t.config = shell.config,
         clearCache, secret' = NoSecret,
         UNCHANGED <<authMode, storage>>, cookie' \in Anyone, sending' \in Anyone \cup {NoRequest},
         authMode = "oidc" => /\ t.session = NoOne /\ current' = NoOne /\ stored' = stored
                              /\ t.hasToken = shell.hasToken /\ t.timer = shell.timer,
         authMode = "legacy_shared_token" =>
           t.session = shell.session /\ ~t.hasToken /\ ~t.timer /\ current' = current /\ stored' = NoOne
  PROVE  SessionInv'
  <1> USE DEF SessionInv
  <1>1. /\ shell' = t /\ opened' \in Anyone /\ answers' = NoOne /\ asked' = NoRequest
        /\ secret' \in Secret /\ secret'.at = "hidden"
    BY BecomesScreen, NoSecretYet DEF Anyone, clearCache
  <1>2. ~PageOpen'
    BY BecomesScreen DEF SessionTypeOK, TokenIsTheCredential
  <1>3. SessionTypeOK'
    BY <1>1 DEF SessionTypeOK, Anyone
  <1>4. Informed' = Informed
    BY DEF Informed
  <1>5. TimerWhileClosed'
    BY <1>1 DEF TimerWhileClosed, SessionTypeOK
  <1>6. NothingBeforeReady' /\ NothingFromBefore' /\ PageBelongsToCredential'
    BY <1>1, <1>2 DEF NothingBeforeReady, NothingFromBefore, PageBelongsToCredential, SessionTypeOK
  <1>7. SessionIsTheCredential'
    BY <1>1, <1>4 DEF SessionIsTheCredential
  <1>8. TokenIsTheCredential'
    BY <1>1 DEF TokenIsTheCredential
  <1> QED
    BY <1>3, <1>5, <1>6, <1>7, <1>8

\* A 401, for whatever was asked.
LEMMA UnauthorizedStep ==
  ASSUME SessionInv, Unauthorized
  PROVE  SessionInv'
  <1>1. /\ clearCache /\ secret' = NoSecret /\ UNCHANGED <<authMode, storage, cookie>>
        /\ sending' \in Anyone \cup {NoRequest} /\ cookie' \in Anyone
        /\ shell \in Shell /\ authMode \in {"oidc", "legacy_shared_token"}
    BY DEF Unauthorized, SignOut, SessionInv, SessionTypeOK
  <1>2. CASE authMode = "oidc"
    <2> DEFINE t == [shell EXCEPT !.session = NoOne]
    <2>1. Becomes(t, NoOne) /\ current' = NoOne /\ stored' = stored
      BY <1>2 DEF Unauthorized, SignOut
    <2>2. /\ t \in Shell /\ t.config = shell.config /\ t.session = NoOne
          /\ t.hasToken = shell.hasToken /\ t.timer = shell.timer
      BY <1>1 DEF Shell, Anyone
    <2> HIDE DEF t
    <2> QED
      BY <1>1, <1>2, <2>1, <2>2, SignedOutStep
  <1>3. CASE authMode = "legacy_shared_token"
    <2> DEFINE t == syncAdminTokenState(shell, NoOne)
    <2>1. Becomes(t, NoOne) /\ current' = current /\ stored' = NoOne
      BY <1>3 DEF Unauthorized, SignOut
    <2>2. t \in Shell /\ t.config = shell.config /\ t.session = shell.session /\ ~t.hasToken /\ ~t.timer
      BY <1>1, SyncedShell
    <2> HIDE DEF t
    <2> QED
      BY <1>1, <1>3, <2>1, <2>2, SignedOutStep
  <1> QED
    BY <1>1, <1>2, <1>3

\* logoutAdmin, in place with OIDC, with a reload otherwise.
LEMMA LogoutStep ==
  ASSUME SessionInv, Logout
  PROVE  SessionInv'
  <1>1. shell \in Shell /\ authMode \in {"oidc", "legacy_shared_token"} /\ authMode' = authMode
    BY DEF Logout, SessionInv, SessionTypeOK
  <1>2. CASE authMode = "oidc"
    <2> DEFINE t == [shell EXCEPT !.session = NoOne]
    <2>1. /\ Becomes(t, NoOne) /\ current' = NoOne /\ stored' = stored /\ storage' = storage
          /\ clearCache /\ secret' = NoSecret /\ cookie' = NoOne /\ sending' = sending
      BY <1>2 DEF Logout, logoutAdminSession
    <2>2. /\ t \in Shell /\ t.config = shell.config /\ t.session = NoOne
          /\ t.hasToken = shell.hasToken /\ t.timer = shell.timer
      BY <1>1 DEF Shell, Anyone
    <2>3. cookie' \in Anyone /\ sending' \in Anyone \cup {NoRequest}
      BY <2>1 DEF SessionInv, SessionTypeOK, Anyone
    <2> HIDE DEF t
    <2> QED
      BY <1>1, <1>2, <2>1, <2>2, <2>3, SignedOutStep
  <1>3. CASE authMode = "legacy_shared_token"
    <2>1. stored' = NoOne /\ ReloadTab(NoOne) /\ cookie' = cookie
      BY <1>3 DEF Logout
    <2> QED
      BY <1>1, <2>1, ReloadStep DEF SessionInv, SessionTypeOK, Anyone
  <1> QED
    BY <1>1, <1>2, <1>3

\* The reload of the unavailable screen, and the two ways of signing in.
LEMMA SignInStep ==
  ASSUME SessionInv, Retry \/ \E c \in Credentials : SaveToken(c) \/ SignIn(c)
  PROVE  SessionInv'
  <1>1. CASE Retry
    BY <1>1, ReloadStep DEF Retry, SessionInv, SessionTypeOK
  <1>2. ASSUME NEW c \in Credentials, SaveToken(c) PROVE SessionInv'
    BY <1>2, ReloadStep DEF SaveToken, SessionInv, SessionTypeOK, Anyone
  <1>3. ASSUME NEW c \in Credentials, SignIn(c) PROVE SessionInv'
    BY <1>3, ReloadStep DEF SignIn, SessionInv, SessionTypeOK, Anyone
  <1> QED
    BY <1>1, <1>2, <1>3

\* Another tab writes to the storage: a token makes this tab uninformed.
LEMMA OtherTabStep ==
  ASSUME SessionInv, OtherTabPrefers \/ \E c \in Anyone : OtherTabStores(c)
  PROVE  SessionInv'
  <1> USE DEF SessionInv
  <1>1. UNCHANGED <<authMode, cookie, current, shell, answers, asked, sending, secret, opened>>
    BY DEF OtherTabPrefers, OtherTabStores
  <1>2. PageOpen' = PageOpen
    BY <1>1 DEF PageOpen, IsOpen, UnavailableScreen, LoadingScreen, OIDCAccessScreen, AdminAccessScreen
  <1>3. TimerWhileClosed' /\ NothingBeforeReady'
    BY <1>1 DEF TimerWhileClosed, NothingBeforeReady
  <1>4. CASE OtherTabPrefers
    <2>1. stored' = stored /\ storage' = Append(storage, "other")
      BY <1>4 DEF OtherTabPrefers
    <2>2. Informed' = Informed /\ storage' \in Seq({"token", "other"})
      BY <2>1, EventsAppended DEF Informed, SessionTypeOK
    <2>3. Credential' = Credential
      BY <1>1, <2>1 DEF Credential
    <2>4. SessionTypeOK'
      BY <1>1, <2>1, <2>2 DEF SessionTypeOK
    <2> QED
      BY <1>1, <1>2, <1>3, <2>1, <2>2, <2>3, <2>4
         DEF SessionIsTheCredential, TokenIsTheCredential, NothingFromBefore, PageBelongsToCredential
  <1>5. ASSUME NEW c \in Anyone, OtherTabStores(c) PROVE SessionInv'
    <2>1. stored' = c /\ storage' = Append(storage, "token") /\ authMode = "legacy_shared_token"
      BY <1>5 DEF OtherTabStores
    <2>2. ~Informed' /\ storage' \in Seq({"token", "other"})
      BY <2>1, EventsAppended DEF Informed, SessionTypeOK
    <2>3. SessionTypeOK'
      BY <1>1, <2>1, <2>2 DEF SessionTypeOK
    <2> QED
      BY <1>1, <1>2, <1>3, <2>1, <2>2, <2>3
         DEF SessionIsTheCredential, TokenIsTheCredential, NothingFromBefore, PageBelongsToCredential
  <1> QED
    BY <1>4, <1>5

\* A storage event arrives: the page of a shared token closes whatever the key,
\* the page of a session stays; the cache goes with the key of the token.
LEMMA StorageEventStep ==
  ASSUME SessionInv, StorageEvent
  PROVE  SessionInv'
  <1> USE DEF SessionInv
  <1> DEFINE t == syncAdminTokenState(shell, stored)
  <1>1. /\ Becomes(t, stored) /\ storage # <<>> /\ storage' = Tail(storage)
        /\ UNCHANGED <<authMode, stored, cookie, current, sending>>
        /\ Head(storage) = "token" => answers' = NoOne /\ asked' = NoRequest
        /\ Head(storage) # "token" => answers' = answers /\ asked' = IF IsOpen(t) THEN asked ELSE NoRequest
        /\ secret' = IF Head(storage) = "token" \/ ~IsOpen(t) THEN NoSecret ELSE secret
    BY DEF StorageEvent, clearCache
  <1>2. shell \in Shell /\ stored \in Anyone
    BY DEF SessionTypeOK
  <1>3. /\ t \in Shell /\ t.config = shell.config /\ t.session = shell.session /\ ~t.hasToken
        /\ t.timer <=> stored # NoOne
    BY <1>2, SyncedShell
  <1> HIDE DEF t
  <1>4. /\ shell' = t /\ PageOpen' = IsOpen(t) /\ opened' \in Anyone
        /\ authMode = "oidc" => (IsOpen(t) <=> PageOpen)
        /\ authMode = "legacy_shared_token" => ~IsOpen(t)
        /\ IsOpen(t) /\ PageOpen => opened' = opened
    BY <1>1, <1>2, <1>3, BecomesScreen DEF SessionTypeOK, TokenIsTheCredential
  <1>5. /\ storage' \in Seq({"token", "other"})
        /\ Informed' /\ Head(storage) # "token" => Informed
        /\ Informed => Informed' /\ Head(storage) # "token"
    BY <1>1, EventsArrive DEF SessionTypeOK, Informed
  <1>6. Credential' = Credential
    BY <1>1 DEF Credential
  <1>7. /\ secret' \in Secret /\ (secret' = secret \/ secret'.at = "hidden")
        /\ Head(storage) = "token" => secret'.at = "hidden"
    BY <1>1, NoSecretYet DEF SessionTypeOK
  <1>8. SessionTypeOK'
    BY <1>1, <1>3, <1>4, <1>5, <1>7 DEF SessionTypeOK, Anyone
  <1>9. TimerWhileClosed'
    BY <1>3, <1>4 DEF TimerWhileClosed
  <1>10. NothingBeforeReady'
    BY <1>1, <1>3, <1>4, <1>7 DEF NothingBeforeReady
  <1>11. SessionIsTheCredential'
    BY <1>1, <1>3, <1>4, <1>5, <1>6, <1>7 DEF SessionIsTheCredential
  <1>12. TokenIsTheCredential'
    BY <1>1, <1>3, <1>4 DEF TokenIsTheCredential
  <1>13. NothingFromBefore'
    <2>1. CASE Head(storage) = "token"
      BY <1>1, <1>7, <2>1 DEF NothingFromBefore
    <2>2. CASE Head(storage) # "token"
      BY <1>1, <1>5, <1>6, <1>7, <2>2 DEF NothingFromBefore
    <2> QED
      BY <2>1, <2>2
  <1>14. PageBelongsToCredential'
    BY <1>4, <1>5, <1>6 DEF PageBelongsToCredential, SessionTypeOK, SessionIsTheCredential
  <1> QED
    BY <1>8, <1>9, <1>10, <1>11, <1>12, <1>13, <1>14

\* The timer fires: the page is mounted anew, for the token of that moment.
LEMMA RemountStep ==
  ASSUME SessionInv, Remount
  PROVE  SessionInv'
  <1> USE DEF SessionInv
  <1> DEFINE t == [shell EXCEPT !.hasToken = TRUE, !.timer = FALSE]
  <1>1. /\ Becomes(t, stored) /\ shell.timer
        /\ UNCHANGED <<authMode, stored, cookie, current, storage, answers, asked, sending, secret>>
    BY DEF Remount
  <1>2. shell \in Shell /\ stored \in Anyone /\ ~shell.hasToken
    BY <1>1 DEF SessionTypeOK, TimerWhileClosed
  <1>3. t \in Shell /\ t.config = shell.config /\ t.session = shell.session /\ t.hasToken /\ ~t.timer
    BY <1>2 DEF Shell
  <1> HIDE DEF t
  <1>4. /\ shell' = t /\ PageOpen' = IsOpen(t) /\ opened' \in Anyone
        /\ authMode = "oidc" => (IsOpen(t) <=> PageOpen)
        /\ authMode = "legacy_shared_token" => ~PageOpen
        /\ IsOpen(t) => opened' = IF PageOpen THEN opened ELSE stored
    BY <1>1, <1>2, <1>3, BecomesScreen DEF SessionTypeOK, TokenIsTheCredential
  <1>5. Credential' = Credential /\ Informed' = Informed
    BY <1>1 DEF Credential, Informed
  <1>6. SessionTypeOK'
    BY <1>1, <1>3, <1>4 DEF SessionTypeOK
  <1>7. TimerWhileClosed' /\ NothingBeforeReady' /\ SessionIsTheCredential' /\ NothingFromBefore'
    BY <1>1, <1>3, <1>4, <1>5
       DEF TimerWhileClosed, NothingBeforeReady, SessionIsTheCredential, NothingFromBefore
  <1>8. TokenIsTheCredential'
    BY <1>1, <1>3, <1>4, <1>5 DEF TokenIsTheCredential
  <1>9. PageBelongsToCredential'
    <2>1. CASE authMode = "oidc"
      BY <1>4, <1>5, <2>1 DEF PageBelongsToCredential
    <2>2. CASE authMode = "legacy_shared_token"
      <3>1. Credential = stored
        BY <2>2 DEF TokenIsTheCredential, Credential
      <3> QED
        BY <1>1, <1>4, <1>5, <2>2, <3>1 DEF PageBelongsToCredential, TokenIsTheCredential
    <2> QED
      BY <2>1, <2>2 DEF SessionTypeOK
  <1> QED
    BY <1>6, <1>7, <1>8, <1>9

\* Every step of the tab, of its requests and of other tabs.
LEMMA SessionInductive == SessionInv /\ [SessionNext]_sessionVars => SessionInv'
  <1> SUFFICES ASSUME SessionInv, [SessionNext]_sessionVars PROVE SessionInv'
    OBVIOUS
  <1>1. CASE UNCHANGED sessionVars
    <2>1. UNCHANGED <<authMode, stored, cookie, current, shell, storage, answers, asked, sending,
                      secret, opened>>
      BY <1>1 DEF sessionVars
    <2>2. Credential' = Credential /\ Informed' = Informed /\ PageOpen' = PageOpen
      BY <2>1 DEF Credential, Informed, PageOpen, IsOpen, UnavailableScreen, LoadingScreen,
                  OIDCAccessScreen, AdminAccessScreen
    <2> QED
      BY <2>1, <2>2 DEF SessionInv, SessionTypeOK, NothingBeforeReady, SessionIsTheCredential,
                        TokenIsTheCredential, TimerWhileClosed, NothingFromBefore, PageBelongsToCredential
  <1> QED
    BY <1>1, ConfigLoadedStep, SessionLoadedStep, LoadFailsStep, SignInStep, RequestStep, UnauthorizedStep,
       LogoutStep, OtherTabStep, StorageEventStep, RemountStep DEF SessionNext, Anyone

\* The inductive invariant of the tab holds in every reachable state.
THEOREM SessionInvariant == SessionSpec => []SessionInv
  BY SessionInitially, SessionInductive, PTL DEF SessionSpec

\* Once the tab knows of a change of credential, nothing of another one is
\* left in its cache, revealed, or on its way (clearCache, StorageEvent).
THEOREM NothingCarriedOver == SessionSpec => []NothingFromBefore
  <1>1. SessionInv => NothingFromBefore
    BY DEF SessionInv
  <1> QED
    BY <1>1, SessionInvariant, PTL

\* The page the user sees was mounted for the credential the tab now sends.
THEOREM PageIsOfItsCredential == SessionSpec => []PageBelongsToCredential
  <1>1. SessionInv => PageBelongsToCredential
    BY DEF SessionInv
  <1> QED
    BY <1>1, SessionInvariant, PTL

-----------------------------------------------------------------------------
(* Forms with an Idempotency-Key *)

FormsTypeOK ==
  /\ filled \in Refs
  /\ attempts \in [Refs -> KeyAttempt \cup {Blank}]
  /\ sends \in [Sends -> Submission \cup {Blank}]
  /\ effects \in [Sends -> Sends \cup {Blank}]
  /\ mount \in Nat /\ turn \in Nat

\* A key is named after the request that sent it first, and what the server
\* made of a key is the effect of a request that carries it.
KeysAreNamed ==
  /\ \A n \in Made : sends[n].key \in Made /\ sends[sends[n].key].key = sends[n].key
  /\ \A k \in Sends : effects[k] # Blank => effects[k] \in Made /\ sends[effects[k]].key = k

\* The requests that carry the key of a ref are of this life of the page and of
\* that ref; none of them has come to its end.
RefsAreOfThisLife ==
  \A r \in Refs : attempts[r] # Blank =>
    /\ attempts[r].key \in Made /\ sends[attempts[r].key].key = attempts[r].key
    /\ \A n \in Made : sends[n].key = attempts[r].key =>
         Ref(sends[n].payload) = r /\ sends[n].mount = mount /\ sends[n].client # "done"

\* The requests of the present intent are what the form holds, and their key is
\* the one the ref remembers for it.
IntentIsRemembered ==
  \A n \in Made :
    /\ sends[n].turn <= turn
    /\ (keyedForm.stable /\ sends[n].turn = turn) =>
         /\ attempts[Ref(filled)] # Blank
         /\ attempts[Ref(filled)].fingerprint = <<filled>>
         /\ attempts[Ref(filled)].key = sends[n].key

\* One intent, one key.
IntentHasOneKey ==
  \A n, m \in Made : (keyedForm.stable /\ sends[n].turn = sends[m].turn) => sends[n].key = sends[m].key

\* A request made after others have ended has a key of its own.
LaterKeysDiffer ==
  \A m \in Made : \A n \in sends[m].past :
    n \in Made /\ sends[n].client = "done" /\ sends[n].key # sends[m].key

\* What the user is told of has been done.
ToldMeansDone ==
  \A n \in Made :
    /\ sends[n].client \in {"settling", "done"} => sends[n].server = "done"
    /\ sends[n].server = "done" => effects[sends[n].key] # Blank

FormsInv ==
  /\ FormsTypeOK
  /\ KeysAreNamed
  /\ RefsAreOfThisLife
  /\ IntentIsRemembered
  /\ IntentHasOneKey
  /\ LaterKeysDiffer
  /\ ToldMeansDone

\* No request has been made and nothing is remembered.
LEMMA FormsInitially == FormsInit => FormsInv
  <1> SUFFICES ASSUME FormsInit PROVE FormsInv
    OBVIOUS
  <1>1. Made = {} /\ \A r \in Refs : attempts[r] = Blank
    BY DEF FormsInit, Made, NoRefs
  <1>2. FormsTypeOK
    BY DEF FormsInit, FormsTypeOK, NoRefs, Refs
  <1> QED
    BY <1>1, <1>2 DEF FormsInit, FormsInv, KeysAreNamed, RefsAreOfThisLife, IntentIsRemembered,
                      IntentHasOneKey, LaterKeysDiffer, ToldMeansDone

\* A request that moves on keeps what it was made with.
LEMMA SendMoves ==
  ASSUME FormsInv, NEW n \in Made, NEW t \in Submission, sends' = [sends EXCEPT ![n] = t],
         t.payload = sends[n].payload, t.key = sends[n].key, t.mount = sends[n].mount,
         t.turn = sends[n].turn, t.past = sends[n].past
  PROVE  /\ sends' \in [Sends -> Submission \cup {Blank}] /\ Made' = Made /\ sends'[n] = t
         /\ \A m \in Made : m # n => sends'[m] = sends[m]
         /\ \A m \in Made : /\ sends'[m].payload = sends[m].payload /\ sends'[m].key = sends[m].key
                           /\ sends'[m].mount = sends[m].mount /\ sends'[m].turn = sends[m].turn
                           /\ sends'[m].past = sends[m].past
  <1>1. n \in Sends /\ sends \in [Sends -> Submission \cup {Blank}] /\ Made = {m \in Sends : sends[m] # Blank}
    BY DEF Made, FormsInv, FormsTypeOK
  <1>2. sends' \in [Sends -> Submission \cup {Blank}] /\ sends'[n] = t /\ \A m \in Sends : m # n => sends'[m] = sends[m]
    BY <1>1
  <1>3. t # Blank
    BY BlankAssumption
  <1>4. Made' = {m \in Sends : sends'[m] # Blank}
    BY DEF Made, Sends
  <1>5. Made' = Made
    BY <1>1, <1>2, <1>3, <1>4 DEF Made
  <1> QED
    BY <1>1, <1>2, <1>5

\* What a request that moves on leaves as it was, the refs and the form apart.
LEMMA MovedKeys ==
  ASSUME FormsInv, NEW n \in Made, NEW t \in Submission, sends' = [sends EXCEPT ![n] = t],
         t.payload = sends[n].payload, t.key = sends[n].key, t.mount = sends[n].mount,
         t.turn = sends[n].turn, t.past = sends[n].past,
         sends[n].client = "done" => t.client = "done",
         UNCHANGED keyedForm
  PROVE  /\ IntentHasOneKey' /\ LaterKeysDiffer'
         /\ \A m \in Made' : sends'[m].key \in Made' /\ sends'[sends'[m].key].key = sends'[m].key
  <1>1. /\ Made' = Made /\ sends'[n] = t /\ \A m \in Made : m # n => sends'[m] = sends[m]
        /\ \A m \in Made : /\ sends'[m].key = sends[m].key /\ sends'[m].turn = sends[m].turn
                          /\ sends'[m].past = sends[m].past
    BY SendMoves
  <1>2. IntentHasOneKey'
    BY <1>1 DEF FormsInv, IntentHasOneKey
  <1>3. LaterKeysDiffer'
    BY <1>1 DEF FormsInv, LaterKeysDiffer
  <1>4. \A m \in Made' : sends'[m].key \in Made' /\ sends'[sends'[m].key].key = sends'[m].key
    BY <1>1 DEF FormsInv, KeysAreNamed
  <1> QED
    BY <1>2, <1>3, <1>4

\* A request that the server refuses, that is acknowledged or that fails: it
\* moves, and nothing else does.
LEMMA SendOnly ==
  ASSUME FormsInv, NEW n \in Made, NEW t \in Submission, sends' = [sends EXCEPT ![n] = t],
         t.payload = sends[n].payload, t.key = sends[n].key, t.mount = sends[n].mount,
         t.turn = sends[n].turn, t.past = sends[n].past,
         t.client # "done", sends[n].client # "done",
         t.client = "settling" => t.server = "done",
         t.server = "done" => sends[n].server = "done",
         UNCHANGED <<keyedForm, filled, attempts, effects, mount, turn>>
  PROVE  FormsInv'
  <1>1. /\ sends' \in [Sends -> Submission \cup {Blank}] /\ Made' = Made /\ sends'[n] = t
        /\ \A m \in Made : m # n => sends'[m] = sends[m]
        /\ \A m \in Made : /\ sends'[m].payload = sends[m].payload /\ sends'[m].key = sends[m].key
                          /\ sends'[m].mount = sends[m].mount /\ sends'[m].turn = sends[m].turn
                          /\ sends'[m].past = sends[m].past
    BY SendMoves
  <1>2. /\ IntentHasOneKey' /\ LaterKeysDiffer'
        /\ \A m \in Made' : sends'[m].key \in Made' /\ sends'[sends'[m].key].key = sends'[m].key
    BY MovedKeys
  <1>3. FormsTypeOK'
    BY <1>1 DEF FormsInv, FormsTypeOK, Refs, Sends
  <1>4. KeysAreNamed'
    BY <1>1, <1>2 DEF FormsInv, KeysAreNamed, Sends
  <1>5. RefsAreOfThisLife'
    BY <1>1 DEF FormsInv, RefsAreOfThisLife, Refs, Ref
  <1>6. IntentIsRemembered'
    BY <1>1 DEF FormsInv, IntentIsRemembered, Ref
  <1>7. ToldMeansDone'
    BY <1>1 DEF FormsInv, ToldMeansDone
  <1> QED
    BY <1>2, <1>3, <1>4, <1>5, <1>6, <1>7 DEF FormsInv

\* A request is one of the record, and the fields of its moves.
LEMMA MadeIsSent ==
  ASSUME FormsInv, NEW n \in Made
  PROVE  n \in Sends /\ sends[n] \in Submission
  BY DEF FormsInv, FormsTypeOK, Made

\* The server's and the client's moves that change nothing but the request.
LEMMA MovesStep ==
  ASSUME FormsInv, NEW n \in Sends, Reject(n) \/ Acknowledge(n) \/ FormFails(n)
  PROVE  FormsInv'
  <1>1. n \in Made /\ sends[n] \in Submission
    BY MadeIsSent DEF Reject, Acknowledge, FormFails
  <1>2. UNCHANGED <<keyedForm, filled, attempts, effects, mount, turn>>
    BY DEF Reject, Acknowledge, FormFails
  <1>3. CASE Reject(n)
    <2> DEFINE t == [sends[n] EXCEPT !.server = "rejected"]
    <2>1. sends' = [sends EXCEPT ![n] = t]
      BY <1>3, Zenon DEF Reject
    <2>2. /\ t \in Submission /\ t.payload = sends[n].payload /\ t.key = sends[n].key
          /\ t.mount = sends[n].mount /\ t.turn = sends[n].turn /\ t.past = sends[n].past
          /\ t.server = "rejected" /\ t.client = sends[n].client
      BY <1>1 DEF Submission
    <2>3. sends[n].client \notin {"settling", "done"}
      BY <1>1, <1>3 DEF Reject, FormsInv, ToldMeansDone
    <2> HIDE DEF t
    <2> QED
      BY <1>1, <1>2, <2>1, <2>2, <2>3, SendOnly
  <1>4. CASE Acknowledge(n)
    <2> DEFINE t == [sends[n] EXCEPT !.client = "settling"]
    <2>1. sends' = [sends EXCEPT ![n] = t]
      BY <1>4, Zenon DEF Acknowledge
    <2>2. /\ t \in Submission /\ t.payload = sends[n].payload /\ t.key = sends[n].key
          /\ t.mount = sends[n].mount /\ t.turn = sends[n].turn /\ t.past = sends[n].past
          /\ t.server = sends[n].server /\ t.client = "settling"
      BY <1>1 DEF Submission
    <2>3. sends[n].server = "done" /\ sends[n].client = "waiting"
      BY <1>4 DEF Acknowledge
    <2> HIDE DEF t
    <2> QED
      BY <1>1, <1>2, <2>1, <2>2, <2>3, SendOnly
  <1>5. CASE FormFails(n)
    <2> DEFINE t == [sends[n] EXCEPT !.client = "failed"]
    <2>1. sends' = [sends EXCEPT ![n] = t]
      BY <1>5, Zenon DEF FormFails
    <2>2. /\ t \in Submission /\ t.payload = sends[n].payload /\ t.key = sends[n].key
          /\ t.mount = sends[n].mount /\ t.turn = sends[n].turn /\ t.past = sends[n].past
          /\ t.server = sends[n].server /\ t.client = "failed"
      BY <1>1 DEF Submission
    <2>3. sends[n].client = "waiting"
      BY <1>5 DEF FormFails
    <2> HIDE DEF t
    <2> QED
      BY <1>1, <1>2, <2>1, <2>2, <2>3, SendOnly
  <1> QED
    BY <1>3, <1>4, <1>5

\* The user edits the form, or leaves the page: an intent of its own begins,
\* and a page that is left takes its refs with it.
LEMMA EditStep ==
  ASSUME FormsInv, LeavePage \/ \E p \in Payloads : Edit(p)
  PROVE  FormsInv'
  <1>1. UNCHANGED <<keyedForm, sends, effects>> /\ turn' = turn + 1
    BY DEF Edit, LeavePage
  <1>2. filled' \in Refs
    BY DEF Edit, LeavePage, Refs
  <1>3. Made' = Made
    BY <1>1 DEF Made, Sends
  <1>4. /\ \A r \in Refs : attempts'[r] # Blank => attempts'[r] = attempts[r] /\ mount' = mount
        /\ attempts' \in [Refs -> KeyAttempt \cup {Blank}] /\ mount' \in Nat
    <2>1. CASE LeavePage
      BY <2>1 DEF LeavePage, NoRefs, FormsInv, FormsTypeOK
    <2>2. CASE \E p \in Payloads : Edit(p)
      BY <2>2 DEF Edit, FormsInv, FormsTypeOK
    <2> QED
      BY <2>1, <2>2
  <1>5. FormsTypeOK'
    BY <1>1, <1>2, <1>4 DEF FormsInv, FormsTypeOK, Refs, Sends
  <1>6. KeysAreNamed' /\ IntentHasOneKey' /\ LaterKeysDiffer' /\ ToldMeansDone'
    BY <1>1, <1>3 DEF FormsInv, KeysAreNamed, IntentHasOneKey, LaterKeysDiffer, ToldMeansDone, Sends
  <1>7. RefsAreOfThisLife'
    BY <1>1, <1>3, <1>4 DEF FormsInv, RefsAreOfThisLife, Refs, Ref
  <1>8. IntentIsRemembered'
    <2> SUFFICES ASSUME NEW n \in Made PROVE sends[n].turn <= turn + 1 /\ sends[n].turn # turn + 1
      BY <1>1, <1>3 DEF IntentIsRemembered
    <2>1. sends[n].turn \in Nat /\ turn \in Nat /\ sends[n].turn <= turn
      BY MadeIsSent DEF FormsInv, FormsTypeOK, IntentIsRemembered, Submission
    <2> QED
      BY <2>1
  <1> QED
    BY <1>5, <1>6, <1>7, <1>8 DEF FormsInv

\* The server applies a request, or answers as it did for the same key.
LEMMA ApplyStep ==
  ASSUME FormsInv, NEW n \in Sends, Apply(n)
  PROVE  FormsInv'
  <1> DEFINE t == [sends[n] EXCEPT !.server = "done"]
             k == sends[n].key
  <1>1. n \in Made /\ sends[n] \in Submission /\ k \in Sends /\ sends[n].server = "sent"
    BY MadeIsSent DEF Apply, Submission
  <1>2. sends' = [sends EXCEPT ![n] = t] /\ UNCHANGED <<keyedForm, filled, attempts, mount, turn>>
    BY Zenon DEF Apply
  <1>3. /\ t \in Submission /\ t.payload = sends[n].payload /\ t.key = sends[n].key
        /\ t.mount = sends[n].mount /\ t.turn = sends[n].turn /\ t.past = sends[n].past
        /\ t.server = "done" /\ t.client = sends[n].client
    BY <1>1 DEF Submission
  <1>4. sends[n].client # "done"
    BY <1>1 DEF FormsInv, ToldMeansDone
  <1>5. /\ effects' \in [Sends -> Sends \cup {Blank}] /\ effects'[k] # Blank
        /\ \A i \in Sends : effects[i] # Blank => effects'[i] = effects[i]
        /\ \A i \in Sends : effects'[i] = effects[i] \/ (i = k /\ effects'[i] = n)
    <2>1. effects' = [effects EXCEPT ![k] = IF effects[k] = Blank THEN n ELSE effects[k]]
      BY DEF Apply
    <2>2. n # Blank /\ effects \in [Sends -> Sends \cup {Blank}]
      BY BlankAssumption DEF FormsInv, FormsTypeOK, Sends
    <2> HIDE DEF k
    <2> QED
      BY <1>1, <2>1, <2>2
  <1> HIDE DEF t
  <1>6. /\ sends' \in [Sends -> Submission \cup {Blank}] /\ Made' = Made /\ sends'[n] = t
        /\ \A m \in Made : m # n => sends'[m] = sends[m]
        /\ \A m \in Made : /\ sends'[m].payload = sends[m].payload /\ sends'[m].key = sends[m].key
                          /\ sends'[m].mount = sends[m].mount /\ sends'[m].turn = sends[m].turn
                          /\ sends'[m].past = sends[m].past
    BY <1>1, <1>2, <1>3, SendMoves
  <1>7. /\ IntentHasOneKey' /\ LaterKeysDiffer'
        /\ \A m \in Made' : sends'[m].key \in Made' /\ sends'[sends'[m].key].key = sends'[m].key
    BY <1>1, <1>2, <1>3, <1>4, MovedKeys
  <1>8. FormsTypeOK'
    BY <1>2, <1>5, <1>6 DEF FormsInv, FormsTypeOK, Refs, Sends
  <1>9. KeysAreNamed'
    <2> SUFFICES ASSUME NEW i \in Sends, effects'[i] # Blank
                 PROVE  effects'[i] \in Made' /\ sends'[effects'[i]].key = i
      BY <1>7 DEF KeysAreNamed, Sends
    <2>1. CASE effects'[i] = effects[i]
      BY <1>6, <2>1 DEF FormsInv, KeysAreNamed
    <2>2. CASE i = k /\ effects'[i] = n
      BY <1>1, <1>6, <2>2
    <2> QED
      BY <1>5, <2>1, <2>2
  <1>10. RefsAreOfThisLife'
    BY <1>2, <1>3, <1>6 DEF FormsInv, RefsAreOfThisLife, Refs, Ref
  <1>11. IntentIsRemembered'
    BY <1>2, <1>6 DEF FormsInv, IntentIsRemembered, Ref
  <1>12. ToldMeansDone'
    <2> SUFFICES ASSUME NEW m \in Made
                 PROVE  /\ sends'[m].client \in {"settling", "done"} => sends'[m].server = "done"
                        /\ sends'[m].server = "done" => effects'[sends'[m].key] # Blank
      BY <1>6 DEF ToldMeansDone
    <2>1. CASE m = n
      BY <1>1, <1>3, <1>5, <1>6, <2>1
    <2>2. CASE m # n
      <3>1. sends[m].key \in Sends
        BY MadeIsSent DEF Submission
      <3> QED
        BY <1>5, <1>6, <2>2, <3>1 DEF FormsInv, ToldMeansDone
    <2> QED
      BY <2>1, <2>2
  <1> QED
    BY <1>7, <1>8, <1>9, <1>10, <1>11, <1>12 DEF FormsInv

\* A request comes to its end: its attempt is forgotten if the page is the one
\* it was made on, and is gone already if it is not.
LEMMA SettleStep ==
  ASSUME FormsInv, NEW n \in Sends, Settle(n)
  PROVE  FormsInv'
  <1> DEFINE t == [sends[n] EXCEPT !.client = "done"]
             r0 == Ref(sends[n].payload)
  <1>1. n \in Made /\ sends[n] \in Submission /\ sends[n].client = "settling" /\ sends[n].payload \in Payloads
    BY MadeIsSent DEF Settle, Submission
  <1>2. sends' = [sends EXCEPT ![n] = t] /\ UNCHANGED <<keyedForm, effects>>
    BY Zenon DEF Settle
  <1>3. /\ t \in Submission /\ t.payload = sends[n].payload /\ t.key = sends[n].key
        /\ t.mount = sends[n].mount /\ t.turn = sends[n].turn /\ t.past = sends[n].past
        /\ t.server = sends[n].server /\ t.client = "done"
    BY <1>1 DEF Submission
  <1>4. sends[n].server = "done"
    BY <1>1 DEF FormsInv, ToldMeansDone
  <1> HIDE DEF t
  <1>5. /\ sends' \in [Sends -> Submission \cup {Blank}] /\ Made' = Made /\ sends'[n] = t
        /\ \A m \in Made : m # n => sends'[m] = sends[m]
        /\ \A m \in Made : /\ sends'[m].payload = sends[m].payload /\ sends'[m].key = sends[m].key
                          /\ sends'[m].mount = sends[m].mount /\ sends'[m].turn = sends[m].turn
                          /\ sends'[m].past = sends[m].past
    BY <1>1, <1>2, <1>3, SendMoves
  <1>6. /\ IntentHasOneKey' /\ LaterKeysDiffer'
        /\ \A m \in Made' : sends'[m].key \in Made' /\ sends'[sends'[m].key].key = sends'[m].key
    BY <1>1, <1>2, <1>3, MovedKeys
  <1>7. KeysAreNamed'
    BY <1>2, <1>5, <1>6 DEF FormsInv, KeysAreNamed, Sends
  <1>8. ToldMeansDone'
    BY <1>2, <1>3, <1>4, <1>5 DEF FormsInv, ToldMeansDone
  <1>9. r0 \in Refs
    BY <1>1 DEF Ref, Refs
  <1>10. /\ attempts' \in [Refs -> KeyAttempt \cup {Blank}] /\ filled' \in Refs /\ mount' \in Nat /\ turn' \in Nat
         /\ \A r \in Refs : attempts'[r] # Blank =>
              attempts'[r] = attempts[r] /\ mount' = mount /\ (r # r0 \/ sends[n].mount # mount)
         /\ \/ turn' = turn + 1
            \/ UNCHANGED <<attempts, filled, turn>>
    <2>1. CASE keyedForm.leaves
      BY <2>1 DEF Settle, NoRefs, Refs, FormsInv, FormsTypeOK
    <2>2. CASE ~keyedForm.leaves /\ Mine(n)
      <3>1. /\ attempts' = [attempts EXCEPT ![r0] = Blank] /\ filled' \in {filled, Blank}
            /\ turn' = turn + 1 /\ mount' = mount
        BY <2>2 DEF Settle, ForgetAttempt
      <3> HIDE DEF r0
      <3> QED
        BY <1>9, <3>1 DEF FormsInv, FormsTypeOK, Refs
    <2>3. CASE ~keyedForm.leaves /\ ~Mine(n)
      BY <2>3 DEF Settle, Mine, FormsInv, FormsTypeOK
    <2> QED
      BY <2>1, <2>2, <2>3
  <1>11. FormsTypeOK'
    BY <1>2, <1>5, <1>10 DEF FormsInv, FormsTypeOK, Refs, Sends
  <1>12. RefsAreOfThisLife'
    <2> SUFFICES ASSUME NEW r \in Refs, attempts'[r] # Blank
                 PROVE  /\ attempts'[r].key \in Made /\ sends'[attempts'[r].key].key = attempts'[r].key
                        /\ \A m \in Made : sends'[m].key = attempts'[r].key =>
                             Ref(sends[m].payload)' = r /\ sends'[m].mount = mount' /\ sends'[m].client # "done"
      BY <1>5 DEF RefsAreOfThisLife, Refs
    <2>1. attempts'[r] = attempts[r] /\ mount' = mount /\ (r # r0 \/ sends[n].mount # mount)
      BY <1>10
    <2>2. ASSUME NEW m \in Made, sends[m].key = attempts[r].key
          PROVE  Ref(sends[m].payload) = r /\ sends[m].mount = mount /\ sends[m].client # "done" /\ m # n
      BY <2>1, <2>2 DEF FormsInv, RefsAreOfThisLife
    <2>3. \A m \in Made : Ref(sends[m].payload)' = Ref(sends[m].payload)
      BY <1>2, <1>5 DEF Ref
    <2>4. attempts[r].key \in Made /\ sends[attempts[r].key].key = attempts[r].key
      BY <2>1 DEF FormsInv, RefsAreOfThisLife
    <2> QED
      BY <1>5, <2>1, <2>2, <2>3, <2>4
  <1>13. IntentIsRemembered'
    <2>1. CASE UNCHANGED <<attempts, filled, turn>>
      BY <1>2, <1>5, <2>1 DEF FormsInv, IntentIsRemembered, Ref
    <2>2. CASE turn' = turn + 1
      <3> SUFFICES ASSUME NEW m \in Made PROVE sends[m].turn <= turn + 1 /\ sends[m].turn # turn + 1
        BY <1>5, <2>2 DEF IntentIsRemembered
      <3>1. sends[m].turn \in Nat /\ turn \in Nat /\ sends[m].turn <= turn
        BY MadeIsSent DEF FormsInv, FormsTypeOK, IntentIsRemembered, Submission
      <3> QED
        BY <3>1
    <2> QED
      BY <1>10, <2>1, <2>2
  <1> QED
    BY <1>6, <1>7, <1>8, <1>11, <1>12, <1>13 DEF FormsInv

\* The attempt of a request: the one the ref remembers if it says the same,
\* else one with a key of its own (stableIdempotencyKey).
LEMMA AttemptOf ==
  ASSUME FormsInv, NEW n \in Sends, NEW p \in Payloads
  PROVE  LET a == stableIdempotencyKey(n, p) IN
         /\ a \in KeyAttempt /\ a.fingerprint = Fingerprint(n, p)
         /\ \/ a.key = n
            \/ attempts[Ref(p)] # Blank /\ a = attempts[Ref(p)]
         /\ (attempts[Ref(p)] # Blank /\ attempts[Ref(p)].fingerprint = Fingerprint(n, p)) => a = attempts[Ref(p)]
  <1> DEFINE f == Fingerprint(n, p)
             b == [fingerprint |-> f, key |-> n]
  <1>1. f \in {<<q>> : q \in Payloads} \cup (Payloads \X Sends)
    BY DEF Fingerprint
  <1>2. b \in KeyAttempt /\ b.fingerprint = f /\ b.key = n
    BY <1>1 DEF KeyAttempt
  <1>3. Ref(p) \in Refs
    BY DEF Ref, Refs
  <1>4. attempts[Ref(p)] # Blank => attempts[Ref(p)] \in KeyAttempt
    BY <1>3 DEF FormsInv, FormsTypeOK
  <1>5. stableIdempotencyKey(n, p) =
          IF attempts[Ref(p)] # Blank /\ attempts[Ref(p)].fingerprint = f THEN attempts[Ref(p)] ELSE b
    BY DEF stableIdempotencyKey
  <1> HIDE DEF f, b
  <1> QED
    BY <1>2, <1>4, <1>5 DEF f

\* The form is submitted.
LEMMA SubmitStep ==
  ASSUME FormsInv, NEW n \in Sends, SubmitForm(n)
  PROVE  FormsInv'
  <1> DEFINE a == stableIdempotencyKey(n, filled)
             r0 == Ref(filled)
             P == {m \in Made : sends[m].client = "done"}
             t == [payload |-> filled, key |-> a.key, mount |-> mount, turn |-> turn, past |-> P,
                   server |-> "sent", client |-> "waiting"]
  <1>1. n \notin Made /\ filled \in Payloads /\ mount \in Nat /\ turn \in Nat /\ P \in SUBSET Sends
    BY DEF SubmitForm, CanSubmit, Valid, FormsInv, FormsTypeOK, Refs, Made
  <1>2. /\ attempts' = [attempts EXCEPT ![r0] = a] /\ sends' = [sends EXCEPT ![n] = t]
        /\ UNCHANGED <<keyedForm, filled, effects, mount, turn>>
    BY DEF SubmitForm
  <1>3. /\ a \in KeyAttempt /\ a.fingerprint = Fingerprint(n, filled) /\ a.key \in Sends
        /\ a.key = n \/ (attempts[r0] # Blank /\ a = attempts[r0])
        /\ (attempts[r0] # Blank /\ attempts[r0].fingerprint = Fingerprint(n, filled)) => a = attempts[r0]
    BY <1>1, AttemptOf DEF KeyAttempt
  <1>4. r0 \in Refs
    BY <1>1 DEF Ref, Refs
  <1> HIDE DEF a, P
  <1>5. /\ t \in Submission /\ t.payload = filled /\ t.key = a.key /\ t.mount = mount /\ t.turn = turn
        /\ t.past = P /\ t.server = "sent" /\ t.client = "waiting"
    BY <1>1, <1>3 DEF Submission
  <1> HIDE DEF t
  <1>6. /\ sends' \in [Sends -> Submission \cup {Blank}] /\ sends'[n] = t
        /\ \A m \in Sends : m # n => sends'[m] = sends[m]
    BY <1>2, <1>5 DEF FormsInv, FormsTypeOK
  <1>7. Made' = Made \cup {n} /\ \A m \in Made : m # n /\ m \in Sends /\ sends'[m] = sends[m]
    <2>1. t # Blank
      BY <1>5, BlankAssumption
    <2>2. Made' = {m \in Sends : sends'[m] # Blank} /\ Made = {m \in Sends : sends[m] # Blank}
      BY DEF Made, Sends
    <2>3. \A m \in Sends : m \in Made' <=> m = n \/ m \in Made
      BY <1>6, <2>1, <2>2
    <2> QED
      BY <1>1, <1>6, <2>2, <2>3
  <1>8. /\ attempts' \in [Refs -> KeyAttempt \cup {Blank}] /\ attempts'[r0] = a
        /\ \A r \in Refs : r # r0 => attempts'[r] = attempts[r]
    BY <1>2, <1>3, <1>4 DEF FormsInv, FormsTypeOK
  <1>9. FormsTypeOK'
    BY <1>2, <1>6, <1>8 DEF FormsInv, FormsTypeOK, Refs, Sends
  <1>10. a.key # n => /\ attempts[r0] # Blank /\ a = attempts[r0] /\ a.key \in Made /\ sends[a.key].key = a.key
                      /\ \A m \in Made : sends[m].key = a.key =>
                           Ref(sends[m].payload) = r0 /\ sends[m].mount = mount /\ sends[m].client # "done"
    BY <1>3, <1>4 DEF FormsInv, RefsAreOfThisLife
  <1>11. \A m \in Made : sends[m].key \in Made /\ sends[m].key # n
    BY <1>1 DEF FormsInv, KeysAreNamed
  <1>12. KeysAreNamed'
    <2>1. \A m \in Made' : sends'[m].key \in Made' /\ sends'[sends'[m].key].key = sends'[m].key
      <3> SUFFICES ASSUME NEW m \in Made'
                   PROVE  sends'[m].key \in Made' /\ sends'[sends'[m].key].key = sends'[m].key
        OBVIOUS
      <3>1. CASE m = n
        BY <1>5, <1>6, <1>7, <1>10, <3>1
      <3>2. CASE m \in Made
        BY <1>7, <1>11, <3>2 DEF FormsInv, KeysAreNamed
      <3> QED
        BY <1>7, <3>1, <3>2
    <2>2. \A k \in Sends : effects[k] # Blank => effects[k] \in Made' /\ sends'[effects[k]].key = k
      BY <1>7 DEF FormsInv, KeysAreNamed
    <2> QED
      BY <1>2, <2>1, <2>2 DEF KeysAreNamed, Sends
  <1>13. RefsAreOfThisLife'
    <2> SUFFICES ASSUME NEW r \in Refs, attempts'[r] # Blank
                 PROVE  /\ attempts'[r].key \in Made' /\ sends'[attempts'[r].key].key = attempts'[r].key
                        /\ \A m \in Made' : sends'[m].key = attempts'[r].key =>
                             Ref(sends[m].payload)' = r /\ sends'[m].mount = mount' /\ sends'[m].client # "done"
      BY DEF RefsAreOfThisLife, Refs
    <2>1. \A m \in Made : Ref(sends[m].payload)' = Ref(sends[m].payload)
      BY <1>2, <1>7 DEF Ref
    <2>2. Ref(sends[n].payload)' = r0
      BY <1>2, <1>5, <1>6 DEF Ref
    <2>3. CASE r = r0
      BY <1>2, <1>5, <1>6, <1>7, <1>8, <1>10, <1>11, <2>1, <2>2, <2>3
    <2>4. CASE r # r0
      <3>1. attempts[r] # Blank /\ attempts'[r] = attempts[r]
        BY <1>8, <2>4
      <3>2. /\ attempts[r].key \in Made /\ sends[attempts[r].key].key = attempts[r].key
            /\ \A m \in Made : sends[m].key = attempts[r].key =>
                 Ref(sends[m].payload) = r /\ sends[m].mount = mount /\ sends[m].client # "done"
        BY <3>1 DEF FormsInv, RefsAreOfThisLife
      <3>3. a.key # attempts[r].key
        BY <1>1, <1>10, <2>4, <3>2
      <3> QED
        BY <1>2, <1>5, <1>6, <1>7, <2>1, <3>1, <3>2, <3>3
    <2> QED
      BY <2>3, <2>4
  <1>14. \A m \in Made : (keyedForm.stable /\ sends[m].turn = turn) => sends[m].key = a.key
    <2> SUFFICES ASSUME NEW m \in Made, keyedForm.stable, sends[m].turn = turn PROVE sends[m].key = a.key
      OBVIOUS
    <2>1. /\ attempts[r0] # Blank /\ attempts[r0].fingerprint = <<filled>> /\ attempts[r0].key = sends[m].key
      BY DEF FormsInv, IntentIsRemembered
    <2>2. Fingerprint(n, filled) = <<filled>>
      BY DEF Fingerprint
    <2> QED
      BY <1>3, <2>1, <2>2
  <1>15. IntentIsRemembered'
    <2> SUFFICES ASSUME NEW m \in Made'
                 PROVE  /\ sends'[m].turn <= turn
                        /\ (keyedForm.stable /\ sends'[m].turn = turn) =>
                             /\ a # Blank /\ a.fingerprint = <<filled>> /\ a.key = sends'[m].key
      <3>1. Ref(filled)' = r0
        BY <1>2 DEF Ref
      <3> QED
        BY <1>2, <1>8, <3>1 DEF IntentIsRemembered
    <2>1. keyedForm.stable => a.fingerprint = <<filled>>
      BY <1>3 DEF Fingerprint
    <2>2. a # Blank
      BY <1>3, BlankAssumption
    <2>3. CASE m = n
      BY <1>1, <1>5, <1>6, <2>1, <2>2, <2>3
    <2>4. CASE m \in Made
      BY <1>7, <1>14, <2>1, <2>2, <2>4 DEF FormsInv, IntentIsRemembered
    <2> QED
      BY <1>7, <2>3, <2>4
  <1>16. IntentHasOneKey'
    <2> SUFFICES ASSUME NEW m \in Made', NEW q \in Made', keyedForm.stable, sends'[m].turn = sends'[q].turn
                 PROVE  sends'[m].key = sends'[q].key
      BY <1>2 DEF IntentHasOneKey
    <2>1. CASE m \in Made /\ q \in Made
      BY <1>7, <2>1 DEF FormsInv, IntentHasOneKey
    <2>2. CASE m = n \/ q = n
      BY <1>5, <1>6, <1>7, <1>14, <2>2
    <2> QED
      BY <1>7, <2>1, <2>2
  <1>17. LaterKeysDiffer'
    <2> SUFFICES ASSUME NEW m \in Made', NEW q \in sends'[m].past
                 PROVE  q \in Made' /\ sends'[q].client = "done" /\ sends'[q].key # sends'[m].key
      BY DEF LaterKeysDiffer
    <2>1. CASE m \in Made
      BY <1>7, <2>1 DEF FormsInv, LaterKeysDiffer
    <2>2. CASE m = n
      <3>1. q \in Made /\ sends[q].client = "done"
        BY <1>5, <1>6, <2>2 DEF P
      <3> QED
        BY <1>5, <1>6, <1>7, <1>10, <1>11, <2>2, <3>1
    <2> QED
      BY <1>7, <2>1, <2>2
  <1>18. ToldMeansDone'
    BY <1>2, <1>5, <1>6, <1>7 DEF FormsInv, ToldMeansDone
  <1> QED
    BY <1>9, <1>12, <1>13, <1>15, <1>16, <1>17, <1>18 DEF FormsInv

\* Every step of the user, of the server and of the requests.
LEMMA FormsInductive == FormsInv /\ [FormsNext]_formVars => FormsInv'
  <1> SUFFICES ASSUME FormsInv, [FormsNext]_formVars PROVE FormsInv'
    OBVIOUS
  <1>1. CASE UNCHANGED formVars
    <2>1. UNCHANGED <<keyedForm, filled, attempts, sends, effects, mount, turn>>
      BY <1>1 DEF formVars
    <2>2. Made' = Made /\ \A p : Ref(p)' = Ref(p)
      BY <2>1 DEF Made, Sends, Ref
    <2> QED
      BY <2>1, <2>2 DEF FormsInv, FormsTypeOK, KeysAreNamed, RefsAreOfThisLife, IntentIsRemembered,
                        IntentHasOneKey, LaterKeysDiffer, ToldMeansDone, Refs, Sends, Ref
  <1> QED
    BY <1>1, EditStep, SubmitStep, ApplyStep, MovesStep, SettleStep DEF FormsNext

\* The inductive invariant of a form holds in every reachable state.
THEOREM FormsInvariant == FormsSpec => []FormsInv
  BY FormsInitially, FormsInductive, PTL DEF FormsSpec

\* However often an unedited form is submitted, the server acts once.
THEOREM IntentActsOnce == FormsSpec => []OneEffectPerIntent
  <1>1. FormsInv => OneEffectPerIntent
    BY DEF FormsInv, IntentHasOneKey, OneEffectPerIntent, Effect
  <1> QED
    BY <1>1, FormsInvariant, PTL

\* A success the user is told of is never the replay of an earlier one.
THEOREM SuccessesAreDistinct == FormsSpec => []EachSuccessIsItsOwn
  <1>1. ASSUME FormsInv PROVE EachSuccessIsItsOwn
    <2> SUFFICES ASSUME NEW m \in Made, sends[m].client \in {"settling", "done"}, NEW n \in sends[m].past
                 PROVE  effects[sends[n].key] # effects[sends[m].key]
      BY DEF EachSuccessIsItsOwn, Effect
    <2>1. n \in Made /\ sends[n].client = "done" /\ sends[n].key # sends[m].key
      BY <1>1 DEF FormsInv, LaterKeysDiffer
    <2>2. effects[sends[n].key] # Blank /\ effects[sends[m].key] # Blank
      BY <1>1, <2>1 DEF FormsInv, ToldMeansDone
    <2>3. sends[n].key \in Sends /\ sends[m].key \in Sends
      BY <1>1, <2>1, MadeIsSent DEF Submission
    <2> QED
      BY <1>1, <2>1, <2>2, <2>3 DEF FormsInv, KeysAreNamed
  <1> QED
    BY <1>1, FormsInvariant, PTL

\* The requests that carry one key say the same, and what the ref that holds
\* the key remembers is what they say.
KeyContents ==
  /\ KeyMeansContents
  /\ \A r \in Refs : attempts[r] # Blank =>
       \A n \in Made : sends[n].key = attempts[r].key => attempts[r].fingerprint[1] = sends[n].payload

\* What a move of a request other than the server's Apply leaves as it was.
LEMMA RequestMoves ==
  ASSUME FormsInv, NEW n \in Sends, Reject(n) \/ Acknowledge(n) \/ FormFails(n) \/ Settle(n)
  PROVE  /\ Made' = Made /\ effects' = effects
         /\ \A m \in Made : /\ sends'[m].payload = sends[m].payload /\ sends'[m].key = sends[m].key
                            /\ sends'[m].server = "done" <=> sends[m].server = "done"
         /\ \A r \in Refs : attempts'[r] # Blank => attempts'[r] = attempts[r]
  <1>1. n \in Made /\ sends[n] \in Submission
    BY MadeIsSent DEF Reject, Acknowledge, FormFails, Settle
  <1>2. ASSUME NEW t \in Submission, sends' = [sends EXCEPT ![n] = t],
               t.payload = sends[n].payload, t.key = sends[n].key, t.mount = sends[n].mount,
               t.turn = sends[n].turn, t.past = sends[n].past,
               t.server = "done" <=> sends[n].server = "done"
        PROVE  /\ Made' = Made
               /\ \A m \in Made : /\ sends'[m].payload = sends[m].payload /\ sends'[m].key = sends[m].key
                                  /\ sends'[m].server = "done" <=> sends[m].server = "done"
    <2>1. /\ Made' = Made /\ sends'[n] = t
          /\ \A m \in Made : m # n => sends'[m] = sends[m]
          /\ \A m \in Made : sends'[m].payload = sends[m].payload /\ sends'[m].key = sends[m].key
      BY <1>1, <1>2, SendMoves
    <2> QED
      BY <1>2, <2>1
  <1>3. CASE Reject(n)
    <2> DEFINE t == [sends[n] EXCEPT !.server = "rejected"]
    <2>1. sends' = [sends EXCEPT ![n] = t] /\ UNCHANGED <<attempts, effects>> /\ sends[n].server = "sent"
      BY <1>3, Zenon DEF Reject
    <2>2. /\ t \in Submission /\ t.payload = sends[n].payload /\ t.key = sends[n].key
          /\ t.mount = sends[n].mount /\ t.turn = sends[n].turn /\ t.past = sends[n].past
          /\ t.server = "rejected"
      BY <1>1 DEF Submission
    <2> HIDE DEF t
    <2> QED
      BY <1>2, <2>1, <2>2
  <1>4. CASE Acknowledge(n)
    <2> DEFINE t == [sends[n] EXCEPT !.client = "settling"]
    <2>1. sends' = [sends EXCEPT ![n] = t] /\ UNCHANGED <<attempts, effects>>
      BY <1>4, Zenon DEF Acknowledge
    <2>2. /\ t \in Submission /\ t.payload = sends[n].payload /\ t.key = sends[n].key
          /\ t.mount = sends[n].mount /\ t.turn = sends[n].turn /\ t.past = sends[n].past
          /\ t.server = sends[n].server
      BY <1>1 DEF Submission
    <2> HIDE DEF t
    <2> QED
      BY <1>2, <2>1, <2>2
  <1>5. CASE FormFails(n)
    <2> DEFINE t == [sends[n] EXCEPT !.client = "failed"]
    <2>1. sends' = [sends EXCEPT ![n] = t] /\ UNCHANGED <<attempts, effects>>
      BY <1>5, Zenon DEF FormFails
    <2>2. /\ t \in Submission /\ t.payload = sends[n].payload /\ t.key = sends[n].key
          /\ t.mount = sends[n].mount /\ t.turn = sends[n].turn /\ t.past = sends[n].past
          /\ t.server = sends[n].server
      BY <1>1 DEF Submission
    <2> HIDE DEF t
    <2> QED
      BY <1>2, <2>1, <2>2
  <1>6. CASE Settle(n)
    <2> DEFINE t == [sends[n] EXCEPT !.client = "done"]
    <2>1. sends' = [sends EXCEPT ![n] = t] /\ effects' = effects
      BY <1>6, Zenon DEF Settle
    <2>2. /\ t \in Submission /\ t.payload = sends[n].payload /\ t.key = sends[n].key
          /\ t.mount = sends[n].mount /\ t.turn = sends[n].turn /\ t.past = sends[n].past
          /\ t.server = sends[n].server
      BY <1>1 DEF Submission
    <2>3. \A r \in Refs : attempts'[r] # Blank => attempts'[r] = attempts[r]
      BY <1>6 DEF Settle, NoRefs, ForgetAttempt, FormsInv, FormsTypeOK
    <2> HIDE DEF t
    <2> QED
      BY <1>2, <2>1, <2>2, <2>3
  <1> QED
    BY <1>3, <1>4, <1>5, <1>6

\* What the server's Apply changes: the request is done, and its key has an
\* effect if it had none.
LEMMA ApplyMoves ==
  ASSUME FormsInv, NEW n \in Sends, Apply(n)
  PROVE  /\ n \in Made /\ sends[n].server = "sent" /\ sends[n].key \in Sends
         /\ Made' = Made /\ attempts' = attempts
         /\ sends'[n].server = "done"
         /\ \A m \in Made : /\ sends'[m].payload = sends[m].payload /\ sends'[m].key = sends[m].key
                            /\ m # n => sends'[m] = sends[m]
         /\ effects[sends[n].key] # Blank => effects' = effects
         /\ effects[sends[n].key] = Blank =>
              \A i \in Sends : effects'[i] = IF i = sends[n].key THEN n ELSE effects[i]
  <1> DEFINE t == [sends[n] EXCEPT !.server = "done"]
             k == sends[n].key
  <1>1. n \in Made /\ sends[n] \in Submission /\ k \in Sends /\ sends[n].server = "sent"
    BY MadeIsSent DEF Apply, Submission
  <1>2. sends' = [sends EXCEPT ![n] = t] /\ attempts' = attempts
    BY Zenon DEF Apply
  <1>3. /\ t \in Submission /\ t.payload = sends[n].payload /\ t.key = sends[n].key
        /\ t.mount = sends[n].mount /\ t.turn = sends[n].turn /\ t.past = sends[n].past
        /\ t.server = "done"
    BY <1>1 DEF Submission
  <1>4. effects' = [effects EXCEPT ![k] = IF effects[k] = Blank THEN n ELSE effects[k]]
    BY DEF Apply
  <1>5. effects \in [Sends -> Sends \cup {Blank}]
    BY DEF FormsInv, FormsTypeOK
  <1> HIDE DEF t
  <1>6. /\ Made' = Made /\ sends'[n] = t
        /\ \A m \in Made : m # n => sends'[m] = sends[m]
        /\ \A m \in Made : sends'[m].payload = sends[m].payload /\ sends'[m].key = sends[m].key
    BY <1>1, <1>2, <1>3, SendMoves
  <1>7. /\ effects[k] # Blank => effects' = effects
        /\ effects[k] = Blank => \A i \in Sends : effects'[i] = IF i = k THEN n ELSE effects[i]
    <2> HIDE DEF k
    <2> QED
      BY <1>1, <1>4, <1>5
  <1> QED
    BY <1>1, <1>2, <1>3, <1>6, <1>7

\* What a submission adds: one request that says what the form holds, with the
\* key of the attempt that the ref remembers from now on.
LEMMA SubmitMoves ==
  ASSUME FormsInv, NEW n \in Sends, SubmitForm(n)
  PROVE  LET a == stableIdempotencyKey(n, filled) IN
         /\ n \notin Made /\ filled \in Payloads /\ a.key \in Sends /\ a.fingerprint[1] = filled
         /\ a.key = n \/ (attempts[Ref(filled)] # Blank /\ a = attempts[Ref(filled)])
         /\ Made' = Made \cup {n} /\ effects' = effects
         /\ sends'[n].key = a.key /\ sends'[n].payload = filled /\ sends'[n].server = "sent"
         /\ \A m \in Made : sends'[m] = sends[m]
         /\ Ref(filled) \in Refs /\ attempts'[Ref(filled)] = a
         /\ \A r \in Refs : r # Ref(filled) => attempts'[r] = attempts[r]
  <1> DEFINE a == stableIdempotencyKey(n, filled)
             r0 == Ref(filled)
             P == {m \in Made : sends[m].client = "done"}
             t == [payload |-> filled, key |-> a.key, mount |-> mount, turn |-> turn, past |-> P,
                   server |-> "sent", client |-> "waiting"]
  <1>1. n \notin Made /\ filled \in Payloads /\ mount \in Nat /\ turn \in Nat /\ P \in SUBSET Sends
    BY DEF SubmitForm, CanSubmit, Valid, FormsInv, FormsTypeOK, Refs, Made
  <1>2. /\ attempts' = [attempts EXCEPT ![r0] = a] /\ sends' = [sends EXCEPT ![n] = t] /\ effects' = effects
    BY DEF SubmitForm
  <1>3. /\ a \in KeyAttempt /\ a.fingerprint = Fingerprint(n, filled) /\ a.key \in Sends
        /\ a.key = n \/ (attempts[r0] # Blank /\ a = attempts[r0])
    BY <1>1, AttemptOf DEF KeyAttempt
  <1>4. Fingerprint(n, filled)[1] = filled
    BY DEF Fingerprint
  <1>5. r0 \in Refs
    BY <1>1 DEF Ref, Refs
  <1> HIDE DEF a, P
  <1>6. /\ t \in Submission /\ t.payload = filled /\ t.key = a.key /\ t.server = "sent" /\ t # Blank
    <2>1. t \in Submission /\ t.payload = filled /\ t.key = a.key /\ t.server = "sent"
      BY <1>1, <1>3 DEF Submission
    <2> QED
      BY <2>1, BlankAssumption
  <1> HIDE DEF t
  <1>7. /\ sends'[n] = t /\ \A m \in Sends : m # n => sends'[m] = sends[m]
    BY <1>2 DEF FormsInv, FormsTypeOK
  <1>8. Made' = Made \cup {n}
    <2>1. Made' = {m \in Sends : sends'[m] # Blank} /\ Made = {m \in Sends : sends[m] # Blank}
      BY DEF Made, Sends
    <2>2. \A m \in Sends : m \in Made' <=> m = n \/ m \in Made
      BY <1>6, <1>7, <2>1
    <2> QED
      BY <2>1, <2>2
  <1>9. \A m \in Made : sends'[m] = sends[m]
    BY <1>1, <1>7 DEF Made
  <1>10. attempts'[r0] = a /\ \A r \in Refs : r # r0 => attempts'[r] = attempts[r]
    BY <1>2, <1>5 DEF FormsInv, FormsTypeOK
  <1> QED
    BY <1>1, <1>2, <1>3, <1>4, <1>5, <1>6, <1>7, <1>8, <1>9, <1>10 DEF a

\* A step that makes no request and gives no ref a key keeps the contents.
LEMMA ContentsKept ==
  ASSUME KeyContents, Made' = Made,
         \A m \in Made : sends'[m].payload = sends[m].payload /\ sends'[m].key = sends[m].key,
         \A r \in Refs : attempts'[r] # Blank => attempts'[r] = attempts[r]
  PROVE  KeyContents'
  <1>1. Refs' = Refs
    BY DEF Refs
  <1> QED
    BY <1>1 DEF KeyContents, KeyMeansContents

\* A submission takes the key of a ref only with what the ref remembers, and
\* otherwise has one that no request carries.
LEMMA ContentsOfSubmission ==
  ASSUME FormsInv, FormsInv', KeyContents, NEW n \in Sends, SubmitForm(n)
  PROVE  KeyContents'
  <1> DEFINE a == stableIdempotencyKey(n, filled)
             r0 == Ref(filled)
  <1>1. /\ n \notin Made /\ a.fingerprint[1] = filled
        /\ a.key = n \/ (attempts[r0] # Blank /\ a = attempts[r0])
        /\ Made' = Made \cup {n}
        /\ sends'[n].key = a.key /\ sends'[n].payload = filled
        /\ \A m \in Made : sends'[m] = sends[m]
        /\ r0 \in Refs /\ attempts'[r0] = a
        /\ \A r \in Refs : r # r0 => attempts'[r] = attempts[r]
    BY SubmitMoves
  <1> HIDE DEF a, r0
  <1>2. \A m \in Made : sends[m].key # n
    BY <1>1 DEF FormsInv, KeysAreNamed
  <1>3. \A m \in Made : sends[m].key = a.key => sends[m].payload = filled
    BY <1>1, <1>2 DEF KeyContents, KeyMeansContents
  <1>4. \A m, q \in Made' : sends'[m].key = sends'[q].key => sends'[m].payload = sends'[q].payload
    BY <1>1, <1>3 DEF KeyContents, KeyMeansContents
  <1>5. ASSUME NEW r \in Refs, attempts'[r] # Blank, NEW m \in Made', sends'[m].key = attempts'[r].key
        PROVE  attempts'[r].fingerprint[1] = sends'[m].payload
    <2>1. CASE r = r0
      BY <1>1, <1>3, <1>5, <2>1
    <2>2. CASE r # r0 /\ m \in Made
      BY <1>1, <1>5, <2>2 DEF KeyContents, KeyMeansContents
    <2>3. CASE r # r0 /\ m = n
      <3>1. attempts'[r] = attempts[r] /\ attempts[r] # Blank /\ a.key = attempts[r].key
        BY <1>1, <1>5, <2>3
      <3>2. attempts[r].key \in Made /\ sends[attempts[r].key].key = attempts[r].key
            /\ Ref(sends[attempts[r].key].payload) = r
        BY <3>1 DEF FormsInv, RefsAreOfThisLife
      <3>3. sends[attempts[r].key].payload = filled
        BY <1>3, <3>1, <3>2
      <3> QED
        BY <2>3, <3>2, <3>3 DEF r0
    <2> QED
      BY <1>1, <2>1, <2>2, <2>3
  <1>6. Refs' = Refs
    BY DEF Refs
  <1> QED
    BY <1>4, <1>5, <1>6 DEF KeyContents, KeyMeansContents

\* Requests with one key say the same in every reachable state.
LEMMA ContentsInductive == FormsInv /\ KeyContents /\ [FormsNext]_formVars => KeyContents'
  <1> SUFFICES ASSUME FormsInv, KeyContents, [FormsNext]_formVars PROVE KeyContents'
    OBVIOUS
  <1>1. CASE UNCHANGED <<sends, attempts>>
    <2>1. Made' = Made
      BY <1>1 DEF Made, Sends
    <2> QED
      BY <1>1, <2>1, ContentsKept
  <1>2. ASSUME NEW p \in Payloads, Edit(p) PROVE KeyContents'
    BY <1>1, <1>2 DEF Edit
  <1>3. CASE LeavePage
    <2>1. sends' = sends /\ \A r \in Refs : attempts'[r] = Blank
      BY <1>3 DEF LeavePage, NoRefs
    <2>2. Made' = Made
      BY <2>1 DEF Made, Sends
    <2> QED
      BY <2>1, <2>2, ContentsKept
  <1>4. ASSUME NEW n \in Sends, SubmitForm(n) PROVE KeyContents'
    BY <1>4, SubmitStep, ContentsOfSubmission
  <1>5. ASSUME NEW n \in Sends, Apply(n) PROVE KeyContents'
    BY <1>5, ApplyMoves, ContentsKept
  <1>6. ASSUME NEW n \in Sends, Reject(n) \/ Acknowledge(n) \/ FormFails(n) \/ Settle(n)
        PROVE  KeyContents'
    BY <1>6, RequestMoves, ContentsKept
  <1> QED
    BY <1>1, <1>2, <1>3, <1>4, <1>5, <1>6 DEF FormsNext, formVars

\* The key a request carries stands for what it says: no request ever sends a
\* key with other contents than those it was first sent with.
THEOREM KeysStandForContents == FormsSpec => [](FormsInv /\ KeyContents)
  <1>1. FormsInit => KeyContents
    BY DEF FormsInit, KeyContents, KeyMeansContents, Made, NoRefs
  <1> QED
    BY <1>1, FormsInitially, FormsInductive, ContentsInductive, PTL DEF FormsSpec

\* A key is only ever sent again with the contents it was first sent with.
THEOREM KeysCarryOneContent == FormsSpec => []KeyMeansContents
  <1>1. KeyContents => KeyMeansContents
    BY DEF KeyContents
  <1> QED
    BY <1>1, KeysStandForContents, PTL

\* A step that makes no request, performs none and answers none is not seen.
LEMMA UnseenByContract ==
  ASSUME FormsInv, Made' = Made, effects' = effects,
         \A m \in Made : /\ sends'[m].payload = sends[m].payload /\ sends'[m].key = sends[m].key
                         /\ sends'[m].server = "done" <=> sends[m].server = "done"
  PROVE  UNCHANGED FormContract!contractVars
  <1>1. RequestsMade' = RequestsMade
    BY DEF RequestsMade
  <1>2. \A i \in Sends : effects[i] # Blank => effects[i] \in Made
    BY DEF FormsInv, KeysAreNamed
  <1>3. Sends' = Sends
    BY DEF Sends
  <1>4. EffectsOfKeys' = EffectsOfKeys
    BY <1>2, <1>3 DEF EffectsOfKeys
  <1>5. EffectsAnswered' = EffectsAnswered
    BY DEF EffectsAnswered, Effect
  <1> QED
    BY <1>1, <1>4, <1>5 DEF FormContract!contractVars

\* A submission is the contract's Ask.
LEMMA SubmitAsks ==
  ASSUME FormsInv, NEW n \in Sends, SubmitForm(n)
  PROVE  FormContract!Next
  <1> DEFINE a == stableIdempotencyKey(n, filled)
  <1>1. /\ n \notin Made /\ filled \in Payloads /\ a.key \in Sends
        /\ Made' = Made \cup {n} /\ effects' = effects
        /\ sends'[n].key = a.key /\ sends'[n].payload = filled /\ sends'[n].server = "sent"
        /\ \A m \in Made : sends'[m] = sends[m]
    BY SubmitMoves
  <1> HIDE DEF a
  <1>2. \A q \in RequestsMade : q.by # n
    BY <1>1 DEF RequestsMade
  <1>3. RequestsMade' = RequestsMade \cup {[by |-> n, key |-> a.key, payload |-> filled]}
    BY <1>1 DEF RequestsMade
  <1>4. \A i \in Sends : effects[i] # Blank => effects[i] \in Made
    BY DEF FormsInv, KeysAreNamed
  <1>5. Sends' = Sends
    BY DEF Sends
  <1>6. EffectsOfKeys' = EffectsOfKeys
    BY <1>1, <1>4, <1>5 DEF EffectsOfKeys
  <1>7. EffectsAnswered' = EffectsAnswered
    BY <1>1 DEF EffectsAnswered, Effect
  <1>8. FormContract!Ask(n, a.key, filled)
    BY <1>2, <1>3, <1>6, <1>7 DEF FormContract!Ask
  <1> QED
    BY <1>1, <1>8 DEF FormContract!Next

\* The server's Apply is the contract's Perform for a key with no effect, and
\* its Repeat for one that has: the contents are the same.
LEMMA ApplyKeepsContract ==
  ASSUME FormsInv, KeyContents, NEW n \in Sends, Apply(n)
  PROVE  FormContract!Next
  <1> DEFINE k == sends[n].key
             q == [by |-> n, key |-> k, payload |-> sends[n].payload]
  <1>1. /\ n \in Made /\ sends[n].server = "sent" /\ k \in Sends
        /\ Made' = Made
        /\ sends'[n].server = "done"
        /\ \A m \in Made : /\ sends'[m].payload = sends[m].payload /\ sends'[m].key = sends[m].key
                           /\ m # n => sends'[m] = sends[m]
        /\ effects[k] # Blank => effects' = effects
        /\ effects[k] = Blank => \A i \in Sends : effects'[i] = IF i = k THEN n ELSE effects[i]
    BY ApplyMoves
  <1>2. q \in RequestsMade /\ \A x \in EffectsAnswered : x[1] # n
    BY <1>1 DEF RequestsMade, EffectsAnswered
  <1>3. RequestsMade' = RequestsMade
    BY <1>1 DEF RequestsMade
  <1>4. \A i \in Sends : effects[i] # Blank => effects[i] \in Made /\ sends[effects[i]].key = i
    BY DEF FormsInv, KeysAreNamed
  <1>5. Sends' = Sends
    BY DEF Sends
  <1>6. \A m \in Made : sends[m].server = "done" => effects[sends[m].key] # Blank
    BY DEF FormsInv, ToldMeansDone
  <1>7. \A m \in Made : sends[m].key \in Sends
    BY MadeIsSent DEF Submission
  <1>8. CASE effects[k] = Blank
    <2>1. \A i \in Sends : effects'[i] = IF i = k THEN n ELSE effects[i]
      BY <1>1, <1>8
    <2>2. \A e \in EffectsOfKeys : e.key # k
      BY <1>8 DEF EffectsOfKeys
    <2>3. n # Blank
      BY BlankAssumption DEF Sends
    <2>4. EffectsOfKeys' = EffectsOfKeys \cup {q}
      <3>1. EffectsOfKeys' = {[by |-> effects'[i], key |-> i, payload |-> sends'[effects'[i]].payload] :
                                i \in {j \in Sends : effects'[j] # Blank}}
        BY <1>5 DEF EffectsOfKeys
      <3>2. \A j \in Sends : effects'[j] # Blank <=> effects[j] # Blank \/ j = k
        BY <1>8, <2>1, <2>3
      <3>3. \A j \in Sends : effects[j] # Blank =>
               effects'[j] = effects[j] /\ sends'[effects[j]].payload = sends[effects[j]].payload
        BY <1>1, <1>4, <1>8, <2>1
      <3>4. effects'[k] = n /\ sends'[n].payload = sends[n].payload
        BY <1>1, <2>1
      <3> HIDE DEF k
      <3> QED
        BY <1>1, <3>1, <3>2, <3>3, <3>4 DEF EffectsOfKeys
    <2>5. EffectsAnswered' = EffectsAnswered \cup {<<n, n>>}
      <3>1. \A m \in Made : sends'[m].server = "done" <=> sends[m].server = "done" \/ m = n
        BY <1>1
      <3>2. \A m \in Made : sends[m].server = "done" => Effect(m)' = Effect(m)
        BY <1>1, <1>6, <1>7, <1>8, <2>1 DEF Effect
      <3>3. Effect(n)' = n
        BY <1>1, <2>1 DEF Effect
      <3> QED
        BY <1>1, <3>1, <3>2, <3>3 DEF EffectsAnswered
    <2>6. FormContract!Perform(q)
      BY <1>2, <1>3, <2>2, <2>4, <2>5 DEF FormContract!Perform, FormContract!Unanswered
    <2> QED
      BY <1>2, <2>6 DEF FormContract!Next
  <1>9. CASE effects[k] # Blank
    <2> DEFINE e == [by |-> effects[k], key |-> k, payload |-> sends[effects[k]].payload]
    <2>1. effects' = effects
      BY <1>1, <1>9
    <2>2. e \in EffectsOfKeys
      BY <1>1, <1>9 DEF EffectsOfKeys
    <2>3. q.payload = e.payload
      BY <1>1, <1>4, <1>9 DEF KeyContents, KeyMeansContents
    <2>4. EffectsOfKeys' = EffectsOfKeys
      BY <1>1, <1>4, <1>5, <2>1 DEF EffectsOfKeys
    <2>5. EffectsAnswered' = EffectsAnswered \cup {<<n, effects[k]>>}
      <3>1. \A m \in Made : sends'[m].server = "done" <=> sends[m].server = "done" \/ m = n
        BY <1>1
      <3>2. \A m \in Made : Effect(m)' = Effect(m)
        BY <1>1, <2>1 DEF Effect
      <3>3. Effect(n) = effects[k]
        BY DEF Effect
      <3> QED
        BY <1>1, <3>1, <3>2, <3>3 DEF EffectsAnswered
    <2>6. FormContract!Repeat(q, e)
      BY <1>2, <1>3, <2>3, <2>4, <2>5 DEF FormContract!Repeat, FormContract!Unanswered
    <2> QED
      BY <1>2, <2>2, <2>6 DEF FormContract!Next
  <1> QED
    BY <1>8, <1>9

\* The forms and the server together keep the idempotency contract: a key is
\* repeated only with the contents it stands for.
THEOREM FormsContractKept == FormsSpec => FormsKeepContract
  <1>1. FormsInit => FormContract!Init
    BY DEF FormsInit, Made, FormContract!Init, RequestsMade, EffectsOfKeys, EffectsAnswered
  <1>2. ASSUME FormsInv, KeyContents, [FormsNext]_formVars
        PROVE  [FormContract!Next]_(FormContract!contractVars)
    <2> USE <1>2
    <2>1. CASE UNCHANGED <<sends, effects>>
      <3>1. Made' = Made
        BY <2>1 DEF Made, Sends
      <3> QED
        BY <2>1, <3>1, UnseenByContract
    <2>2. CASE LeavePage \/ \E p \in Payloads : Edit(p)
      BY <2>1, <2>2 DEF LeavePage, Edit
    <2>3. ASSUME NEW n \in Sends, SubmitForm(n) PROVE FormContract!Next
      BY <2>3, SubmitAsks
    <2>4. ASSUME NEW n \in Sends, Apply(n) PROVE FormContract!Next
      BY <2>4, ApplyKeepsContract
    <2>5. ASSUME NEW n \in Sends, Reject(n) \/ Acknowledge(n) \/ FormFails(n) \/ Settle(n)
          PROVE  UNCHANGED FormContract!contractVars
      BY <2>5, RequestMoves, UnseenByContract
    <2> QED
      BY <2>1, <2>2, <2>3, <2>4, <2>5 DEF FormsNext, formVars
  <1> QED
    BY <1>1, <1>2, KeysStandForContents, PTL DEF FormsSpec, FormsKeepContract, FormContract!Spec
----------------------------------------------------------------------------
(***************************************************************************)
(* The language and the theme.  ChoiceIsShown is not inductive: the        *)
(* listener must be the one of the theme shown (or a change of the system  *)
(* would apply another), a theme that is not "system" must not depend on   *)
(* the system, and a tab that found a language must not be waiting for the *)
(* default.                                                                *)
(***************************************************************************)
Shown  == [locale : LOCALE_OPTIONS, theme : ThemePreference, applied : {"dark", "light"},
           listeners : SUBSET {"system"}, asking : BOOLEAN]
Wished == [locale : StoredLocales, theme : StoredThemes, found : BOOLEAN]

PreferencesInv ==
  /\ prefStore \in [locale : StoredLocales, theme : StoredThemes]
  /\ systemDark \in BOOLEAN /\ announced \in BOOLEAN
  /\ Loaded =>
       /\ tab \in Shown /\ wish \in Wished
       /\ tab.theme = normalizeTheme(wish.theme)
       /\ tab.listeners = Listeners(tab.theme)
       /\ announced \/ tab.theme # "system" => tab.applied = resolveTheme(tab.theme, systemDark)
       /\ wish.found => ~tab.asking /\ tab.locale = normalizeLocale(wish.locale)

\* What the two normalisations and the resolution return.
LEMMA Normalised ==
  /\ \A l : normalizeLocale(l) \in LOCALE_OPTIONS
  /\ \A t : normalizeTheme(t) \in ThemePreference
  /\ \A l \in LOCALE_OPTIONS : normalizeLocale(l) = l
  /\ \A t \in ThemePreference : normalizeTheme(t) = t
  /\ \A t \in ThemePreference, d \in BOOLEAN : resolveTheme(t, d) \in {"dark", "light"}
  /\ \A t \in ThemePreference \ {"system"} : \A d, e \in BOOLEAN : resolveTheme(t, d) = resolveTheme(t, e)
  /\ LOCALE_OPTIONS \subseteq StoredLocales /\ ThemePreference \subseteq StoredThemes
  /\ \A t \in ThemePreference : Listeners(t) \in SUBSET {"system"}
  BY DEF normalizeLocale, normalizeTheme, resolveTheme, LOCALE_OPTIONS, DEFAULT_LOCALE,
         ThemePreference, StoredLocales, StoredThemes, Listeners

\* A document that is loaded shows what is stored.
LEMMA LoadStep ==
  ASSUME PreferencesInv, NEW signedIn \in BOOLEAN, Load(signedIn)
  PROVE  PreferencesInv'
  <1>1. /\ tab' = [locale |-> readStoredLocale, theme |-> readStoredTheme,
                   applied |-> resolveTheme(readStoredTheme, systemDark),
                   listeners |-> Listeners(readStoredTheme),
                   asking |-> AsksDefault(signedIn, prefStore.locale)]
        /\ wish' = [locale |-> prefStore.locale, theme |-> prefStore.theme,
                    found |-> prefStore.locale # NotStored]
        /\ prefStore' = [locale |-> readStoredLocale, theme |-> readStoredTheme]
        /\ announced' = TRUE /\ systemDark' = systemDark
    BY DEF Load, RootLayout, applyTheme
  <1>2. readStoredLocale \in LOCALE_OPTIONS /\ readStoredTheme \in ThemePreference
    BY Normalised DEF readStoredLocale, readStoredTheme
  <1>3. AsksDefault(signedIn, prefStore.locale) \in BOOLEAN
    BY DEF AsksDefault
  <1>4. tab' \in Shown /\ wish' \in Wished
    BY <1>1, <1>2, <1>3, Normalised DEF PreferencesInv, Shown, Wished
  <1>5. wish'.found => ~tab'.asking
    BY <1>1 DEF AsksDefault
  <1> QED
    BY <1>1, <1>2, <1>4, <1>5, Normalised DEF PreferencesInv, readStoredLocale, readStoredTheme

\* Every step of the tab, of the system and of the other tabs.
LEMMA PreferencesInductive == PreferencesInv /\ [PreferencesNext]_prefVars => PreferencesInv'
  <1> SUFFICES ASSUME PreferencesInv, [PreferencesNext]_prefVars PROVE PreferencesInv'
    OBVIOUS
  <1>1. CASE UNCHANGED prefVars
    BY <1>1 DEF prefVars, PreferencesInv, Loaded
  <1>2. ASSUME NEW l \in LOCALE_OPTIONS, LanguageMenu(l) PROVE PreferencesInv'
    <2>1. tab' \in Shown /\ wish' \in Wished
      BY <1>2, Normalised DEF PreferencesInv, LanguageMenu, setLocale, Shown, Wished
    <2> QED
      BY <1>2, <2>1, Normalised DEF PreferencesInv, LanguageMenu, setLocale, Shown, Wished
  <1>3. ASSUME NEW l \in LOCALE_OPTIONS, DefaultArrives(l) PROVE PreferencesInv'
    <2>1. tab' \in Shown
      BY <1>3, Normalised DEF PreferencesInv, DefaultArrives, setLocale, Shown
    <2> QED
      BY <1>3, <2>1, Normalised DEF PreferencesInv, DefaultArrives, setLocale, Shown
  <1>4. CASE AskingAborted
    <2>1. tab' \in Shown
      BY <1>4 DEF PreferencesInv, AskingAborted, Shown
    <2> QED
      BY <1>4, <2>1 DEF PreferencesInv, AskingAborted, Shown
  <1>5. CASE SystemChanges
    BY <1>5, Normalised DEF PreferencesInv, SystemChanges, Loaded, Shown
  <1>6. CASE syncTheme
    <2>1. CASE tab.listeners = {}
      <3>1. tab.theme # "system" /\ tab' = tab
        BY <1>6, <2>1 DEF syncTheme, PreferencesInv, Listeners
      <3> QED
        BY <1>6, <3>1 DEF PreferencesInv, syncTheme, Loaded
    <2>2. CASE tab.listeners # {}
      <3>1. tab.theme = "system" /\ tab.listeners = {"system"}
        BY <1>6, <2>2 DEF syncTheme, PreferencesInv, Listeners
      <3>2. tab' = [tab EXCEPT !.applied = resolveTheme("system", systemDark)]
        BY <1>6, <2>2, <3>1 DEF syncTheme, applyTheme
      <3>3. tab' \in Shown
        BY <1>6, <3>2, Normalised DEF PreferencesInv, syncTheme, Shown, ThemePreference
      <3> QED
        BY <1>6, <3>1, <3>2, <3>3 DEF PreferencesInv, syncTheme, Shown
    <2> QED
      BY <2>1, <2>2
  <1>7. ASSUME NEW t \in ThemePreference, ThemeMenu(t) PROVE PreferencesInv'
    <2>1. tab' = [tab EXCEPT !.theme = t, !.applied = resolveTheme(t, systemDark), !.listeners = Listeners(t)]
      BY <1>7 DEF ThemeMenu, applyTheme
    <2>2. wish' \in Wished
      BY <1>7, Normalised DEF PreferencesInv, ThemeMenu, Wished
    <2>3. resolveTheme(t, systemDark) \in {"dark", "light"} /\ Listeners(t) \in SUBSET {"system"}
      BY Normalised DEF PreferencesInv
    <2>4. tab' \in Shown
      BY <1>7, <2>1, <2>3 DEF PreferencesInv, ThemeMenu, Shown
    <2> QED
      BY <1>7, <2>1, <2>2, <2>4, Normalised DEF PreferencesInv, ThemeMenu, Shown, Wished
  <1>8. ASSUME NEW l \in LOCALE_OPTIONS, NEW t \in ThemePreference, OtherTabPicks(l, t)
        PROVE  PreferencesInv'
    <2>1. prefStore' \in [locale : StoredLocales, theme : StoredThemes]
      BY <1>8, Normalised DEF PreferencesInv, OtherTabPicks
    <2> QED
      BY <1>8, <2>1 DEF PreferencesInv, OtherTabPicks, Loaded
  <1> QED
    BY <1>1, <1>2, <1>3, <1>4, <1>5, <1>6, <1>7, <1>8, LoadStep DEF PreferencesNext

\* The inductive invariant of the preferences holds in every reachable state.
THEOREM PreferencesInvariant == PreferencesSpec => []PreferencesInv
  <1>1. PreferencesInit => PreferencesInv
    BY DEF PreferencesInit, PreferencesInv, Loaded
  <1> QED
    BY <1>1, PreferencesInductive, PTL DEF PreferencesSpec

\* What the user chose is what the tab shows, whatever arrives late.
THEOREM ChoicesAreShown == PreferencesSpec => []ChoiceIsShown
  <1>1. PreferencesInv => ChoiceIsShown
    BY DEF PreferencesInv, ChoiceIsShown
  <1> QED
    BY <1>1, PreferencesInvariant, PTL

-----------------------------------------------------------------------------
(* The runtime settings: a revision stands for the values that came with it. *)

ValueSet  == [Watched -> Nat]
AnswerSet == [revision : Nat, values : ValueSet, marked : BOOLEAN]
ReadSet   == [at : {"idle", "sent", "half", "read"}, revision : Nat, values : ValueSet]
SaveSet   == [section : Sections, values : ValueSet, revision : Nat, stay : Nat,
              server : {"sent", "accepted", "refused"},
              client : {"waiting", "refetching", "done"}]

SettingsTypeOK ==
  /\ revision \in Nat /\ value \in ValueSet
  /\ snapshot \in AnswerSet \cup {Unset}
  /\ reading \in ReadSet
  /\ draft \in ValueSet \cup {Unset}
  /\ saves \in [Saves -> SaveSet \cup {Unset}]
  /\ inSettings \in BOOLEAN /\ stay \in Nat /\ edits \in Nat

(* A pair of revision and values that does not lie about the server. *)
Honest(r, v) == r <= revision /\ (r = revision => v = value)

(* The cached answer is honest and was seen. *)
AnswerHonest ==
  snapshot # Unset => /\ Honest(snapshot.revision, snapshot.values)
                      /\ Pairs(snapshot.values) \subseteq seen

(* The revision is read first, so it can only be too old for the values. *)
ReadingHonest ==
  /\ reading.at = "half" => reading.revision <= revision
  /\ reading.at = "read" => Honest(reading.revision, reading.values)

(* A save on its way that the server would accept comes from a tab that has  *)
(* seen what is there; an accepted one carries what it left.                 *)
SavesHonest ==
  \A n \in Sending :
    /\ saves[n].server = "sent" =>
         saves[n].revision <= revision /\ (saves[n].revision = revision => Pairs(value) \subseteq seen)
    /\ saves[n].server = "accepted" => Honest(saves[n].revision, saves[n].values)

(* A save was prepared from an answer. *)
SavesAnswered == Sending # {} => snapshot # Unset

SettingsInv == SettingsTypeOK /\ SavesAnswered /\ AnswerHonest /\ ReadingHonest /\ SavesHonest

----------------------------------------------------------------------------
(* What an update of single fields does to a save, a read or an answer. *)
LEMMA ServerField ==
  ASSUME NEW s \in SaveSet, NEW x \in {"sent", "accepted", "refused"}
  PROVE  LET t == [s EXCEPT !.server = x] IN t \in SaveSet /\ t.server = x
  BY DEF SaveSet

(* The page moves a save on: what it sent stays. *)
LEMMA ClientField ==
  ASSUME NEW s \in SaveSet, NEW x \in {"waiting", "refetching", "done"}
  PROVE  LET t == [s EXCEPT !.client = x] IN
         /\ t \in SaveSet /\ t.server = s.server
         /\ t.revision = s.revision /\ t.values = s.values
  BY DEF SaveSet

(* Marking an answer leaves its revision and its values. *)
LEMMA AnswerFields ==
  ASSUME NEW s \in AnswerSet
  PROVE  LET t == [s EXCEPT !.marked = TRUE] IN
         t \in AnswerSet /\ t.revision = s.revision /\ t.values = s.values
  BY DEF AnswerSet

(* No answer is told apart from every answer. *)
LEMMA UnsetIsNoAnswer == Unset \notin AnswerSet
  BY UnsetAssumption DEF AnswerSet, ValueSet

(* The states a read begins with. *)
LEMMA NotReadingType ==
  /\ NotReading \in ReadSet /\ NotReading.at = "idle"
  /\ Asked \in ReadSet /\ Asked.at = "sent"
  BY DEF NotReading, Asked, ReadSet, ValueSet

(* The values displayed are values. *)
LEMMA DisplayedType ==
  ASSUME SettingsTypeOK, snapshot # Unset
  PROVE  Displayed \in ValueSet
  BY DEF SettingsTypeOK, Displayed, AnswerSet

(* The page or the server moves one save on: the other saves stay. *)
LEMMA ClientMoves ==
  ASSUME SettingsTypeOK, NEW n \in Sending, NEW x \in {"waiting", "refetching", "done"},
         saves' = [saves EXCEPT ![n].client = x]
  PROVE  /\ saves' \in [Saves -> SaveSet \cup {Unset}]
         /\ \A m \in Saves : m # n => saves'[m] = saves[m]
         /\ saves'[n].server = saves[n].server
         /\ saves'[n].revision = saves[n].revision /\ saves'[n].values = saves[n].values
  <1>1. n \in Saves /\ saves[n] \in SaveSet
    BY DEF Sending, SettingsTypeOK
  <1> DEFINE t == [saves[n] EXCEPT !.client = x]
  <1>2. /\ t \in SaveSet /\ t.server = saves[n].server
        /\ t.revision = saves[n].revision /\ t.values = saves[n].values
    BY <1>1, ClientField
  <1>3. saves' = [saves EXCEPT ![n] = t]
    BY Zenon
  <1> HIDE DEF t
  <1> QED BY <1>1, <1>2, <1>3 DEF SettingsTypeOK

(* The server decides one save: the other saves stay. *)
LEMMA ServerMoves ==
  ASSUME SettingsTypeOK, NEW n \in Sending, NEW x \in {"sent", "accepted", "refused"},
         saves' = [saves EXCEPT ![n].server = x]
  PROVE  /\ saves' \in [Saves -> SaveSet \cup {Unset}]
         /\ \A m \in Saves : m # n => saves'[m] = saves[m]
         /\ saves'[n].server = x
  <1>1. n \in Saves /\ saves[n] \in SaveSet
    BY DEF Sending, SettingsTypeOK
  <1> DEFINE t == [saves[n] EXCEPT !.server = x]
  <1>2. t \in SaveSet /\ t.server = x
    BY <1>1, ServerField
  <1>3. saves' = [saves EXCEPT ![n] = t]
    BY Zenon
  <1> HIDE DEF t
  <1> QED BY <1>1, <1>2, <1>3 DEF SettingsTypeOK

(* What Witness records. *)
LEMMA SeenGrows ==
  ASSUME Witness
  PROVE  /\ seen \subseteq seen'
         /\ snapshot' # Unset => Pairs(snapshot'.values) \subseteq seen'
  BY DEF Witness

----------------------------------------------------------------------------
(* Steps that leave the server's settings and every save alone. *)
LEMMA SavesKept ==
  ASSUME SettingsInv, Witness, UNCHANGED <<revision, value, saves>>
  PROVE  SavesHonest'
  BY SeenGrows DEF SettingsInv, SavesHonest, Honest, Sending, Saves, Pairs

(* An answer stays an answer, and a save is sent only when there is one. *)
LEMMA AnswerStays ==
  ASSUME SettingsInv,
         \/ snapshot' \in AnswerSet
         \/ snapshot' = snapshot /\ (saves' = saves \/ Sending # {} \/ snapshot # Unset)
  PROVE  SavesAnswered'
  BY UnsetIsNoAnswer DEF SettingsInv, SavesAnswered, Sending, Saves

(* Steps that leave the server's settings and the cached answer alone. *)
LEMMA AnswerKept ==
  ASSUME SettingsInv, Witness, UNCHANGED <<revision, value, snapshot>>
  PROVE  AnswerHonest'
  BY SeenGrows DEF SettingsInv, AnswerHonest, Honest, Pairs

(* Steps that leave the server's settings and the read in flight alone, or   *)
(* start or drop the read.                                                   *)
LEMMA ReadingKept ==
  ASSUME SettingsInv, UNCHANGED <<revision, value>>,
         reading' \in {reading, Asked, NotReading}
  PROVE  ReadingHonest'
  <1>1. CASE reading' = reading
    BY <1>1 DEF SettingsInv, ReadingHonest, Honest
  <1>2. CASE reading' \in {Asked, NotReading}
    BY <1>2, NotReadingType DEF ReadingHonest
  <1> QED BY <1>1, <1>2

(* The two statements of GET /settings: the revision first, then the values. *)
LEMMA ReadStep ==
  ASSUME SettingsInv, GetSettings, Witness
  PROVE  SettingsInv'
  <1>1. /\ reading \in ReadSet /\ revision \in Nat /\ value \in ValueSet
        /\ reading.revision \in Nat
    BY DEF SettingsInv, SettingsTypeOK, ReadSet
  <1>2. reading' \in ReadSet /\ ReadingHonest'
    <2>1. CASE reading.at = "sent"
      <3> DEFINE t == [reading EXCEPT !.at = "half", !.revision = revision]
      <3>1. t \in ReadSet /\ t.at = "half" /\ t.revision = revision
        BY <1>1 DEF ReadSet
      <3>2. readSnapshot = t
        BY <2>1 DEF readSnapshot
      <3> HIDE DEF t
      <3>3. reading' = t
        BY <3>2 DEF GetSettings
      <3> QED BY <1>1, <3>1, <3>3 DEF ReadingHonest, GetSettings
    <2>2. CASE reading.at = "half"
      <3> DEFINE t == [reading EXCEPT !.at = "read", !.values = value]
      <3>1. /\ t \in ReadSet /\ t.at = "read"
            /\ t.revision = reading.revision /\ t.values = value
        BY <1>1 DEF ReadSet
      <3>2. reading.at # "sent"
        BY <2>2
      <3>3. readSnapshot = t
        BY <3>2 DEF readSnapshot
      <3> HIDE DEF t
      <3>4. reading' = t
        BY <3>3 DEF GetSettings
      <3> QED BY <1>1, <2>2, <3>1, <3>4 DEF ReadingHonest, GetSettings, SettingsInv, Honest
    <2> QED BY <2>1, <2>2 DEF GetSettings
  <1>3. SettingsTypeOK'
    BY <1>2 DEF SettingsInv, SettingsTypeOK, GetSettings
  <1> QED BY <1>2, <1>3, AnswerStays, AnswerKept, SavesKept DEF SettingsInv, GetSettings

(* Opening and leaving the page, and reads that start or fail. *)
LEMMA QueryStep ==
  ASSUME SettingsInv, Witness,
         OpenSettings \/ LeaveSettings \/ ReadingFails \/ SettingsRefetch
  PROVE  SettingsInv'
  <1>1. /\ UNCHANGED <<revision, value, snapshot, saves, edits>>
        /\ reading' \in {reading, Asked, NotReading} /\ draft' \in {draft, Unset}
        /\ inSettings' \in BOOLEAN /\ stay' \in Nat
    <2>1. CASE OpenSettings
      BY <2>1 DEF OpenSettings, SettingsInv, SettingsTypeOK
    <2>2. CASE LeaveSettings
      BY <2>2 DEF LeaveSettings, SettingsInv, SettingsTypeOK
    <2>3. CASE ReadingFails
      BY <2>3 DEF ReadingFails, SettingsInv, SettingsTypeOK
    <2>4. CASE SettingsRefetch
      BY <2>4 DEF SettingsRefetch, SettingsInv, SettingsTypeOK
    <2> QED BY <2>1, <2>2, <2>3, <2>4
  <1>2. SettingsTypeOK'
    BY <1>1, NotReadingType DEF SettingsInv, SettingsTypeOK, Saves
  <1> QED BY <1>1, <1>2, AnswerStays, AnswerKept, SavesKept, ReadingKept DEF SettingsInv

(* An answer that arrives carries what the read has seen. *)
LEMMA AnsweredStep ==
  ASSUME SettingsInv, Witness, SettingsAnswered
  PROVE  SettingsInv'
  <1>1. /\ reading \in ReadSet /\ reading.revision \in Nat /\ reading.values \in ValueSet
        /\ Honest(reading.revision, reading.values)
    BY DEF SettingsInv, SettingsTypeOK, ReadSet, ReadingHonest, SettingsAnswered
  <1>2. /\ snapshot' \in AnswerSet /\ snapshot'.revision = reading.revision
        /\ snapshot'.values = reading.values
    BY <1>1 DEF SettingsAnswered, AnswerSet
  <1>3. SettingsTypeOK'
    BY <1>2, NotReadingType DEF SettingsInv, SettingsTypeOK, SettingsAnswered, Saves
  <1>4. AnswerHonest'
    BY <1>1, <1>2, SeenGrows DEF AnswerHonest, Honest, SettingsAnswered
  <1> QED BY <1>2, <1>3, <1>4, AnswerStays, SavesKept, ReadingKept DEF SettingsInv, SettingsAnswered

(* Editing copies what is displayed into the draft. *)
LEMMA SettingEdited ==
  ASSUME SettingsInv, Witness, NEW k \in Watched, EditSetting(k)
  PROVE  SettingsInv'
  <1>1. Displayed \in ValueSet
    BY DisplayedType DEF SettingsInv, EditSetting
  <1>2. draft' \in ValueSet /\ edits' \in Nat
    BY <1>1 DEF EditSetting, ValueSet, SettingsInv, SettingsTypeOK
  <1>3. SettingsTypeOK'
    BY <1>2 DEF SettingsInv, SettingsTypeOK, EditSetting, Saves
  <1> QED BY <1>3, AnswerStays, AnswerKept, SavesKept, ReadingKept DEF SettingsInv, EditSetting

(* The settings change: every revision known before is an older one now. *)
LEMMA OthersStep ==
  ASSUME SettingsInv, Witness, NEW k \in Watched, OtherAdminSaves(k)
  PROVE  SettingsInv'
  <1>1. revision \in Nat /\ revision' = revision + 1 /\ value' \in ValueSet /\ edits' \in Nat
    BY DEF OtherAdminSaves, SettingsInv, SettingsTypeOK, ValueSet
  <1>2. SettingsTypeOK'
    BY <1>1 DEF SettingsInv, SettingsTypeOK, OtherAdminSaves, Saves
  <1>3. AnswerHonest'
    BY <1>1, SeenGrows DEF SettingsInv, SettingsTypeOK, AnswerSet, AnswerHonest, Honest, OtherAdminSaves
  <1>4. ReadingHonest'
    BY <1>1 DEF SettingsInv, SettingsTypeOK, ReadSet, ReadingHonest, Honest, OtherAdminSaves
  <1>5. SavesHonest'
    <2>1. \A n \in Sending : saves[n].revision \in Nat
      BY DEF SettingsInv, SettingsTypeOK, SaveSet, Sending
    <2> QED BY <1>1, <2>1 DEF SettingsInv, SavesHonest, Honest, OtherAdminSaves, Sending, Saves
  <1> QED BY <1>2, <1>3, <1>4, <1>5, AnswerStays DEF SettingsInv, OtherAdminSaves

(* An update is accepted, or refused as RefuseSettings is. *)
LEMMA AcceptStep ==
  ASSUME SettingsInv, Witness, NEW n \in Saves, UpdateSettings(n), saves[n].revision = revision
  PROVE  SettingsInv'
  <1> DEFINE written == [k \in Watched |-> IF k \in KeysOf(saves[n].section)
                                          THEN saves[n].values[k] ELSE value[k]]
  <1> DEFINE next == revision + 1
  <1> DEFINE t == [saves[n] EXCEPT !.server = "accepted", !.revision = next, !.values = written]
  <1>1. /\ n \in Sending /\ saves[n] \in SaveSet /\ revision \in Nat
        /\ revision' = revision + 1 /\ value' = written /\ next \in Nat
    BY DEF SettingsInv, SettingsTypeOK, UpdateSettings, Sending
  <1>2. written \in ValueSet
    BY <1>1 DEF SettingsInv, SettingsTypeOK, ValueSet, SaveSet
  <1>3. saves' = [saves EXCEPT ![n] = t]
    BY Zenon DEF UpdateSettings
  <1> HIDE DEF written, next
  <1>4. t \in SaveSet /\ t.server = "accepted" /\ t.revision = next /\ t.values = written
    <2> DEFINE s == saves[n]
    <2>1. s \in SaveSet
      BY <1>1
    <2> HIDE DEF s
    <2>2. LET u == [s EXCEPT !.server = "accepted", !.revision = next, !.values = written] IN
          u \in SaveSet /\ u.server = "accepted" /\ u.revision = next /\ u.values = written
      BY <1>1, <1>2, <2>1 DEF SaveSet
    <2> QED BY <2>2 DEF s
  <1> HIDE DEF t
  <1> USE DEF next
  <1>5. /\ saves' \in [Saves -> SaveSet \cup {Unset}] /\ saves'[n] = t
        /\ \A m \in Saves : m # n => saves'[m] = saves[m]
    BY <1>3, <1>4 DEF SettingsInv, SettingsTypeOK
  <1>6. SettingsTypeOK'
    BY <1>1, <1>2, <1>5 DEF SettingsInv, SettingsTypeOK, UpdateSettings, Saves
  <1>7. AnswerHonest'
    BY <1>1, SeenGrows DEF SettingsInv, SettingsTypeOK, AnswerSet, AnswerHonest, Honest, UpdateSettings
  <1>8. ReadingHonest'
    BY <1>1 DEF SettingsInv, SettingsTypeOK, ReadSet, ReadingHonest, Honest, UpdateSettings
  <1>9. SavesHonest'
    <2> SUFFICES ASSUME NEW m \in Sending'
                 PROVE  /\ saves'[m].server = "sent" =>
                             saves'[m].revision <= revision' /\
                             (saves'[m].revision = revision' => Pairs(value)' \subseteq seen')
                        /\ saves'[m].server = "accepted" =>
                             saves'[m].revision <= revision' /\
                             (saves'[m].revision = revision' => saves'[m].values = value')
      BY DEF SavesHonest, Honest
    <2>1. m \in Saves
      BY DEF Sending, Saves
    <2>2. CASE m = n
      BY <1>1, <1>4, <1>5, <2>2
    <2>3. CASE m # n
      <3>1. saves'[m] = saves[m] /\ m \in Sending
        BY <1>5, <2>1, <2>3 DEF Sending
      <3>2. saves[m].revision \in Nat
        BY <2>1, <3>1 DEF SettingsInv, SettingsTypeOK, SaveSet, Sending
      <3> QED BY <1>1, <3>1, <3>2 DEF SettingsInv, SavesHonest, Honest
    <2> QED BY <2>2, <2>3
  <1> QED BY <1>1, <1>6, <1>7, <1>8, <1>9, AnswerStays DEF SettingsInv, UpdateSettings

(* A save that the server refuses changes nothing on it. *)
LEMMA RefuseStep ==
  ASSUME SettingsInv, Witness, NEW n \in Sending,
         saves' = [saves EXCEPT ![n].server = "refused"],
         UNCHANGED <<revision, value, snapshot, reading, draft, inSettings, stay, edits>>
  PROVE  SettingsInv'
  <1>1. /\ saves' \in [Saves -> SaveSet \cup {Unset}] /\ saves'[n].server = "refused"
        /\ \A m \in Saves : m # n => saves'[m] = saves[m]
    BY ServerMoves DEF SettingsInv
  <1>2. SettingsTypeOK'
    BY <1>1 DEF SettingsInv, SettingsTypeOK, Saves
  <1>3. SavesHonest'
    BY <1>1, SeenGrows DEF SettingsInv, SavesHonest, Honest, Sending, Saves, Pairs
  <1> QED BY <1>2, <1>3, AnswerStays, AnswerKept, ReadingKept DEF SettingsInv

(* A save takes the revision of an answer that was seen. *)
LEMMA SendStep ==
  ASSUME SettingsInv, Witness, NEW n \in Saves, NEW section \in Sections, saveSection(n, section)
  PROVE  SettingsInv'
  <1> DEFINE t == [section |-> section, values |-> Displayed, revision |-> snapshot.revision,
                   stay |-> stay, server |-> "sent", client |-> "waiting"]
  <1>1. Displayed \in ValueSet
    BY DisplayedType DEF SettingsInv, saveSection
  <1>2. /\ snapshot \in AnswerSet /\ snapshot.revision \in Nat /\ stay \in Nat
        /\ snapshot.revision <= revision
        /\ snapshot.revision = revision => Pairs(value) \subseteq seen
    BY DEF SettingsInv, SettingsTypeOK, AnswerSet, AnswerHonest, Honest, saveSection
  <1>3. t \in SaveSet /\ t.server = "sent" /\ t.revision = snapshot.revision
    BY <1>1, <1>2 DEF SaveSet
  <1>4. saves' = [saves EXCEPT ![n] = t]
    BY DEF saveSection
  <1> HIDE DEF t
  <1>5. /\ saves' \in [Saves -> SaveSet \cup {Unset}] /\ saves'[n] = t
        /\ \A m \in Saves : m # n => saves'[m] = saves[m]
    BY <1>3, <1>4 DEF SettingsInv, SettingsTypeOK
  <1>6. SettingsTypeOK'
    BY <1>5 DEF SettingsInv, SettingsTypeOK, saveSection, Saves
  <1>7. SavesHonest'
    BY <1>2, <1>3, <1>5, SeenGrows DEF SettingsInv, SavesHonest, Honest, Sending, Saves, Pairs, saveSection
  <1> QED BY <1>6, <1>7, AnswerStays, AnswerKept, ReadingKept DEF SettingsInv, saveSection

(* The client's side of a save moves; the server's is as honest as before. *)
LEMMA SavesMoved ==
  ASSUME SettingsInv, Witness, UNCHANGED <<revision, value>>, NEW n \in Sending,
         NEW x \in {"waiting", "refetching", "done"}, saves' = [saves EXCEPT ![n].client = x]
  PROVE  SavesHonest'
  <1>1. /\ saves'[n].server = saves[n].server
        /\ saves'[n].revision = saves[n].revision /\ saves'[n].values = saves[n].values
        /\ \A m \in Saves : m # n => saves'[m] = saves[m]
    BY ClientMoves DEF SettingsInv
  <1> QED BY <1>1, SeenGrows DEF SettingsInv, SavesHonest, Honest, Sending, Saves, Pairs

(* The answer of an accepted save becomes the cached one. *)
LEMMA SavedStep ==
  ASSUME SettingsInv, Witness, NEW n \in Saves, SaveAnswered(n)
  PROVE  SettingsInv'
  <1>1. /\ n \in Sending /\ saves[n] \in SaveSet /\ saves[n].revision \in Nat
        /\ saves[n].values \in ValueSet /\ Honest(saves[n].revision, saves[n].values)
    BY DEF SettingsInv, SettingsTypeOK, SaveSet, SaveAnswered, Sending, SavesHonest
  <1>2. saves' \in [Saves -> SaveSet \cup {Unset}]
    BY <1>1, ClientMoves DEF SettingsInv, SaveAnswered
  <1>3. /\ snapshot' \in AnswerSet /\ snapshot'.revision = saves[n].revision
        /\ snapshot'.values = saves[n].values
    BY <1>1 DEF SaveAnswered, AnswerSet
  <1>4. draft' \in ValueSet \cup {Unset}
    <2>1. CASE draft = Unset \/ saves[n].stay # stay
      BY <2>1 DEF SaveAnswered, SettingsInv, SettingsTypeOK
    <2>2. CASE ~(draft = Unset \/ saves[n].stay # stay)
      <3>1. draft \in ValueSet
        BY <2>2 DEF SettingsInv, SettingsTypeOK
      <3> QED BY <1>1, <2>2, <3>1 DEF SaveAnswered, ValueSet
    <2> QED BY <2>1, <2>2
  <1>5. SettingsTypeOK'
    BY <1>2, <1>3, <1>4 DEF SettingsInv, SettingsTypeOK, SaveAnswered, Saves
  <1>6. AnswerHonest'
    BY <1>1, <1>3, SeenGrows DEF AnswerHonest, Honest, SaveAnswered
  <1> QED BY <1>1, <1>3, <1>5, <1>6, AnswerStays, SavesMoved, ReadingKept DEF SettingsInv, SaveAnswered

(* A save that fails, whether or not the server accepted it. *)
LEMMA FailStep ==
  ASSUME SettingsInv, Witness, NEW n \in Saves, SaveFails(n)
  PROVE  SettingsInv'
  <1>1. n \in Sending /\ UNCHANGED <<revision, value>>
    BY DEF SaveFails
  <1>2. saves' \in [Saves -> SaveSet \cup {Unset}]
    BY <1>1, ClientMoves DEF SettingsInv, SaveFails
  <1>3. snapshot \in AnswerSet /\ snapshot # Unset
    BY <1>1 DEF SettingsInv, SettingsTypeOK, SavesAnswered
  <1> DEFINE t == [snapshot EXCEPT !.marked = TRUE]
  <1>4. t \in AnswerSet /\ t.revision = snapshot.revision /\ t.values = snapshot.values
    BY <1>3, AnswerFields
  <1>5. snapshot' = t
    BY DEF SaveFails
  <1> HIDE DEF t
  <1>6. SettingsTypeOK'
    BY <1>2, <1>4, <1>5, NotReadingType DEF SettingsInv, SettingsTypeOK, SaveFails, Saves
  <1>7. AnswerHonest'
    BY <1>1, <1>3, <1>4, <1>5, SeenGrows DEF SettingsInv, AnswerHonest, Honest
  <1>8. SavesAnswered' /\ ReadingHonest'
    BY <1>4, <1>5, AnswerStays, ReadingKept DEF SaveFails
  <1> QED BY <1>1, <1>6, <1>7, <1>8, SavesMoved DEF SettingsInv, SaveFails

(* The read after a failed save has ended, and the button is enabled again. *)
LEMMA SaveSettled ==
  ASSUME SettingsInv, Witness, NEW n \in Saves, SaveSettles(n)
  PROVE  SettingsInv'
  <1>1. n \in Sending /\ saves' \in [Saves -> SaveSet \cup {Unset}]
    BY ClientMoves DEF SettingsInv, SaveSettles
  <1>2. SettingsTypeOK'
    BY <1>1 DEF SettingsInv, SettingsTypeOK, SaveSettles, Saves
  <1>3. SavesHonest'
    BY <1>1, SavesMoved DEF SaveSettles
  <1> QED BY <1>1, <1>2, <1>3, AnswerStays, AnswerKept, ReadingKept DEF SettingsInv, SaveSettles

----------------------------------------------------------------------------
(* The invariant holds at the beginning and is kept by every step. *)
LEMMA SettingsInitially == SettingsInit => SettingsInv
  <1> SUFFICES ASSUME SettingsInit PROVE SettingsInv
    OBVIOUS
  <1>1. SettingsTypeOK
    BY NotReadingType DEF SettingsInit, SettingsTypeOK, ValueSet
  <1>2. Sending = {}
    BY DEF SettingsInit, Sending
  <1> QED BY <1>1, <1>2, NotReadingType
      DEF SettingsInit, SettingsInv, SavesAnswered, AnswerHonest, ReadingHonest, SavesHonest

(* One case for each operation of the page, the server and other administrators. *)
LEMMA SettingsInductive == SettingsInv /\ [SettingsNext]_settingsVars => SettingsInv'
  <1> SUFFICES ASSUME SettingsInv, [SettingsNext]_settingsVars PROVE SettingsInv'
    OBVIOUS
  <1>1. CASE UNCHANGED settingsVars
    BY <1>1 DEF settingsVars, SettingsInv, SettingsTypeOK, SavesAnswered, AnswerHonest,
                ReadingHonest, SavesHonest, Honest, Sending, Saves, Pairs
  <1>2. CASE SettingsNext
    <2>1. Witness
      BY <1>2 DEF SettingsNext
    <2>2. CASE GetSettings
      BY <2>1, <2>2, ReadStep
    <2>3. CASE OpenSettings \/ LeaveSettings \/ ReadingFails \/ SettingsRefetch
      BY <2>1, <2>3, QueryStep
    <2>4. CASE SettingsAnswered
      BY <2>1, <2>4, AnsweredStep
    <2>5. ASSUME NEW k \in Watched, OtherAdminSaves(k) \/ EditSetting(k) PROVE SettingsInv'
      BY <2>1, <2>5, OthersStep, SettingEdited
    <2>6. ASSUME NEW n \in Saves, UpdateSettings(n) PROVE SettingsInv'
      <3>1. CASE saves[n].revision = revision
        BY <2>1, <2>6, <3>1, AcceptStep
      <3>2. CASE saves[n].revision # revision
        BY <2>1, <2>6, <3>2, RefuseStep DEF UpdateSettings
      <3> QED BY <3>1, <3>2
    <2>7. ASSUME NEW n \in Saves, RefuseSettings(n) PROVE SettingsInv'
      BY <2>1, <2>7, RefuseStep DEF RefuseSettings
    <2>8. ASSUME NEW n \in Saves, SaveAnswered(n) \/ SaveFails(n) \/ SaveSettles(n)
          PROVE  SettingsInv'
      BY <2>1, <2>8, SavedStep, FailStep, SaveSettled
    <2>9. ASSUME NEW n \in Saves, NEW section \in Sections, saveSection(n, section)
          PROVE  SettingsInv'
      BY <2>1, <2>9, SendStep
    <2> QED BY <1>2, <2>2, <2>3, <2>4, <2>5, <2>6, <2>7, <2>8, <2>9 DEF SettingsNext
  <1> QED BY <1>1, <1>2

----------------------------------------------------------------------------
(* Only UpdateSettings accepts a save, one with the server's revision. *)
LEMMA UnseenStepHolds ==
  ASSUME SettingsInv, [SettingsNext]_settingsVars
  PROVE  UnseenStep
  <1> SUFFICES ASSUME NEW n \in Sending, saves[n].server = "sent", saves'[n].server = "accepted"
               PROVE  Replaced \subseteq seen
    BY DEF UnseenStep, Accepted
  <1>1. n \in Saves /\ saves[n] # saves'[n]
    BY DEF Sending
  <1>2. PICK m \in Saves : \/ UpdateSettings(m) \/ RefuseSettings(m) \/ SaveAnswered(m)
                           \/ SaveFails(m) \/ SaveSettles(m)
                           \/ \E section \in Sections : saveSection(m, section)
    BY <1>1 DEF SettingsNext, settingsVars, GetSettings, OpenSettings, LeaveSettings,
                SettingsAnswered, ReadingFails, SettingsRefetch, OtherAdminSaves, EditSetting
  <1>3. CASE UpdateSettings(m) /\ saves[m].revision = revision
    BY <1>3 DEF UpdateSettings, SettingsInv, SavesHonest, Replaced, Pairs
  <1>4. CASE \/ UpdateSettings(m) /\ saves[m].revision # revision
             \/ RefuseSettings(m)
    <2>1. m \in Sending /\ saves' = [saves EXCEPT ![m].server = "refused"]
      BY <1>4 DEF UpdateSettings, RefuseSettings
    <2> QED BY <1>1, <2>1, ServerMoves DEF SettingsInv
  <1>5. CASE SaveAnswered(m) \/ SaveFails(m) \/ SaveSettles(m)
    <2>1. \E x \in {"waiting", "refetching", "done"} :
            m \in Sending /\ saves' = [saves EXCEPT ![m].client = x]
      BY <1>5 DEF SaveAnswered, SaveFails, SaveSettles
    <2> QED BY <1>1, <2>1, ClientMoves DEF SettingsInv
  <1>6. ASSUME NEW section \in Sections, saveSection(m, section) PROVE FALSE
    BY <1>1, <1>6 DEF saveSection, Sending, SettingsInv, SettingsTypeOK
  <1> QED BY <1>2, <1>3, <1>4, <1>5, <1>6

(* The state of the page, its saves and the server always has its type, and *)
(* every answer that carries the server's revision carries its values.       *)
THEOREM RevisionStandsForValues == SettingsSpec => []SettingsInv
  <1> QED BY SettingsInitially, SettingsInductive, PTL DEF SettingsSpec

(* A save the server accepts replaces only values the tab was answered: the  *)
(* two statements of readSnapshot and the updates of other administrators    *)
(* between them lose nothing the sender did not know of.                     *)
THEOREM AcceptedSavesWereInformed == SettingsSpec => NoUnseenOverwrite
  <1>1. SettingsInv /\ [SettingsNext]_settingsVars => [UnseenStep]_settingsVars
    BY UnseenStepHolds
  <1> QED BY <1>1, RevisionStandsForValues, PTL DEF SettingsSpec, NoUnseenOverwrite
=============================================================================
