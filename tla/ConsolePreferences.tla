------------------------- MODULE ConsolePreferences -------------------------
(***************************************************************************)
(* The language and the theme of the console (web/src/lib/i18n.tsx,        *)
(* lib/theme.tsx, the menus of components/app-shell.tsx): what one tab     *)
(* shows, what the browser's storage keeps for all of them, the default    *)
(* language asked of the server when nothing is stored, and the theme of   *)
(* the operating system, which may change at any time.                     *)
(***************************************************************************)
EXTENDS Naturals

CONSTANTS
  NotStored,   \* nothing under the key
  MaxPicks     \* picks, of any tab, and changes of the system's theme

ASSUME PicksAssumption == MaxPicks \in Nat

VARIABLES
  prefStore,   \* localStorage, which every tab shares: locale and theme
  systemDark,  \* prefers-color-scheme of the system
  announced,   \* whether the tab's listeners have been told of it
  tab,         \* what the tab shows; its theme listeners; the default asked for
  wish,        \* ghost: stored when the tab was loaded, or picked in it since
  picks        \* bound: picks and system changes so far

prefVars == <<prefStore, systemDark, announced, tab, wish, picks>>

----------------------------------------------------------------------------
LOCALE_OPTIONS == {"pt-BR", "en-US", "es-ES"}
DEFAULT_LOCALE == "pt-BR"
ThemePreference == {"dark", "light", "system"}

(* What the storage may hold: an option, another spelling of one, text of    *)
(* another version, or nothing.                                              *)
StoredLocales == LOCALE_OPTIONS \cup {"en_us", "fr-FR", NotStored}
StoredThemes  == ThemePreference \cup {"sepia", NotStored}

normalizeLocale(l) ==
  IF l \in {"en-US", "en_us"} THEN "en-US"
  ELSE IF l \in LOCALE_OPTIONS THEN l ELSE DEFAULT_LOCALE
normalizeTheme(t)  == IF t \in ThemePreference THEN t ELSE "system"
resolveTheme(t, isDark) ==
  IF t # "system" THEN t ELSE IF isDark THEN "dark" ELSE "light"

readStoredLocale == normalizeLocale(prefStore.locale)
readStoredTheme  == normalizeTheme(prefStore.theme)

(* Mutant: the default is asked for whatever is stored. *)
AsksWheneverSignedIn(signedIn, l) == signedIn

(* The locale effect of AppShell asks for the default of the settings. *)
AsksDefault(signedIn, l) == signedIn /\ l = NotStored

(* ThemeProvider's effect: the listener of the last theme is removed, and    *)
(* "system" subscribes its own.                                              *)
Listeners(t) == {t} \cap {"system"}

(* applyTheme, for the theme a listener was made with. *)
applyTheme(t) == resolveTheme(t, systemDark)

----------------------------------------------------------------------------
(* The document is loaded.  Effects run from the inside out: the shell looks *)
(* for a stored language before I18nProvider and ThemeProvider store theirs. *)
RootLayout(signedIn) ==
  /\ tab' = [locale |-> readStoredLocale, theme |-> readStoredTheme,
             applied |-> applyTheme(readStoredTheme),
             listeners |-> Listeners(readStoredTheme),
             asking |-> AsksDefault(signedIn, prefStore.locale)]
  /\ wish' = [locale |-> prefStore.locale, theme |-> prefStore.theme,
              found |-> prefStore.locale # NotStored]
  /\ prefStore' = [locale |-> readStoredLocale, theme |-> readStoredTheme]
  /\ announced' = TRUE

Unloaded == [locale |-> NotStored, theme |-> NotStored, applied |-> NotStored,
             listeners |-> {}, asking |-> FALSE]
Loaded   == tab # Unloaded

PreferencesInit ==
  /\ prefStore \in [locale : StoredLocales, theme : StoredThemes]
  /\ systemDark \in BOOLEAN /\ announced = TRUE
  /\ tab = Unloaded /\ picks = 0
  /\ wish = [locale |-> NotStored, theme |-> NotStored, found |-> FALSE]

Load(signedIn) ==
  /\ RootLayout(signedIn)
  /\ UNCHANGED <<systemDark, picks>>

Counts == picks < MaxPicks /\ picks' = picks + 1

(* I18nProvider: the language becomes l, and its effect stores it. *)
setLocale(l, asking) ==
  /\ tab' = [tab EXCEPT !.locale = l, !.asking = asking]
  /\ prefStore' = [prefStore EXCEPT !.locale = l]

(* The item of a language.  A request for the default stays on its way. *)
LanguageMenu(l) ==
  /\ Loaded /\ Counts /\ l # tab.locale
  /\ setLocale(l, tab.asking)
  /\ wish' = [wish EXCEPT !.locale = l]
  /\ UNCHANGED <<systemDark, announced>>

(* The settings answer: the default is shown, if it is a language. *)
DefaultArrives(l) ==
  /\ Loaded /\ tab.asking
  /\ setLocale(l, FALSE)
  /\ UNCHANGED <<systemDark, announced, wish, picks>>

(* The configuration of the sign-in arrives, or the credential changes: the  *)
(* effect runs again, which aborts the request, and finds a language stored. *)
(* A request that fails changes nothing either.                              *)
AskingAborted ==
  /\ Loaded /\ tab.asking
  /\ tab' = [tab EXCEPT !.asking = FALSE]
  /\ UNCHANGED <<prefStore, systemDark, announced, wish, picks>>

(* The item of a theme: ThemeProvider applies, stores and subscribes. *)
ThemeMenu(t) ==
  /\ Loaded /\ Counts /\ t # tab.theme
  /\ tab' = [tab EXCEPT !.theme = t, !.applied = applyTheme(t),
                        !.listeners = Listeners(t)]
  /\ prefStore' = [prefStore EXCEPT !.theme = t]
  /\ wish' = [wish EXCEPT !.theme = t]
  /\ UNCHANGED <<systemDark, announced>>

SystemChanges ==
  /\ Counts
  /\ systemDark' = ~systemDark /\ announced' = FALSE
  /\ UNCHANGED <<prefStore, tab, wish>>

(* The change event: every listener applies the theme it was made with. *)
syncTheme ==
  /\ Loaded /\ ~announced /\ announced' = TRUE
  /\ IF tab.listeners = {} THEN UNCHANGED tab
     ELSE \E t \in tab.listeners : tab' = [tab EXCEPT !.applied = applyTheme(t)]
  /\ UNCHANGED <<prefStore, systemDark, wish, picks>>

(* Another tab stores what is picked there; this one does not listen. *)
OtherTabPicks(l, t) ==
  /\ Counts
  /\ prefStore' \in {[prefStore EXCEPT !.locale = l], [prefStore EXCEPT !.theme = t]}
  /\ UNCHANGED <<systemDark, announced, tab, wish>>

PreferencesNext ==
  \/ \E signedIn \in BOOLEAN : Load(signedIn)
  \/ \E l \in LOCALE_OPTIONS : LanguageMenu(l) \/ DefaultArrives(l)
  \/ AskingAborted \/ SystemChanges \/ syncTheme
  \/ \E t \in ThemePreference : ThemeMenu(t)
  \/ \E l \in LOCALE_OPTIONS, t \in ThemePreference : OtherTabPicks(l, t)

PreferencesSpec == PreferencesInit /\ [][PreferencesNext]_prefVars

----------------------------------------------------------------------------
(* What the user chose is what the tab shows, whatever arrives late: the     *)
(* theme, applied to the system as it is, always; the language in every tab  *)
(* that found one stored, where the server's default must not come between.  *)
(* (A tab that found none may have its first pick undone by the default.)    *)
ChoiceIsShown ==
  Loaded =>
    /\ tab.theme = normalizeTheme(wish.theme)
    /\ announced => tab.applied = resolveTheme(tab.theme, systemDark)
    /\ wish.found => tab.locale = normalizeLocale(wish.locale)
=============================================================================
