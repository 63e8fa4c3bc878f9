----------------------------- MODULE MCConsole -----------------------------
(***************************************************************************)
(* The specifications of the console in one model.  They share no state, so *)
(* a behaviour follows one of them and the others stand still: the states   *)
(* are the sum of theirs, not the product.                                  *)
(***************************************************************************)
EXTENDS ConsoleViews, ConsoleSession, KeyedForms, RuntimeSettings, DataTables, ConsolePreferences,
        ScaleGate

VARIABLE focus   \* the specification followed

Parts == {"views", "session", "forms", "settings", "tables", "preferences", "scale"}

ConsoleInit ==
  /\ focus \in Parts
  /\ Init /\ (focus # "views" => view = overview /\ page = OverviewRoute)
  /\ SessionInit /\ (focus # "session" => authMode = "oidc" /\ stored = NoOne /\ cookie = NoOne)
  /\ FormsInit /\ (focus # "forms" => keyedForm = tenantForm)
  /\ SettingsInit
  /\ TablesInit /\ (focus # "tables" => table = TenantsTable /\ kept.kind = "none")
  /\ PreferencesInit
  /\ focus # "preferences" => ~systemDark /\ prefStore = [locale |-> NotStored, theme |-> NotStored]
  /\ ScaleInit

ConsoleNext ==
  /\ UNCHANGED focus
  /\ \/ /\ focus = "views" /\ Next
        /\ UNCHANGED <<sessionVars, formVars, settingsVars, tableVars, prefVars, scaleVars>>
     \/ /\ focus = "session" /\ SessionNext
        /\ UNCHANGED <<vars, formVars, settingsVars, tableVars, prefVars, scaleVars>>
     \/ /\ focus = "forms" /\ FormsNext
        /\ UNCHANGED <<vars, sessionVars, settingsVars, tableVars, prefVars, scaleVars>>
     \/ /\ focus = "settings" /\ SettingsNext
        /\ UNCHANGED <<vars, sessionVars, formVars, tableVars, prefVars, scaleVars>>
     \/ /\ focus = "tables" /\ TablesNext
        /\ UNCHANGED <<vars, sessionVars, formVars, settingsVars, prefVars, scaleVars>>
     \/ /\ focus = "preferences" /\ PreferencesNext
        /\ UNCHANGED <<vars, sessionVars, formVars, settingsVars, tableVars, scaleVars>>
     \/ /\ focus = "scale" /\ ScaleNext
        /\ UNCHANGED <<vars, sessionVars, formVars, settingsVars, tableVars, prefVars>>

ConsoleSpec ==
  ConsoleInit /\ [][ConsoleNext]_<<focus, vars, sessionVars, formVars, settingsVars, tableVars,
                                prefVars, scaleVars>>

(* Bounds: with a second invocation, the measurements that breach a threshold *)
(* are alike; with a third, one size is measured, by two of them.             *)
SecondInvocation ==
  bench[2].at # "new" => Cardinality({taken[x[1]][x[2]][x[3]] : x \in Breaches}) <= 1

ThirdInvocation ==
  bench[3].at # "new" =>
    /\ \E i \in Starts : taken[i] = NoFiles
    /\ \A i \in Starts : bench[i].sizes \subseteq {250} /\ \A size \in Sizes \ {250} : taken[i][size] = NoFiles[size]

FewAtOnce == SecondInvocation /\ ThirdInvocation

(* A session with every permission. *)
AllGranted == AdminPermission
=============================================================================
