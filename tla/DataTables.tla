----------------------------- MODULE DataTables -----------------------------
(***************************************************************************)
(* The data tables of the console (web/src/hooks/use-data-table.ts and      *)
(* web/src/components/data-table): which columns are visible, how rows are  *)
(* sorted, how many a page has and which page is shown, and what of that is *)
(* kept in the browser's storage.  TanStack Table, which does the sorting   *)
(* and the paging, is external.  A behaviour follows one table.             *)
(***************************************************************************)
EXTENDS TenantPages, DefinitionPages, ClientPages, OperationPages

CONSTANTS
  RowCounts,   \* how many rows a table can have, and a search can leave
  MaxChoices   \* choices of columns, sorting and page size in a behaviour

ASSUME RowsAssumption == RowCounts \subseteq Nat /\ MaxChoices \in Nat

VARIABLES
  table,      \* the table followed
  kept,       \* what the browser's storage has under the table's key
  onTable,    \* whether the table is mounted
  layout,     \* visibility, page size and sorting
  pageIndex,  \* page shown, from 0
  allRows,    \* rows of the data
  filtering,  \* whether a text is searched for or an option of a filter selected
  rows,       \* rows after searching and filtering
  choices     \* bound: choices so far

rowVars   == <<allRows, filtering, rows>>
tableVars == <<table, kept, onTable, layout, pageIndex, rowVars, choices>>

----------------------------------------------------------------------------
DataTableSet == TenantTables \cup {ClientsTable} \cup OperationTables

PAGE_SIZE_OPTIONS == {5, 10, 25, 50}

(* A column sorted by; neither a sorting nor a page size is the absence of one. *)
Columns == UNION {t.columns : t \in DataTableSet}
SortKey == [id : Columns, desc : BOOLEAN]
ASSUME LayoutAssumption == None \notin Seq(SortKey) /\ None \notin PAGE_SIZE_OPTIONS

(* {...g, ...f} *)
Over(f, g) == [c \in DOMAIN f \cup DOMAIN g |-> IF c \in DOMAIN f THEN f[c] ELSE g[c]]

FirstPageSize == IF table.pageSize = None THEN 5 ELSE table.pageSize
FirstLayout ==
  [visibility |-> table.visibility, pageSize |-> FirstPageSize, sorting |-> table.sorting]

(* Stored by version 1 of the hook, by the hook before it (the visibility    *)
(* alone), by nobody, or not readable.                                       *)
Stored(kind, L) == [kind |-> kind, layout |-> L]
Legacy(c) == [visibility |-> [x \in {c} |-> FALSE], pageSize |-> None, sorting |-> None]
Nothing   == [visibility |-> <<>>, pageSize |-> None, sorting |-> None]

loadPreferences(k) == IF k.kind \in {"v1", "legacy"} THEN k.layout ELSE Nothing

(* Mutant: an emptied sorting is taken for none stored. *)
restoredWithSorting(prefs) ==
  [visibility |-> Over(prefs.visibility, table.visibility),
   pageSize   |-> IF prefs.pageSize # None THEN prefs.pageSize ELSE FirstPageSize,
   sorting    |-> IF prefs.sorting \notin {None, <<>>} THEN prefs.sorting ELSE table.sorting]

(* The first state of the hook: what is stored, over what the page gives. *)
restored(prefs) ==
  [visibility |-> Over(prefs.visibility, table.visibility),
   pageSize   |-> IF prefs.pageSize # None THEN prefs.pageSize ELSE FirstPageSize,
   sorting    |-> IF prefs.sorting # None THEN prefs.sorting ELSE table.sorting]

Free       == table.columns \ table.fixed
IsVisible(c) == c \in DOMAIN layout.visibility => layout.visibility[c]
PageCount  == (rows + layout.pageSize - 1) \div layout.pageSize

TablesInit ==
  /\ table \in DataTableSet
  /\ \/ kept \in {Stored("none", Nothing), Stored("broken", Nothing)} /\ choices = 0
     \/ kept \in {Stored("legacy", Legacy(c)) : c \in Free} /\ choices = 1
  /\ onTable = FALSE /\ layout = FirstLayout /\ pageIndex = 0
  /\ allRows = 0 /\ filtering = FALSE /\ rows = 0

----------------------------------------------------------------------------
(* The layout becomes L, and the effect stores it. *)
Lay(L) == layout' = L /\ kept' = Stored("v1", L)

MountTable ==
  /\ ~onTable /\ onTable' = TRUE
  /\ Lay(restored(loadPreferences(kept)))
  /\ pageIndex' = 0
  /\ allRows' = 0 /\ filtering' = FALSE /\ rows' = 0
  /\ UNCHANGED <<table, choices>>

UnmountTable ==
  /\ onTable /\ onTable' = FALSE
  /\ UNCHANGED <<table, kept, layout, pageIndex, rowVars, choices>>

(* The rows become those of the data that pass; the first page is shown. *)
Filtered(data, filter) ==
  /\ onTable
  /\ allRows' = data /\ filtering' = filter
  /\ rows' \in IF filter THEN {n \in RowCounts \cup {0} : n <= data} ELSE {data}
  /\ pageIndex' = 0
  /\ UNCHANGED <<table, kept, onTable, layout, choices>>

RowsChange(n) == Filtered(n, filtering)

(* A text is typed, or an option of a faceted filter selected. *)
FacetedFilter == Filtered(allRows, TRUE)

(* The text is emptied and the options deselected, at once or one by one. *)
ClearFilters == filtering /\ Filtered(allRows, FALSE)

Chosen ==
  /\ onTable /\ choices < MaxChoices /\ choices' = choices + 1
  /\ UNCHANGED <<table, onTable, rowVars>>

(* The item of a column in the view options *)
ToggleVisibility(c) ==
  /\ Chosen /\ c \in Free
  /\ Lay([layout EXCEPT !.visibility = Over([x \in {c} |-> ~IsVisible(c)], @)])
  /\ UNCHANGED pageIndex

----------------------------------------------------------------------------
(* Sorting, by each column once.  Another sorting shows the first page again. *)
SortBy(s) == Chosen /\ Lay([layout EXCEPT !.sorting = s]) /\ pageIndex' = 0

Sorted(c)  == {i \in 1..Len(layout.sorting) : layout.sorting[i].id = c}
Cleared(c) == RemoveAt(layout.sorting, CHOOSE i \in Sorted(c) : TRUE)
Turned(c, desc) ==
  [i \in 1..Len(layout.sorting) |-> IF i \in Sorted(c) THEN [id |-> c, desc |-> desc]
                                                       ELSE layout.sorting[i]]

(* toggleSorting(desc, multi) of the library. *)
Toggled(c, desc, multi) ==
  LET len == Len(layout.sorting) IN
  IF Sorted(c) # {} /\ (multi \/ len \in Sorted(c)) THEN Turned(c, desc)
  ELSE IF len > 0 /\ multi THEN Append(layout.sorting, [id |-> c, desc |-> desc])
  ELSE <<[id |-> c, desc |-> desc]>>

(* A click on a header, with shift for several: first one direction (numbers *)
(* descending), then the other, then none.                                   *)
ToggleHeader(c, descFirst, multi) ==
  /\ c \in Free /\ IsVisible(c)
  /\ LET now == {layout.sorting[i].desc : i \in Sorted(c)} IN
     SortBy(IF now = {} THEN Toggled(c, descFirst, multi)
            ELSE IF now = {descFirst} THEN Toggled(c, ~descFirst, multi)
            ELSE IF multi \/ Len(layout.sorting) \in Sorted(c) THEN Cleared(c)
            ELSE <<Asc(c)>>)

(* The item of a column in the sort list *)
SelectSort(c) ==
  /\ c \in Free
  /\ LET now == {layout.sorting[i].desc : i \in Sorted(c)} IN
     SortBy(IF now = {} THEN Toggled(c, FALSE, layout.sorting # <<>>)
            ELSE IF now = {FALSE} THEN Toggled(c, TRUE, TRUE)
            ELSE Cleared(c))

ResetSorting == layout.sorting # <<>> /\ SortBy(table.sorting)

ResetTable == Chosen /\ Lay(FirstLayout) /\ pageIndex' = 0

----------------------------------------------------------------------------
(* Pages.  Another page size keeps the first row of the page in view. *)
SetPageSize(n) ==
  /\ Chosen /\ n # layout.pageSize
  /\ Lay([layout EXCEPT !.pageSize = n])
  /\ pageIndex' = (pageIndex * layout.pageSize) \div n

(* Mutant: pages counted from 1. *)
GoToLastFromOne ==
  /\ onTable /\ pageIndex < PageCount - 1
  /\ pageIndex' = PageCount

GoToLast ==
  /\ onTable /\ pageIndex < PageCount - 1
  /\ pageIndex' = PageCount - 1

GoToNext == onTable /\ pageIndex < PageCount - 1 /\ pageIndex' = pageIndex + 1

GoBack == onTable /\ pageIndex > 0 /\ pageIndex' \in {0, pageIndex - 1}

Turn ==
  /\ GoToLast \/ GoToNext \/ GoBack
  /\ UNCHANGED <<table, kept, onTable, layout, rowVars, choices>>

TablesNext ==
  \/ MountTable \/ UnmountTable \/ Turn \/ FacetedFilter \/ ClearFilters \/ ResetSorting \/ ResetTable
  \/ \E n \in RowCounts : RowsChange(n)
  \/ \E n \in PAGE_SIZE_OPTIONS : SetPageSize(n)
  \/ \E c \in Free : \/ ToggleVisibility(c) \/ SelectSort(c)
                     \/ \E descFirst, multi \in BOOLEAN : ToggleHeader(c, descFirst, multi)

TablesSpec == TablesInit /\ [][TablesNext]_tableVars

----------------------------------------------------------------------------
(* Whatever the user has hidden, sorted, unsorted, resized or reset, and     *)
(* whatever an older version had stored, a reload shows the table as it is.  *)
PreferencesStick == onTable => restored(loadPreferences(kept)) = layout

(* A table with rows never shows an empty page, through any sequence of      *)
(* turning pages, changing their size, sorting, searching and resetting.     *)
PageInRange == onTable /\ rows > 0 => pageIndex < PageCount
=============================================================================
