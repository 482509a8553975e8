---------------------------- MODULE Preferences ----------------------------
(***************************************************************************)
(* What the admin site's pages keep in the browser: the theme (theme.js)   *)
(* and whether the sidebar is open (nav_sidebar.js) in localStorage, which *)
(* all tabs share, the sidebar's quick filter and the filters folded away  *)
(* beside a change list (filters.js) in sessionStorage, one for each tab.  *)
(* A page reads them when it is loaded, and not when another tab writes.   *)
(***************************************************************************)
EXTENDS Integers

CONSTANTS
    Tabs,
    Models,         \* the rows of the sidebar
    Typed,          \* what is typed into the quick filter, and not empty
    Lower,          \* Lower[w]: the same in lower case
    Having,         \* Having[w]: the rows whose title, in lower case, has w
    Lists,          \* change lists
    FiltersOf       \* FiltersOf[l]: the titles of the filters beside one

VARIABLES
    prefersDark,    \* prefers-color-scheme: dark
    storedTheme, theme,         \* localStorage, and what each tab shows
    storedOpen, expanded,       \* the same, of the sidebar: navSidebarIsOpen
    shifted,                    \* the class that makes room for it
    box, modelsHidden, noResults, keptText,     \* the quick filter of each tab
    listed, folded, keptFolds                   \* the change list and its filters

vars == <<prefersDark, storedTheme, theme, storedOpen, expanded, shifted,
          box, modelsHidden, noResults, keptText, listed, folded, keptFolds>>

themeVars == <<storedTheme, theme>>
sideVars == <<storedOpen, expanded, shifted>>
quickVars == <<box, modelsHidden, noResults, keptText>>
foldVars == <<listed, folded, keptFolds>>

Themes == {"auto", "light", "dark"}
Titles == UNION {FiltersOf[l] : l \in Lists}

TypeOK ==
    /\ prefersDark \in BOOLEAN
    /\ storedTheme \in Themes /\ theme \in [Tabs -> Themes]
    /\ storedOpen \in {"none", "true", "false"}
    /\ expanded \in [Tabs -> BOOLEAN] /\ shifted \in [Tabs -> BOOLEAN]
    /\ box \in [Tabs -> Typed \cup {""}] /\ keptText \in [Tabs -> Typed \cup {""}]
    /\ modelsHidden \in [Tabs -> SUBSET Models] /\ noResults \in [Tabs -> BOOLEAN]
    /\ listed \in [Tabs -> Lists] /\ folded \in [Tabs -> SUBSET Titles]
    /\ keptFolds \in [Tabs -> [Titles -> {"none", "open", "folded"}]]

(* Every tab has its first page, loaded with nothing stored.               *)
Init ==
    /\ prefersDark = FALSE
    /\ storedTheme = "auto" /\ theme = [t \in Tabs |-> "auto"]
    /\ storedOpen = "none"
    /\ expanded = [t \in Tabs |-> TRUE] /\ shifted = [t \in Tabs |-> TRUE]
    /\ box = [t \in Tabs |-> ""] /\ keptText = [t \in Tabs |-> ""]
    /\ modelsHidden = [t \in Tabs |-> {}] /\ noResults = [t \in Tabs |-> FALSE]
    /\ listed = [t \in Tabs |-> CHOOSE l \in Lists : TRUE] /\ folded = [t \in Tabs |-> {}]
    /\ keptFolds = [t \in Tabs |-> [title \in Titles |-> "none"]]

-----------------------------------------------------------------------------
(* cycleTheme goes on from what is stored, whatever the tab shows.         *)
NextTheme ==
    LET order == IF prefersDark THEN <<"auto", "light", "dark">>
                                ELSE <<"auto", "dark", "light">>
        at == CHOOSE k \in 1..3 : order[k] = storedTheme
    IN  order[(at % 3) + 1]

CycleTheme(t) ==
    /\ storedTheme' = NextTheme
    /\ theme' = [theme EXCEPT ![t] = NextTheme]
    /\ UNCHANGED <<prefersDark, sideVars, quickVars, foldVars>>

SystemTheme ==
    /\ prefersDark' = ~prefersDark
    /\ UNCHANGED <<themeVars, sideVars, quickVars, foldVars>>

(* The page's own flag is turned over and stored.                          *)
ToggleSidebar(t) ==
    /\ expanded' = [expanded EXCEPT ![t] = ~@]
    /\ storedOpen' = IF expanded'[t] THEN "true" ELSE "false"
    /\ shifted' = [shifted EXCEPT ![t] = ~@]
    /\ UNCHANGED <<prefersDark, themeVars, quickVars, foldVars>>

(* checkValue, of a text that is in lower case.                            *)
Lacking(text) == IF text = "" THEN {} ELSE Models \ Having[text]
CheckValue(t, text) ==
    /\ modelsHidden' = [modelsHidden EXCEPT ![t] = Lacking(text)]
    /\ noResults' = [noResults EXCEPT ![t] = text # "" /\ Lacking(text) = Models]
    /\ keptText' = [keptText EXCEPT ![t] = text]

TypeFilter(t, w) ==
    /\ box' = [box EXCEPT ![t] = w]
    /\ CheckValue(t, Lower[w])
    /\ UNCHANGED <<prefersDark, themeVars, sideVars, foldVars>>

(* Mutant: Escape empties the box alone.                                   *)
EscapeTheBox(t) ==
    /\ box' = [box EXCEPT ![t] = ""]
    /\ CheckValue(t, keptText[t])
    /\ UNCHANGED <<prefersDark, themeVars, sideVars, foldVars>>

(* Escape in the box, or all of its text deleted.                          *)
EscapeFilter(t) ==
    /\ box' = [box EXCEPT ![t] = ""]
    /\ CheckValue(t, "")
    /\ UNCHANGED <<prefersDark, themeVars, sideVars, foldVars>>

(* A filter of the list is folded away or opened.                          *)
ToggleFilter(t, title) ==
    /\ title \in FiltersOf[listed[t]]
    /\ folded' = [folded EXCEPT ![t] = IF title \in @ THEN @ \ {title} ELSE @ \cup {title}]
    /\ keptFolds' = [keptFolds EXCEPT ![t][title] =
                        IF title \in folded'[t] THEN "folded" ELSE "open"]
    /\ UNCHANGED <<prefersDark, themeVars, sideVars, quickVars, listed>>

(* A page is loaded into the tab: navSidebarIsOpen is true when nothing is *)
(* stored; the quick filter is put back; filters that were folded are,     *)
(* those of other lists being kept as they are.                            *)
LoadSidebar(t) ==
    /\ expanded' = [expanded EXCEPT ![t] = storedOpen # "false"]
    /\ shifted' = [shifted EXCEPT ![t] = storedOpen # "false"]
    /\ UNCHANGED storedOpen

LoadQuickFilter(t) ==
    /\ box' = [box EXCEPT ![t] = keptText[t]]
    /\ CheckValue(t, keptText[t])

LoadFilters(t, l) ==
    /\ listed' = [listed EXCEPT ![t] = l]
    /\ folded' = [folded EXCEPT ![t] =
                    {title \in FiltersOf[l] : keptFolds[t][title] = "folded"}]
    /\ UNCHANGED keptFolds

Load(t, l) ==
    /\ theme' = [theme EXCEPT ![t] = storedTheme]
    /\ LoadSidebar(t) /\ LoadQuickFilter(t) /\ LoadFilters(t, l)
    /\ UNCHANGED <<prefersDark, storedTheme>>

Next ==
    \/ SystemTheme
    \/ \E t \in Tabs :
        \/ CycleTheme(t) \/ ToggleSidebar(t) \/ EscapeFilter(t)
        \/ \E w \in Typed : TypeFilter(t, w)
        \/ \E title \in Titles : ToggleFilter(t, title)
        \/ \E l \in Lists : Load(t, l)

Spec == Init /\ [][Next]_vars

-----------------------------------------------------------------------------
(* What a tab shows is what it would show if it were loaded again, but for *)
(* what other tabs chose since: the rows of the sidebar hidden by the text *)
(* in the box, the room made for the sidebar, the filters of its list; and *)
(* the last choice of a theme or of the sidebar is in sight in some tab.   *)
ShownAsKept ==
    /\ \E t \in Tabs : theme[t] = storedTheme
    /\ \E t \in Tabs : expanded[t] = (storedOpen # "false")
    /\ \A t \in Tabs :
        /\ shifted[t] = expanded[t]
        /\ box[t] # "" => Lower[box[t]] = keptText[t]
        /\ modelsHidden[t] = IF box[t] = "" THEN {} ELSE Models \ Having[Lower[box[t]]]
        /\ noResults[t] = (modelsHidden[t] = Models)
        /\ folded[t] = {title \in FiltersOf[listed[t]] : keptFolds[t][title] = "folded"}

=============================================================================
