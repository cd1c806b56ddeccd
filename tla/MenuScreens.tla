----------------------------- MODULE MenuScreens -----------------------------
(***************************************************************************)
(* The menu of playora-agent (tui.rs): three screens, a key at a time.  The *)
(* main menu and the update screen share one selection although their lists *)
(* differ in length; the selection of the PortMaster screen outlives the    *)
(* catalog it was made in.  A step is one turn of run_loop: a key, and the  *)
(* screen drawn after it, which cuts a selection down to its list.          *)
(***************************************************************************)
EXTENDS Naturals, Sequences, SequencesExt

CONSTANTS
    Actions,        \* MAIN_ACTIONS, <<"ports", "update", "other", "quit">>
    Catalogs        \* what may be fetched: sequences of "ready to run?"

MenuAssumption == Catalogs \subseteq Seq(BOOLEAN)

VARIABLES
    screen, running,
    main, pm,       \* selected rows, counted from 1; 0 when no row is selected
    fetched,        \* pm_catalog is there
    catalog,
    ready,          \* pm_filter_rtr
    channel,
    ports,          \* the ports on the screen, as it was last drawn
    chosen          \* history: the port the last Enter was about; 0 for none

menuVars == <<screen, running, main, pm, fetched, catalog, ready, channel, ports, chosen>>

Init ==
    /\ screen = "main" /\ running = TRUE
    /\ main = 1 /\ pm = 1 /\ fetched = FALSE /\ catalog = <<>> /\ ready = TRUE
    /\ channel = "stable" /\ ports = <<>> /\ chosen = 0

Least(a, b) == IF a < b THEN a ELSE b

On(s) == running /\ screen = s

\* selected().unwrap_or(0), then one further or one back
Row(i) == IF i = 0 THEN 1 ELSE i
After(i, length) == IF length = 0 THEN 1 ELSE Least(Row(i) + 1, length)
Before(i) == IF Row(i) = 1 THEN 1 ELSE Row(i) - 1

\* ratatui's List: no row of an empty list, and none beyond the last
Cut(i, length) == IF length = 0 THEN 0 ELSE Least(i, length)

AllOf(c) == [i \in DOMAIN c |-> i]

\* The ports of catalog c that are listed, by their place in it
Listed(c, f) ==
    LET upTo[i \in 0..Len(c)] ==
            IF i = 0 THEN <<>>
            ELSE IF ~f \/ c[i] THEN Append(upTo[i - 1], i) ELSE upTo[i - 1]
    IN upTo[Len(c)]

\* The screen is drawn: selections m and p, catalog c, filter f, on screen s.
Draw(s, m, p, c, f) ==
    /\ screen' = s /\ catalog' = c /\ ready' = f
    /\ main' = CASE s = "main" -> Cut(m, Len(Actions))
                 [] s = "update" -> Cut(m, 3)
                 [] s = "ports" -> m
    /\ ports' = IF s = "ports" THEN Listed(c, f) ELSE <<>>
    /\ pm' = IF s = "ports" THEN Cut(p, Len(Listed(c, f))) ELSE p

-----------------------------------------------------------------------------
(* Main menu *)

MainKey ==
    /\ On("main")
    /\ \E row \in {After(main, Len(Actions)), Before(main)} :
           Draw("main", row, pm, catalog, ready)
    /\ UNCHANGED <<running, fetched, channel, chosen>>

Pressed == Actions[Row(main)]

\* Mutant: the screen changes before the catalog is there.
OpensAnyway(ok) == "ports"

ScreenFor(ok) == IF ok THEN "ports" ELSE "main"

\* fetch_catalog may fail; a catalog fetched earlier is then kept.
OpenPorts ==
    /\ On("main") /\ Pressed = "ports"
    /\ \E ok \in BOOLEAN, c \in Catalogs :
           /\ fetched' = (fetched \/ ok)
           /\ Draw(ScreenFor(ok), main, pm, IF ok THEN c ELSE catalog, ready)
    /\ UNCHANGED <<running, channel, chosen>>

OpenUpdate ==
    /\ On("main") /\ Pressed = "update"
    /\ Draw("update", main, pm, catalog, ready)
    /\ UNCHANGED <<running, fetched, channel, chosen>>

\* The last row, or q on any screen
Quit ==
    /\ running
    /\ running' = FALSE
    /\ UNCHANGED <<screen, main, pm, fetched, catalog, ready, channel, ports, chosen>>

-----------------------------------------------------------------------------
(* PortMaster *)

PortsKey ==
    /\ On("ports")
    /\ \E row \in {After(pm, Len(Listed(catalog, ready))), Before(pm)} :
           Draw("ports", main, row, catalog, ready)
    /\ UNCHANGED <<running, fetched, channel, chosen>>

Filter ==
    /\ On("ports")
    /\ Draw("ports", main, 1, catalog, ~ready)
    /\ UNCHANGED <<running, fetched, channel, chosen>>

\* Mutant: the row is looked up among all the ports.
Unfiltered(c, f) == AllOf(c)

\* The handler filters the catalog a second time.
Rows(c, f) == Listed(c, f)

\* filtered.get(i): nothing when no row is selected
Install ==
    /\ On("ports")
    /\ chosen' = IF pm \in DOMAIN Rows(catalog, ready) THEN Rows(catalog, ready)[pm] ELSE 0
    /\ Draw("ports", main, pm, catalog, ready)
    /\ UNCHANGED <<running, fetched, channel>>

LeavePorts ==
    /\ On("ports")
    /\ Draw("main", main, pm, catalog, ready)
    /\ UNCHANGED <<running, fetched, channel, chosen>>

-----------------------------------------------------------------------------
(* Update *)

SwitchChannel ==
    /\ On("update")
    /\ channel' = IF channel = "stable" THEN "beta" ELSE "stable"
    /\ Draw("update", main, pm, catalog, ready)
    /\ UNCHANGED <<running, fetched, chosen>>

UpdateKey ==
    /\ On("update")
    /\ \E row \in {After(main, 3), Before(main)} : Draw("update", row, pm, catalog, ready)
    /\ UNCHANGED <<running, fetched, channel, chosen>>

\* Esc, or Enter on the last row
LeaveUpdate ==
    /\ On("update")
    /\ Draw("main", 1, pm, catalog, ready)
    /\ UNCHANGED <<running, fetched, channel, chosen>>

Next ==
    \/ MainKey \/ OpenPorts \/ OpenUpdate \/ Quit
    \/ PortsKey \/ Filter \/ Install \/ LeavePorts
    \/ SwitchChannel \/ UpdateKey \/ LeaveUpdate

Spec == Init /\ [][Next]_menuVars

-----------------------------------------------------------------------------
(* Properties *)

\* Every variable has its type.
TypeOK ==
    /\ screen \in {"main", "ports", "update"} /\ running \in BOOLEAN
    /\ main \in 0..Len(Actions) /\ pm \in Nat
    /\ fetched \in BOOLEAN /\ catalog \in Catalogs \union {<<>>}
    /\ ready \in BOOLEAN /\ channel \in {"stable", "beta"}
    /\ Range(ports) \subseteq DOMAIN catalog /\ chosen \in Nat

\* The unwrap of pm_catalog never panics, whichever screens were visited and
\* however often the catalog could not be fetched: a panic leaves the console in
\* raw mode.
MenuNeverPanics == screen = "ports" => fetched

\* Enter installs the port whose row is highlighted, and none when no row is:
\* the list is filtered once to be drawn and a second time to be acted on, and
\* between the two the filter may have been turned and the catalog replaced.
InstallShown == Install => chosen' = IF pm \in DOMAIN ports THEN ports[pm] ELSE 0
InstallsShown == [][InstallShown]_menuVars
=============================================================================
