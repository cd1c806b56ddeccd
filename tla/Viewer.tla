-------------------------------- MODULE Viewer --------------------------------
(***************************************************************************)
(* The text viewer of darkos-tui (viewer.rs): one key at a time between two *)
(* redraws, each of which takes the height of the page from the terminal,   *)
(* which may have changed.  A redraw slices the lines of the page out of    *)
(* the text and panics when the slice ends before it begins; the release    *)
(* build then aborts with the terminal in raw mode.  Lines longer than the  *)
(* terminal is wide are wrapped and push the last lines of the slice off    *)
(* the page.                                                                *)
(***************************************************************************)
EXTENDS Naturals, Sequences, FiniteSets, SequencesExt

CONSTANTS
    MaxTotal,       \* lines of a text
    MaxHeight,      \* of a page
    Terms,          \* what is searched for: the lines it occurs in
    Wraps           \* widths of the terminal: the lines that take more than one row

ViewerAssumption ==
    /\ MaxTotal \in Nat /\ MaxHeight \in Nat
    /\ Terms \subseteq SUBSET Nat /\ Wraps \subseteq SUBSET Nat

VARIABLES
    total,          \* source.lines.len()
    offset, height,
    long,           \* the lines that take more than one row on the screen
    shown,          \* lines of the slice that are on the screen whole, from its first
    search,         \* the lines the term occurs in
    typing,
    matches,        \* as a sequence
    cursor,         \* cursor_match, or NoCursor
    drawn,          \* the page on the screen is that of the state
    target          \* history: the line jumped to, or NoTarget when the page moved on

viewerVars == <<total, offset, height, long, shown, search, typing, matches, cursor, drawn,
                target>>

NoTerm == {}            \* None, or nothing typed yet
NoCursor == MaxTotal + 1
NoTarget == MaxTotal + 1

Least(a, b) == IF a < b THEN a ELSE b
Minus(a, b) == IF a < b THEN 0 ELSE a - b      \* saturating_sub
AtLeastOne(n) == IF n = 0 THEN 1 ELSE n

Init ==
    /\ total \in 0..MaxTotal
    /\ offset = 0 /\ height = 0 /\ long = {} /\ shown = 0
    /\ search = NoTerm /\ typing = FALSE
    /\ matches = <<>> /\ cursor = NoCursor
    /\ drawn = FALSE /\ target = NoTarget

\* term.draw: the slice [start, end) of the lines
PageEnd == Least(offset + height, total)

\* The rows of the page go to the lines of the slice from the first one on, and a line
\* that wraps takes more than one: whether a line behind it fits depends on how many.
Fit(n) ==
    /\ n + Cardinality(long \intersect (offset..(offset + n - 1))) <= height
    /\ \A line \in offset..(PageEnd - 1) :
          (offset..line) \intersect long = {} => line < offset + n

Draw ==
    /\ ~drawn /\ drawn' = TRUE
    /\ UNCHANGED <<total, offset, search, typing, matches, cursor, target>>
    /\ height' \in 0..MaxHeight /\ long' \in Wraps
    /\ shown' \in 0..(PageEnd' - offset) /\ Fit(shown)'

Key == drawn /\ drawn' = FALSE /\ UNCHANGED <<long, shown>>

Scroll(to) ==
    /\ Key /\ ~typing
    /\ offset' = to /\ target' = NoTarget
    /\ UNCHANGED <<total, height, search, typing, matches, cursor>>

\* Mutant: the page may begin anywhere.
AlwaysMore == TRUE

MoreBelow == offset + 1 + height <= total

Down == Scroll(IF MoreBelow THEN offset + 1 ELSE offset)

Up == Scroll(Minus(offset, 1))

\* Mutant: the height with the borders.
Bordered == AtLeastOne(height + 2)

Step == AtLeastOne(height)

PageDown == Scroll(Least(offset + Step, Minus(total, Step)))

PageUp == Scroll(Minus(offset, Step))

Home == Scroll(0)

End == Scroll(Minus(total, Step))

-----------------------------------------------------------------------------
(* Search *)

Slash ==
    /\ Key /\ ~typing
    /\ typing' = TRUE /\ search' = NoTerm
    /\ UNCHANGED <<total, offset, height, matches, cursor, target>>

\* Characters, and Backspace
Type ==
    /\ Key /\ typing
    /\ \E t \in Terms \union {NoTerm} : search' = t
    /\ UNCHANGED <<total, offset, height, typing, matches, cursor, target>>

Cancel ==
    /\ Key /\ typing
    /\ typing' = FALSE /\ search' = NoTerm
    /\ matches' = <<>> /\ cursor' = NoCursor
    /\ UNCHANGED <<total, offset, height, target>>

\* Mutant: a page above the match.
PageAbove(line) == Minus(line, height)

\* jump_to_match: two lines above the match
TopFor(line) == Minus(line, 2)

Jumped(found, i) ==
    IF found = <<>>
    THEN UNCHANGED <<offset, cursor, target>>
    ELSE LET wrapped == i % Len(found)
         IN /\ cursor' = wrapped
            /\ target' = found[wrapped + 1]
            /\ offset' = TopFor(target')

\* recompute_matches: a look at each line from the first, which is 0, to the last
Found ==
    LET before[n \in 0..total] ==
            IF n = 0 THEN <<>>
            ELSE IF n - 1 \in search THEN Append(before[n - 1], n - 1)
                 ELSE before[n - 1]
    IN before[total]

Confirm ==
    /\ Key /\ typing
    /\ typing' = FALSE
    /\ matches' = Found
    /\ Jumped(Found, 0)
    /\ UNCHANGED <<total, height, search>>

NextMatch == IF cursor = NoCursor THEN 0 ELSE cursor + 1

Forward ==
    /\ Key /\ ~typing
    /\ Jumped(matches, NextMatch)
    /\ UNCHANGED <<total, height, search, typing, matches>>

Backward ==
    /\ Key /\ ~typing
    /\ IF cursor = NoCursor THEN UNCHANGED <<offset, cursor, target>>
       ELSE Jumped(matches, Minus(cursor, 1))
    /\ UNCHANGED <<total, height, search, typing, matches>>

\* f: the page, and twenty lines at least, go to a file.
Snapshot ==
    /\ Key /\ ~typing
    /\ UNCHANGED <<total, offset, height, search, typing, matches, cursor, target>>

Next ==
    \/ Draw \/ Down \/ Up \/ PageDown \/ PageUp \/ Home \/ End
    \/ Slash \/ Type \/ Cancel \/ Confirm \/ Forward \/ Backward \/ Snapshot

Spec == Init /\ [][Next]_viewerVars

-----------------------------------------------------------------------------
(* Properties *)

\* Every variable has its type; the match shown is one of the last search.
TypeOK ==
    /\ total \in 0..MaxTotal /\ height \in 0..MaxHeight
    /\ offset \in Nat /\ shown \in 0..MaxHeight /\ long \subseteq Nat
    /\ target \in 0..MaxTotal + 1
    /\ typing \in BOOLEAN /\ drawn \in BOOLEAN
    /\ ToSet(matches) \subseteq 0..MaxTotal
    /\ cursor \in 0..MaxTotal + 1
    /\ matches # <<>> => cursor \in 0..(Len(matches) - 1)

\* No redraw and no snapshot slices backwards, whatever keys were pressed and
\* however the terminal was resized between them: the viewer never panics.
NeverPanics == offset <= PageEnd

\* The line of a match that was jumped to is on the screen whole, at each redraw until the
\* page is moved and whatever height that gives it, as long as there are three rows and
\* neither the line nor one above it on the page is wrapped: a wrapped line may push the
\* match off the screen.
MatchShown ==
    drawn /\ target # NoTarget /\ height >= 3 =>
        /\ offset <= target
        /\ target < offset + shown \/ (offset..target) \intersect long # {}

\* Page by page, no line goes by unseen unless a line of the page is wrapped: the next page
\* begins at the first line that is not on the screen at the latest.  A wrapped line makes
\* PageDown pass over lines that were not on the screen.  The last line is reached: the
\* next page begins further down unless this one's slice ends with it.
PageFollows ==
    PageDown /\ height > 0 =>
        /\ offset' <= offset + shown \/ (offset..(PageEnd - 1)) \intersect long # {}
        /\ offset' > offset \/ PageEnd = total
PagingSkipsNothing == [][PageFollows]_viewerVars
=============================================================================
