------------------------------- MODULE Console -------------------------------
(***************************************************************************)
(* The console: con_write interprets what is written, escape sequences     *)
(* included, and keeps the cursor and the screen in video memory.  An EGA  *)
(* scrolls the whole screen by moving its origin through the memory, the   *)
(* older adapters by copying.  Both are given the same characters here.    *)
(* Addresses are counted in characters from the start of video memory.     *)
(***************************************************************************)
EXTENDS Naturals, Sequences, SequencesExt

CONSTANTS Columns, Lines,
          TAB,         \* columns between tab stops (8)
          EGARows,     \* rows of text an EGA's memory holds
          NPAR, Digits, MaxOps

VARIABLES con,         \* the adapter's state and memory, for each video_type
          parser,      \* state, npar and par of con_write
          ops,         \* operations done
          half,        \* con_write has stored a character and not advanced x
          torn         \* the keyboard interrupt called con_write in between

convars == <<con, parser, ops, half, torn>>

VideoTypes == {"EGA", "CGA"}
MemRows(t) == IF t = "EGA" THEN EGARows ELSE Lines
Erased == <<" ", 7>>

con_init(t) ==
    [x |-> 0, y |-> 0, pos |-> 0, origin |-> 0, scr_end |-> Lines * Columns, top |-> 0, bottom |-> Lines,
     attr |-> 7, saved_x |-> 0, saved_y |-> 0, type |-> t, inside |-> TRUE,
     mem |-> [a \in 0 .. MemRows(t) * Columns - 1 |-> Erased]]

Init ==
    /\ con = [t \in VideoTypes |-> con_init(t)]
    /\ parser = [state |-> 0, npar |-> 0, par |-> [i \in 0 .. NPAR - 1 |-> 0]]
    /\ ops = 0 /\ half = FALSE /\ torn = FALSE

------------------------------------------------------------------------------
\* Store f(a) at the addresses of A; whether they are all on the screen is kept.
Store(k, A, f(_)) ==
    [k EXCEPT !.mem = [a \in DOMAIN @ |-> IF a \in A THEN f(a) ELSE @[a]],
              !.inside = @ /\ \A a \in A : k.origin <= a /\ a < k.scr_end]
Erase(k, start, count) == Store(k, start .. start + count - 1, LAMBDA a : Erased)

gotoxy(k, new_x, new_y) ==
    IF new_x < 0 \/ new_x > Columns \/ new_y < 0 \/ new_y >= Lines THEN k
    ELSE [k EXCEPT !.x = new_x, !.y = new_y, !.pos = k.origin + new_y * Columns + new_x]

RowStart(k, r) == k.origin + r * Columns

\* scrup by copying the rows of the scrolling region.
CopyUp(k) ==
    Store(k, RowStart(k, k.top) .. RowStart(k, k.bottom) - 1,
          LAMBDA a : IF a < RowStart(k, k.bottom - 1) THEN k.mem[a + Columns] ELSE Erased)

\* Faulty: the row that comes into view is not erased.
MoveOrigin_dirty(k) == [k EXCEPT !.origin = @ + Columns, !.pos = @ + Columns, !.scr_end = @ + Columns]

\* scrup of the whole screen on an EGA: the origin moves on, and at the end of
\* the memory the screen is copied back to its start.
MoveOrigin(k) ==
    LET m == [k EXCEPT !.origin = @ + Columns, !.pos = @ + Columns, !.scr_end = @ + Columns]
        back == [m EXCEPT !.scr_end = @ - m.origin, !.pos = @ - m.origin, !.origin = 0] IN
    IF m.scr_end > EGARows * Columns
    THEN Store(back, 0 .. Lines * Columns - 1,
               LAMBDA a : IF a < (Lines - 1) * Columns THEN m.mem[m.origin + a] ELSE Erased)
    ELSE Erase(m, m.scr_end - Columns, Columns)

scrup(k) == IF k.type = "EGA" /\ k.top = 0 /\ k.bottom = Lines THEN MoveOrigin(k) ELSE CopyUp(k)

scrdown(k) ==
    Store(k, RowStart(k, k.top) .. RowStart(k, k.bottom) - 1,
          LAMBDA a : IF a >= RowStart(k, k.top + 1) THEN k.mem[a - Columns] ELSE Erased)

\* Faulty: the last line of the region is left without scrolling.
lf_past(k) == IF k.y < k.bottom THEN [k EXCEPT !.y = @ + 1, !.pos = @ + Columns] ELSE scrup(k)

lf(k) == IF k.y + 1 < k.bottom THEN [k EXCEPT !.y = @ + 1, !.pos = @ + Columns] ELSE scrup(k)
ri(k) == IF k.y > k.top THEN [k EXCEPT !.y = @ - 1, !.pos = @ - Columns] ELSE scrdown(k)
cr(k) == [k EXCEPT !.pos = @ - k.x, !.x = 0]
del(k) == IF k.x = 0 THEN k ELSE Erase([k EXCEPT !.pos = @ - 1, !.x = @ - 1], k.pos - 1, 1)

\* A column past the end goes to the next line.
Wrap(k) == lf([k EXCEPT !.x = @ - Columns, !.pos = @ - Columns])
tab(k) == LET c == TAB - (k.x % TAB)
              m == [k EXCEPT !.x = @ + c, !.pos = @ + c] IN
          IF m.x > Columns THEN Wrap(m) ELSE m

csi_J(k, p) == CASE p = 0 -> Erase(k, k.pos, k.scr_end - k.pos)
                 [] p = 1 -> Erase(k, k.origin, k.pos - k.origin)
                 [] p = 2 -> Erase(k, k.origin, Columns * Lines)
                 [] OTHER -> k
csi_K(k, p) == CASE p = 0 -> IF k.x >= Columns THEN k ELSE Erase(k, k.pos, Columns - k.x)
                 [] p = 1 -> Erase(k, k.pos - k.x, k.x)
                 [] p = 2 -> Erase(k, k.pos - k.x, Columns)
                 [] OTHER -> k

\* csi_m takes the parameters in turn.
csi_m(k, par, npar) ==
    FoldLeft(LAMBDA m, i : [m EXCEPT !.attr = CASE par[i] = 0 -> 7 [] par[i] = 1 -> 15 [] OTHER -> @],
             k, [i \in 1 .. npar + 1 |-> i - 1])

LineEnd(k) == k.pos - k.x + Columns - 1
insert_char(k) == Store(k, k.pos .. LineEnd(k), LAMBDA a : IF a = k.pos THEN Erased ELSE k.mem[a - 1])
delete_char(k) == IF k.x >= Columns THEN k
                  ELSE Store(k, k.pos .. LineEnd(k), LAMBDA a : IF a = LineEnd(k) THEN Erased ELSE k.mem[a + 1])

\* insert_line and delete_line scroll from the cursor to the end of the screen.
FromCursor(k, scroll(_)) ==
    [scroll([k EXCEPT !.top = k.y, !.bottom = Lines]) EXCEPT !.top = k.top, !.bottom = k.bottom]
insert_line(k) == FromCursor(k, scrdown)
delete_line(k) == FromCursor(k, scrup)

\* How often csi_at, csi_L, csi_P and csi_M repeat: once for zero, at most limit times.
Times(nr, limit) == [i \in 1 .. (IF nr > limit THEN limit ELSE IF nr = 0 THEN 1 ELSE nr) |-> i]

csi_at(k, nr) == FoldLeft(LAMBDA m, i : insert_char(m), k, Times(nr, Columns))
csi_L(k, nr)  == FoldLeft(LAMBDA m, i : insert_line(m), k, Times(nr, Lines))
csi_P(k, nr)  == FoldLeft(LAMBDA m, i : delete_char(m), k, Times(nr, Columns))
csi_M(k, nr)  == FoldLeft(LAMBDA m, i : delete_line(m), k, Times(nr, Lines))

save_cur(k) == [k EXCEPT !.saved_x = k.x, !.saved_y = k.y]
restore_cur(k) == gotoxy(k, k.saved_x, k.saved_y)

------------------------------------------------------------------------------
OneUp(p) == IF p = 0 THEN 1 ELSE p
Less(p) == IF p > 0 THEN p - 1 ELSE 0

\* gotoxy takes unsigned arguments: a negative one is too large.
Up(a, b) == IF b > a THEN Lines + Columns + 1 ELSE a - b

SetRegion(k, p0, p1) ==
    LET from == Less(p0)
        to == IF p1 = 0 THEN Lines ELSE p1 IN
    IF from < to /\ to <= Lines THEN [k EXCEPT !.top = from, !.bottom = to] ELSE k

\* The characters that end ESC [.
Csi(k, c, par, npar) ==
    LET p0 == par[0]
        p1 == par[1]
        n == OneUp(p0) IN
    CASE c = "G" -> gotoxy(k, Less(p0), k.y)
      [] c = "A" -> gotoxy(k, k.x, Up(k.y, n))
      [] c = "B" -> gotoxy(k, k.x, k.y + n)
      [] c = "C" -> gotoxy(k, k.x + n, k.y)
      [] c = "D" -> gotoxy(k, Up(k.x, n), k.y)
      [] c = "E" -> gotoxy(k, 0, k.y + n)
      [] c = "F" -> gotoxy(k, 0, Up(k.y, n))
      [] c = "d" -> gotoxy(k, k.x, Less(p0))
      [] c = "H" -> gotoxy(k, Less(p1), Less(p0))
      [] c = "J" -> csi_J(k, p0)
      [] c = "K" -> csi_K(k, p0)
      [] c = "L" -> csi_L(k, p0)
      [] c = "M" -> csi_M(k, p0)
      [] c = "P" -> csi_P(k, p0)
      [] c = "@" -> csi_at(k, p0)
      [] c = "m" -> csi_m(k, par, npar)
      [] c = "r" -> SetRegion(k, p0, p1)
      [] c = "s" -> save_cur(k)
      [] c = "u" -> restore_cur(k)
      [] OTHER   -> k
Finals == {"G", "A", "B", "C", "D", "E", "F", "d", "H", "J", "K", "L", "M", "P", "@", "m", "r", "s", "u"}

\* The characters after ESC.  con_write tests x for '7' and '8', so that no
\* character saves or restores the cursor here (x is never that large).
Esc(k, c) == CASE c = "E" -> gotoxy(k, 0, k.y + 1)
               [] c = "M" -> ri(k)
               [] c = "D" -> lf(k)
               [] OTHER   -> k

\* A printing character is stored and pos moved; then x is advanced.
PutChar(k, c) ==
    LET m == IF k.x >= Columns THEN Wrap(k) ELSE k IN
    [Store(m, {m.pos}, LAMBDA a : <<c, m.attr>>) EXCEPT !.pos = @ + 1]

Plain(k, c) == CASE c = "lf"  -> lf(k)
                 [] c = "cr"  -> cr(k)
                 [] c = "del" -> del(k)
                 [] c = "bs"  -> IF k.x = 0 THEN k ELSE [k EXCEPT !.x = @ - 1, !.pos = @ - 1]
                 [] c = "tab" -> tab(k)

Apply(f(_)) == con' = [t \in VideoTypes |-> f(con[t])]
Ready == ~half /\ ~torn
Op == ops < MaxOps /\ ops' = ops + 1

con_write_print(c) ==
    /\ Ready /\ Op /\ parser.state = 0
    /\ Apply(LAMBDA k : PutChar(k, c)) /\ half' = TRUE
    /\ UNCHANGED <<parser, torn>>

con_write_advance ==
    /\ half /\ ~torn /\ half' = FALSE
    /\ Apply(LAMBDA k : [k EXCEPT !.x = @ + 1])
    /\ UNCHANGED <<parser, ops, torn>>

\* The echo of a character, from the keyboard interrupt, calls con_write while a
\* task is in it.
con_write_echo == half /\ ~torn /\ torn' = TRUE /\ UNCHANGED <<con, parser, ops, half>>

con_write_control(c) ==
    /\ Ready /\ Op /\ parser.state = 0
    /\ IF c = "esc" THEN parser' = [parser EXCEPT !.state = 1] /\ UNCHANGED con
       ELSE Apply(LAMBDA k : Plain(k, c)) /\ UNCHANGED parser
    /\ UNCHANGED <<half, torn>>

con_write_esc(c) ==
    /\ Ready /\ parser.state = 1
    /\ IF c = "[" THEN /\ parser' = [state |-> 2, npar |-> 0, par |-> [i \in DOMAIN parser.par |-> 0]]
                       /\ UNCHANGED con
       ELSE parser' = [parser EXCEPT !.state = 0] /\ Apply(LAMBDA k : Esc(k, c))
    /\ UNCHANGED <<ops, half, torn>>

con_write_digit(d) ==
    /\ Ready /\ parser.state \in {2, 3}
    /\ parser.par[parser.npar] = 0     \* bound: one digit
    /\ parser' = [parser EXCEPT !.state = 3, !.par[parser.npar] = 10 * @ + d]
    /\ UNCHANGED <<con, ops, half, torn>>

\* States 2 to 4: parameters, then the operation.
con_write_csi(c) ==
    /\ Ready /\ parser.state \in {2, 3}
    /\ LET n == parser.npar IN
       CASE c = "?" -> parser.state = 2 /\ parser' = [parser EXCEPT !.state = 3] /\ UNCHANGED con
         [] c = ";" /\ n < NPAR - 1 -> parser' = [parser EXCEPT !.state = 3, !.npar = @ + 1] /\ UNCHANGED con
         [] OTHER -> /\ parser' = [state |-> 0, npar |-> 0, par |-> [i \in DOMAIN parser.par |-> 0]]
                     /\ Apply(LAMBDA k : Csi(k, c, parser.par, n))
    /\ UNCHANGED <<ops, half, torn>>

Next ==
    \/ \E c \in {"a"} : con_write_print(c)
    \/ con_write_advance \/ con_write_echo
    \/ \E c \in {"esc", "lf", "cr", "del", "bs", "tab"} : con_write_control(c)
    \/ \E c \in {"[", "E", "M", "D"} : con_write_esc(c)
    \/ \E d \in Digits : con_write_digit(d)
    \/ \E c \in Finals \cup {";", "?"} : con_write_csi(c)

Spec == Init /\ [][Next]_convars
------------------------------------------------------------------------------
Visible(k) == [r \in 0 .. Lines - 1 |-> [c \in 0 .. Columns - 1 |-> k.mem[RowStart(k, r) + c]]]

\* pos is the address of column x and line y of the screen, the screen is inside
\* the video memory, and nothing is ever stored outside the screen, whatever the
\* order of cursor movements, regions and scrolling; and an EGA's screen, whose
\* origin moves, shows at all times what one that copies shows.
ScreenSound ==
    /\ \A t \in VideoTypes : LET k == con[t] IN
          /\ Ready => k.pos = RowStart(k, k.y) + k.x
          /\ k.x <= Columns /\ k.y < Lines /\ k.top < k.bottom /\ k.bottom <= Lines
          /\ k.scr_end = k.origin + Lines * Columns /\ k.scr_end <= MemRows(t) * Columns
          /\ k.inside
    /\ Visible(con["EGA"]) = Visible(con["CGA"])
    /\ con["EGA"].x = con["CGA"].x /\ con["EGA"].y = con["CGA"].y
==============================================================================
