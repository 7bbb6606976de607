--------------------------------- MODULE Trace ---------------------------------
(***************************************************************************)
(* The pixels of a trace: the loop of gui_dtwave that joins the samples of *)
(* a channel, gui_drawline, gui_drawgrid.  Plot says which samples come to *)
(* be drawn; here it is where.  The samples are chosen as the loop reaches *)
(* them.  Divisions are those of rational numbers: the code's floats have  *)
(* 24 bits for numbers below 2^19.                                         *)
(***************************************************************************)
EXTENDS Integers

CONSTANTS
  Pad,           \* GUI_PLOT_PAD
  SubDivLen,     \* GUI_PLOT_SUBDIVLEN
  TDivs, VDivs,  \* GUI_PLOT_TDIVC, GUI_PLOT_VDIVC
  Half,          \* 128: samples are -Half .. Half - 1, char being signed
  MaxSamples     \* bound: samples of a trace

ASSUME TraceAssumption ==
  /\ Pad \in Nat /\ SubDivLen \in Nat \ {0}
  /\ TDivs \in Nat \ {0, 1} /\ VDivs \in Nat \ {0, 1}
  /\ Half \in Nat \ {0} /\ MaxSamples \in Nat

VARIABLES
  c,      \* number of samples
  i,      \* the loop's i
  here,   \* gui->data[i]
  next,   \* gui->data[i + 1]
  last    \* the pixels of segment i - 1

traceVars == <<c, i, here, next, last>>

Samples == -Half .. Half - 1

DivLen == 5 * SubDivLen

Width == DivLen * TDivs

Height == DivLen * VDivs

\* The image leaves a border on all sides (GUI_TSCRNW, GUI_TSCRNH).
Image == (0 .. Width + 2 * Pad) \X (0 .. Height + 2 * Pad)

\* round(a / b), b > 0: halves go away from zero.
Round(a, b) ==
  IF a >= 0 THEN (2 * a + b) \div (2 * b) ELSE -((b - 2 * a) \div (2 * b))

(***************************************************************************)
(* gui_drawline                                                            *)
(***************************************************************************)
VerticalBar(x, y1, y2) ==
  CASE y2 > y1 -> {<<x, y1 + k>> : k \in 0 .. y2 - y1 - 1}
    [] y1 > y2 -> {<<x, y2 + k>> : k \in 0 .. y1 - y2 - 1}
    [] OTHER -> {<<x, y1>>}

HorizontalBar(x1, y, x2) == {<<x1 + k, y>> : k \in 0 .. x2 - x1 - 1}

\* Mutation of Oblique: always one pixel per column.
ObliqueFlat(x1, y1, x2, y2) ==
  {<<x1 + k, y1 + Round((y2 - y1) * k, x2 - x1)>> : k \in 0 .. x2 - x1}

\* Mutation of Oblique: a steep descending line begins at its upper end and
\* goes on as if it were ascending.
ObliqueTurned(x1, y1, x2, y2) ==
  LET dx == x2 - x1
      dy == y2 - y1
  IN CASE dy > dx -> {<<x1 + Round(dx * k, dy), y1 + k>> : k \in 0 .. dy}
       [] dy < -dx -> {<<x1 + Round(dx * k, -dy), y2 + k>> : k \in 0 .. -dy}
       [] OTHER -> {<<x1 + k, y1 + Round(dy * k, dx)>> : k \in 0 .. dx}

\* A pixel per row if the line is steep, from the lower y on; else a pixel per
\* column.
Oblique(x1, y1, x2, y2) ==
  LET dx == x2 - x1
      dy == y2 - y1
  IN CASE dy > dx -> {<<x1 + Round(dx * k, dy), y1 + k>> : k \in 0 .. dy}
       [] dy < -dx -> {<<x2 + Round(-dx * k, -dy), y2 + k>> : k \in 0 .. -dy}
       [] OTHER -> {<<x1 + k, y1 + Round(dy * k, dx)>> : k \in 0 .. dx}

Drawline(x1, y1, x2, y2) ==
  CASE x1 = x2 -> VerticalBar(x1, y1, y2)
    [] x1 # x2 /\ y1 = y2 -> HorizontalBar(x1, y1, x2)
    [] OTHER -> Oblique(x1, y1, x2, y2)

(***************************************************************************)
(* The loop of gui_dtwave                                                  *)
(***************************************************************************)
X(n) == Pad + Round(n * Width, c - 1)

\* Mutation of Y: char is unsigned, and negative samples are large ones.
YUnsigned(s) ==
  LET u == IF s < 0 THEN s + 2 * Half ELSE s
  IN Pad + Height - Round((u + Half) * Height, 2 * Half - 1)

\* The lowest sample is at the bottom of the grid, the highest at its top.
Y(s) == Pad + Height - Round((s + Half) * Height, 2 * Half - 1)

\* Segment n, from sample s to sample t.
Segment(n, s, t) == Drawline(X(n), Y(s), X(n + 1), Y(t))

Idle ==
  /\ c = 0 /\ i = 0 /\ last = {}
  /\ here = -Half /\ next = -Half

\* The answer is complete; with fewer than two samples nothing is drawn.
Start ==
  /\ c = 0
  /\ c' \in 2 .. MaxSamples
  /\ here' \in Samples /\ next' \in Samples
  /\ UNCHANGED <<i, last>>

DrawSegment ==
  /\ i + 1 < c - 1
  /\ last' = Segment(i, here, next)
  /\ i' = i + 1
  /\ here' = next
  /\ next' \in Samples
  /\ UNCHANGED c

Draw == Start \/ DrawSegment

(***************************************************************************)
(* gui_drawgrid                                                            *)
(***************************************************************************)
Frame ==
  {<<Pad + k, Pad>> : k \in 0 .. Width - 1} \cup {<<Pad + k, Pad + Height>> : k \in 1 .. Width}
    \cup {<<Pad, Pad + k>> : k \in 1 .. Height} \cup {<<Pad + Width, Pad + k>> : k \in 0 .. Height - 1}

\* Dots on the lines between the divisions.
Bars ==
  {<<Pad + DivLen * d, Pad + SubDivLen * k>> : d \in 1 .. TDivs - 1, k \in 1 .. 5 * VDivs - 1}
    \cup {<<Pad + SubDivLen * k, Pad + DivLen * d>> : k \in 1 .. 5 * TDivs - 1, d \in 1 .. VDivs - 1}

\* Dashes where these cross the two axes.
Dashes ==
  {<<Pad + DivLen * (TDivs \div 2) + k, Pad + DivLen * d>> : k \in {-2, -1, 1, 2}, d \in 1 .. VDivs - 1}
    \cup {<<Pad + DivLen * d, Pad + DivLen * (VDivs \div 2) + k>> : d \in 1 .. TDivs - 1, k \in {-2, -1, 1, 2}}

Grid == Frame \cup Bars \cup Dashes

(***************************************************************************)
(* Properties                                                              *)
(***************************************************************************)
Distance(a, b) == IF a >= b THEN a - b ELSE b - a

Touch(p, q) == Distance(p[1], q[1]) <= 1 /\ Distance(p[2], q[2]) <= 1

Far(p, q) == Distance(p[1], q[1]) + Distance(p[2], q[2])

\* From every pixel one comes to the same pixel p, from each one to one that
\* touches it and is nearer to p.
OnePiece(pixels) ==
  \E p \in pixels :
    \A q \in pixels \ {p} : \E r \in pixels : Touch(q, r) /\ Far(p, r) < Far(p, q)

Now == Segment(i, here, next)

Drawing == c > 0

\* gdk_image_put_pixel (gui.c 1739-1911) gets no pixel outside the image.
InImage ==
  /\ Grid \subseteq Image
  /\ Drawing => Now \subseteq Image

\* The trace has no gaps although bars leave out one of their ends, and the
\* descending ones the end where the line before them stops: every segment is
\* of one piece, hangs together with the one before, and passes next to both
\* its samples.
Unbroken ==
  Drawing =>
    /\ OnePiece(Now)
    /\ i > 0 => \E p \in last, q \in Now : Touch(p, q)
    /\ \E p \in Now : Touch(p, <<X(i), Y(here)>>)
    /\ \E p \in Now : Touch(p, <<X(i + 1), Y(next)>>)

\* Reference definition of a line: its pixels lie between its ends, and along
\* the shorter axis at most half a pixel from the ideal line.
OnTheLine ==
  LET x1 == X(i)  x2 == X(i + 1)  y1 == Y(here)  y2 == Y(next)
      dx == x2 - x1
      dy == y2 - y1
      longer == IF Distance(y1, y2) > dx THEN Distance(y1, y2) ELSE dx
  IN Drawing =>
       \A p \in Now :
         /\ x1 <= p[1] /\ p[1] <= x2
         /\ (y1 <= p[2] /\ p[2] <= y2) \/ (y2 <= p[2] /\ p[2] <= y1)
         /\ 2 * Distance(dx * (p[2] - y1), dy * (p[1] - x1)) <= longer
================================================================================
