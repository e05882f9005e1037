-------------------------------- MODULE ModeX --------------------------------
(***************************************************************************)
(* The drawing of src/mp2/modex.c: a build buffer that holds the four      *)
(* planes of a picture of the maze, and a logical view window that moves   *)
(* over the maze and, with it, through the buffer.  A window is a record:  *)
(* the bytes of the buffer with its two fences, img3_off and the upper     *)
(* left pixel (show_x, show_y).  A byte of an image is the pixel of the    *)
(* block it comes from; a drawing is a function from pixels of the maze to *)
(* bytes.  The two pages of video memory are one: what is displayed.       *)
(***************************************************************************)
EXTENDS MazeView

CONSTANTS ExtraBytes,        \* the bytes of the buffer beyond a screen: 20000
          MEM_FENCE_WIDTH, MEM_FENCE_MAGIC,
          Zero               \* what the buffer holds at first

ASSUME BufferAssumption == ExtraBytes \in Nat /\ MEM_FENCE_WIDTH \in Nat

(* SCROLL_Y_DIM is a macro, IMAGE_Y_DIM - 17, without parentheses: a       *)
(* product or a difference it ends takes IMAGE_Y_DIM first.                *)
SCROLL_X_WIDTH == IMAGE_X_DIM \div 4
SCROLL_SIZE == SCROLL_X_WIDTH * IMAGE_Y_DIM - BarHeight
SCREEN_SIZE == SCROLL_SIZE * 4 + 1
BUILD_BUF_SIZE == SCREEN_SIZE + ExtraBytes
BUILD_BASE_INIT == (BUILD_BUF_SIZE - SCREEN_SIZE) \div 2

Build == 0 .. BUILD_BUF_SIZE + 2 * MEM_FENCE_WIDTH - 1
Fences == {a \in Build : a < MEM_FENCE_WIDTH \/ a >= BUILD_BUF_SIZE + MEM_FENCE_WIDTH}

(* set_mode_X *)
FirstWindow ==
    [build |-> [a \in Build |-> IF a \in Fences THEN MEM_FENCE_MAGIC ELSE Zero],
     off |-> BUILD_BASE_INIT, x |-> 0, y |-> 0]

(* clear_mode_X looks at every byte of both. *)
FencesWhole(w) == \A a \in Fences : w.build[a] = MEM_FENCE_MAGIC

(* The byte of the buffer that holds a pixel of the maze: planes 3, 2, 1,  *)
(* 0 one after the other.                                                  *)
Img3(w) == w.off + MEM_FENCE_WIDTH
Addr(w, p) == Img3(w) + p[1] \div 4 + p[2] * SCROLL_X_WIDTH + (3 - (p[1] % 4)) * SCROLL_SIZE
At(w, p) == w.build[Addr(w, p)]

Paint(w, drawing) ==
    LET addr == [p \in DOMAIN drawing |-> Addr(w, p)]
    IN  [w EXCEPT !.build = [a \in Build |->
            IF \E p \in DOMAIN drawing : addr[p] = a
            THEN drawing[CHOOSE p \in DOMAIN drawing : addr[p] = a]
            ELSE @[a]]]

Rectangle(x, y, width, height) == (x .. x + width - 1) \X (y .. y + height - 1)
Window(w) == Rectangle(w.x, w.y, SCROLL_X_DIM, SCROLL_Y_DIM)

(* The pixels of an image at (x, y) that its mask draws and the window shows *)
Visible(w, x, y, mask) == {<<x + d[1], y + d[2]>> : d \in mask} \cap Window(w)

----------------------------------------------------------------------------
(* set_view_window *)

(* Bytes from up to the last byte of the window in the buffer *)
Fits(w, x, y) ==
    /\ w.off + x \div 4 + y * SCROLL_X_WIDTH >= 0
    /\ w.off + 3 * SCROLL_SIZE + (x + SCROLL_X_DIM - 1) \div 4
         + (y + SCROLL_Y_DIM - 1) * SCROLL_X_WIDTH < BUILD_BUF_SIZE

Apart(w, x, y) ==
    \/ x <= w.x - SCROLL_X_DIM \/ x >= w.x + SCROLL_X_DIM
    \/ y <= w.y - IMAGE_Y_DIM - BarHeight \/ y >= w.y + SCROLL_Y_DIM

Larger(a, b) == IF a > b THEN a ELSE b
Smaller(a, b) == IF a > b THEN b ELSE a

(* The bytes to keep, from the first to the last pixel both windows show:  *)
(* an offset from the start of plane 3 and a length, over all four planes. *)
CopyStart(w, x, y) == Larger(x, w.x) \div 4 + Larger(y, w.y) * SCROLL_X_WIDTH

CopyLength(w, x, y) ==
    (Smaller(x, w.x) + SCROLL_X_DIM - 1) \div 4
        + (Smaller(y, w.y) + SCROLL_Y_DIM - 1) * SCROLL_X_WIDTH + 1 - CopyStart(w, x, y)
        + 3 * SCROLL_SIZE

\* Mistake: the window is put at the end of the buffer, not in its middle.
Recentred_End(x, y) == ExtraBytes + 1 - x \div 4 - y * SCROLL_X_WIDTH

Recentred(x, y) == BUILD_BASE_INIT - x \div 4 - y * SCROLL_X_WIDTH

(* The direction of the copy reads every byte before it is overwritten. *)
SetViewWindow(w, x, y) ==
    LET moved == [w EXCEPT !.x = x, !.y = y]
        recentred == [moved EXCEPT !.off = Recentred(x, y)]
        start == Img3(w) + CopyStart(w, x, y)
        target == Img3(recentred) + CopyStart(w, x, y)
    IN  IF Fits(w, x, y) THEN moved
        ELSE IF Apart(w, x, y) THEN recentred
        ELSE [recentred EXCEPT !.build = [a \in Build |->
                IF a \in target .. target + CopyLength(w, x, y) - 1
                THEN @[a - target + start]
                ELSE @[a]]]

----------------------------------------------------------------------------
(* Drawing into the buffer *)

Block == (0 .. BLOCK_X_DIM - 1) \X (0 .. BLOCK_Y_DIM - 1)
BlockPixel(blk, x, y) == <<blk, x, y>>

(* What draw_masked_block leaves in buf, for the pixels it draws *)
Covered(w, x, y, mask) == [p \in Visible(w, x, y, mask) |-> At(w, p)]

DrawMaskedBlock(w, x, y, blk, mask) ==
    Paint(w, [p \in Visible(w, x, y, mask) |-> BlockPixel(blk, p[1] - x, p[2] - y)])

UndrawMaskedBlock(w, x, y, mask, buf) ==
    Paint(w, [p \in Visible(w, x, y, mask) |-> buf[p]])

(* Half white over whatever is there; which palette entry holds the mixed  *)
(* colour is left out.                                                     *)
DrawFloatText(w, x, y, text) ==
    Paint(w, [p \in Visible(w, x, y, text) |-> <<"text", At(w, p)>>])

UndrawFloatText(w, x, y, text, buf) ==
    Paint(w, [p \in Visible(w, x, y, text) |-> buf[p]])

(* A column or a row of the window; line is the picture vert_line_fn or    *)
(* horiz_line_fn gives.  The callers ask for none outside the window.      *)
DrawVertLine(w, x, line) ==
    Paint(w, [p \in {x + w.x} \X (w.y .. w.y + SCROLL_Y_DIM - 1) |-> line[p[2] - w.y]])

DrawHorizLine(w, y, line) ==
    Paint(w, [p \in (w.x .. w.x + SCROLL_X_DIM - 1) \X {y + w.y} |-> line[p[1] - w.x]])

----------------------------------------------------------------------------
(* show_screen: plane i of the display, which shows columns i, i + 4, ...  *)
(* of the screen, from the plane of the buffer that holds those columns.   *)
Screen == (0 .. SCROLL_X_DIM - 1) \X (0 .. SCROLL_Y_DIM - 1)

\* Mistake: the planes that start a column later are not moved on.
PlaneStart_Same(w, i) ==
    Img3(w) + w.x \div 4 + w.y * SCROLL_X_WIDTH
        + ((3 - (w.x % 4) - i + 4) % 4) * SCROLL_SIZE

PlaneStart(w, i) ==
    LET p_off == 3 - (w.x % 4)
    IN  Img3(w) + w.x \div 4 + w.y * SCROLL_X_WIDTH
            + ((p_off - i + 4) % 4) * SCROLL_SIZE + (IF p_off < i THEN 1 ELSE 0)

(* copy_image: byte a of what it copies of plane i, of which the split     *)
(* screen displays as many lines as the window has.                        *)
CopyImage(w, i, a) == w.build[PlaneStart(w, i) + a]

ShowScreen(w) ==
    [s \in Screen |-> CopyImage(w, s[1] % 4, s[1] \div 4 + s[2] * SCROLL_X_WIDTH)]
=============================================================================
