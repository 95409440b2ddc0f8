------------------------------- MODULE Panel -------------------------------
(***************************************************************************)
(* Monochrome panels of HD2020 controllers: the packed bitmap, the text    *)
(* drawn into it and the payload it travels in.                            *)
(* crates/huidu-proto/src/hd2020/{bitmap,font,mod}.rs.                     *)
(*                                                                         *)
(* A byte holds as many pixels as it has bits.                             *)
(***************************************************************************)
EXTENDS WireBytes

CONSTANTS Bits,         \* bits of a byte
          I31,          \* how many values of an i32 are negative
          CELL_WIDTH,   \* columns of a glyph
          CELL_HEIGHT,  \* and its rows
          Glyphs,       \* the embedded font: the rows of each character that has a glyph
          MissingGlyph, \* the rows of any other
          RealtimeText  \* Hd2020Cmd::RealtimeText

\* The value of a bit, from the lowest.
BitValue == Powers(2)

\* A u16 is never negative as an i32.
ASSUME PanelAssumption == /\ Bits \in Nat \ {0} /\ B = BitValue[Bits]
                          /\ I31 \in Nat /\ Power[N16] <= I31
                          /\ {CELL_WIDTH, CELL_HEIGHT} \subseteq Nat \ {0}
                          /\ RealtimeText \in NativeCodes

\* Names that begin with Slip are mistakes this code could have made: the next
\* definition with a slip in its place breaks a property.  No action uses one.

SlipIntoPadding(bmp, x, y) == x >= 0 /\ y >= 0 /\ x < bmp.stride * Bits /\ y < bmp.height

\* Bytes of a row.
StrideFor(width) == (width + Bits - 1) \div Bits

\* MonoBitmap::new.
NewBitmap(width, height) ==
  [width |-> width, height |-> height, stride |-> StrideFor(width),
   bits |-> [i \in 1..(StrideFor(width) * height) |-> 0]]

\* Where a pixel is: its byte, and its bit, the leftmost of which is the highest.
ByteAt(stride, x, y) == y * stride + x \div Bits + 1
Mask(x) == BitValue[Bits - 1 - (x % Bits)]
Lit(bits, stride, x, y) == (bits[ByteAt(stride, x, y)] \div Mask(x)) % 2 = 1

\* A pixel off the panel is dropped, on every side.
OnPanel(bmp, x, y) == x >= 0 /\ y >= 0 /\ x < bmp.width /\ y < bmp.height

\* MonoBitmap::set.
SetPixel(bmp, x, y) ==
  IF ~OnPanel(bmp, x, y) \/ Lit(bmp.bits, bmp.stride, x, y) THEN bmp
  ELSE [bmp EXCEPT !.bits[ByteAt(bmp.stride, x, y)] = @ + Mask(x)]

GlyphRows(ch) == IF ch \in DOMAIN Glyphs THEN Glyphs[ch] ELSE MissingGlyph

\* The lit cells of a glyph: column and row.
Ink(ch) == {cell \in (0..(CELL_WIDTH - 1)) \X (0..(CELL_HEIGHT - 1)) :
              (GlyphRows(ch)[cell[2] + 1] \div BitValue[CELL_WIDTH - 1 - cell[1]]) % 2 = 1}

\* Row by row, and each row from the left.
Cell(k) == <<(k - 1) % CELL_WIDTH, (k - 1) \div CELL_WIDTH>>

BlitChar(bmp, ch, ox, oy) ==
  LET blit[k \in 0..(CELL_WIDTH * CELL_HEIGHT)] ==
        IF k = 0 THEN bmp
        ELSE IF Cell(k) \in Ink(ch)
             THEN SetPixel(blit[k - 1], ox + Cell(k)[1], oy + Cell(k)[2])
             ELSE blit[k - 1]
  IN blit[CELL_WIDTH * CELL_HEIGHT]

\* TextLayout; no y_offset is Centred.
Centred == -1
TextLayout(spacing, x, y) == [letter_spacing |-> spacing, x_offset |-> x, y_offset |-> y]

Advance(layout) == CELL_WIDTH + layout.letter_spacing

Measure(text, layout) ==
  IF text = <<>> THEN layout.x_offset
  ELSE layout.x_offset + Len(text) * CELL_WIDTH + (Len(text) - 1) * layout.letter_spacing

\* as i32, and division that rounds towards zero.
AsI32(n) == ((n + I31) % (2 * I31)) - I31
Half(n)  == IF n >= 0 THEN n \div 2 ELSE -((-n) \div 2)

\* The row that text is drawn at.
TopRow(height, layout) ==
  IF layout.y_offset = Centred THEN Half(AsI32(height) - CELL_HEIGHT) ELSE AsI32(layout.y_offset)

\* The column of the next character wraps as it does in a release build.
Draw(drawn, ch, oy, layout) == [bmp |-> BlitChar(drawn.bmp, ch, drawn.ox, oy),
                                ox |-> AsI32(drawn.ox + Advance(layout))]
Render(text, width, height, layout) ==
  LET drawn[k \in 0..Len(text)] ==
        IF k = 0 THEN [bmp |-> NewBitmap(width, height), ox |-> AsI32(layout.x_offset)]
        ELSE Draw(drawn[k - 1], text[k], TopRow(height, layout), layout)
  IN drawn[Len(text)].bmp

\* to_payload.
PanelFits(width, height) == width < Power[N16] /\ height < Power[N16]
ToPayload(bmp) == Le(bmp.width, N16) \o Le(bmp.height, N16) \o bmp.bits
=============================================================================
