----------------------------- MODULE ChromiumRec -----------------------------
(***************************************************************************)
(* What Chromium's Skia would ask DirectWrite for on Windows, decided from *)
(* a scaler record and the font's tables: the filter over the record       *)
(* (src/chromium/render_params.cpp), the matrices and the tree of          *)
(* SkScalerContext_DW (windows_path.cpp), and what is read of the font     *)
(* (font_facts.cpp).                                                       *)
(*                                                                         *)
(* Sizes are in 128ths of a pixel.  post, the matrix <<xx, xy, yx, yy>>    *)
(* after the size, is in fifths, so that the turns of the 3-4-5 triangle   *)
(* are exact; the scale and skew before it are whole numbers.  flags is    *)
(* the set of the record's flags but for its hinting.                      *)
(***************************************************************************)
EXTENDS Integers, Sequences, FiniteSets
LOCAL INSTANCE SequencesExt
LOCAL INSTANCE FiniteSetsExt

CONSTANTS kAvar2Milestone,   \* the Chromium that first prefers Fontations for an avar of two
          kBaseInstall       \* the families Windows ships

----------------------------------------------------------------------------
(* The filter *)

Pixel == 128
One == 5
IdentityPost == <<One, 0, 0, One>>
kCanonicalTextSizeForPaths == 64 * Pixel
kMaxSizeForLcd == 48 * Pixel

Abs(n) == IF n < 0 THEN -n ELSE n
Det(m) == m[1] * m[4] - m[2] * m[3]

\* the area under a matrix is compared without multiplying by the size twice
TooBigForLcd(rec) ==
    IF rec.post = IdentityPost THEN rec.size > kMaxSizeForLcd
    ELSE Det(rec.post) > (One * One * kMaxSizeForLcd * kMaxSizeForLcd) \div (rec.size * rec.size)

\* the strike Skia scales its paths from
FromPaths(rec, before) ==
    rec.size = kCanonicalTextSizeForPaths /\ before.hinting = "none" /\ "bitmaps" \notin before.flags

\* before is what the record held when the filter was entered; plain, that Windows draws the
\* typeface through Fontations too
ApplyWindowsParams(rec, before, plain) ==
    LET refused == "genA8" \in before.flags
        paths == FromPaths(rec, before)
        open == rec.mask = "A8" /\ ~refused /\ ~paths
        lcd == open /\ ~TooBigForLcd(rec)
        averaged == ~plain /\ (refused \/ (open /\ ~lcd))
    IN  [rec EXCEPT !.mask = IF lcd THEN "LCD16" ELSE @,
                    !.hinting = IF plain /\ ~paths THEN "normal" ELSE "none",
                    !.flags = (@ \cup {"subpixel"} \cup (IF averaged THEN {"genA8"} ELSE {}))
                              \ ({"linear", "autohint"} \cup (IF plain THEN {} ELSE {"bitmaps"})
                                 \cup (IF lcd THEN {"bgr", "vertical", "genA8"} ELSE {})),
                    !.gamma = "sRGB",
                    !.contrast = IF @ = 0 THEN 0 ELSE 255,
                    !.as_paths = paths]

\* what Blink is answered in place of the render parameters of this device
ChromiumFontRenderParams ==
    [antialiasing |-> TRUE, subpixel_positioning |-> TRUE, autohinter |-> FALSE, use_bitmaps |-> FALSE,
     hinting |-> "medium", subpixel_rendering |-> "RGB"]
ChromiumQuery == [ChromiumFontRenderParams EXCEPT !.subpixel_positioning = FALSE]

----------------------------------------------------------------------------
(* The matrices.  A size over a scale is kept as the pair of them. *)

\* a bit at a time; 46340 is the root of the largest number
kBits == << 32768, 16384, 8192, 4096, 2048, 1024, 512, 256, 128, 64, 32, 16, 8, 4, 2, 1 >>
Root(n) == FoldLeft(LAMBDA r, b : IF r + b <= 46340 /\ (r + b) * (r + b) <= n THEN r + b ELSE r, 0, kBits)

\* post times the size, the skew and the scale before it
TotalMatrix(rec) ==
    LET lx == rec.size * rec.scale
        lkx == rec.size * rec.skew
        p == rec.post
    IN  << p[1] * lx, p[1] * lkx + p[2] * rec.size, p[3] * lx, p[3] * lkx + p[4] * rec.size >>

\* The turn that lays the first column on the axis leaves its length, and the area over it.
\* Nearly zero is zero at this grain.  remaining is in units of scale_y.
ComputeMatrices(rec) ==
    LET a == TotalMatrix(rec)
        turned == a[2] # 0 \/ a[3] # 0 \/ a[1] < 0 \/ a[4] < 0
        across == IF turned THEN Root(a[1] * a[1] + a[3] * a[3]) ELSE a[1]
        down == IF across = 0 THEN 0 ELSE IF turned THEN Abs(Det(a)) \div across ELSE a[4]
    IN  IF across = 0 \/ down = 0
        THEN [ok |-> FALSE, scale_y |-> Pixel, remaining |-> <<0, 0, 0, 0>>]
        ELSE [ok |-> TRUE, scale_y |-> down \div One, remaining |-> a]

DeviceScaleY(rec) == ComputeMatrices(rec).scale_y
WithoutSkew(rec) == [rec EXCEPT !.skew = 0]

IsAxisAligned(rec) ==
    rec.skew = 0 /\ ((rec.post[2] = 0 /\ rec.post[3] = 0) \/ (rec.post[1] = 0 /\ rec.post[4] = 0))

WithWindowsHinting(rec) == IF rec.as_paths THEN rec ELSE [rec EXCEPT !.hinting = "normal"]

----------------------------------------------------------------------------
(* The tree *)

\* to the nearest 64th of a pixel
ToGdi(size) == 2 * ((size + 1) \div 2)
GdiTextSize(size) == IF ToGdi(size) = 0 THEN Pixel ELSE ToGdi(size)
GaspPpem(size) == (ToGdi(size) + Pixel \div 2) \div Pixel
BitmapPpem(size) == ToGdi(size) \div Pixel

Modes(rendering, measuring, texture, render, measure, branch) ==
    [rendering |-> rendering, measuring |-> measuring, texture |-> texture, render |-> render,
     measure |-> measure, branch |-> branch]

Branch(rec, size, facts) ==
    LET gdi == GdiTextSize(size)
        strike == ~facts.blocks_embedded_bitmaps /\ facts.has_bitmap_strike
        v1 == facts.gasp_known /\ facts.gasp_version_1_or_later
        smoothed == IF facts.gasp_symmetric_smoothing THEN "NATURAL_SYMMETRIC" ELSE "NATURAL"
    IN  IF rec.mask = "BW" THEN Modes("ALIASED", "GDI_CLASSIC", "1x1", gdi, gdi, "bw")
        ELSE IF strike /\ IsAxisAligned(rec)
        THEN Modes("GDI_CLASSIC", "GDI_CLASSIC", "3x1", gdi, gdi, "bitmap-axis-aligned")
        ELSE IF strike THEN Modes("NATURAL_SYMMETRIC", "GDI_CLASSIC", "3x1", gdi, gdi, "bitmap-rotated")
        ELSE IF v1 THEN Modes(smoothed, "NATURAL", "3x1", size, size, "gasp-v1")
        ELSE IF size > 20 * Pixel \/ ~facts.is_hinted
        THEN Modes("NATURAL_SYMMETRIC", "NATURAL", "3x1", size, size, "large-or-unhinted")
        ELSE Modes("NATURAL", "NATURAL", "3x1", gdi, size, "hinted-small")

Decide(rec, size, facts) ==
    LET branch == Branch(rec, size, facts)
        gray == rec.mask = "A8" /\ "genA8" \notin rec.flags
        unhinted == rec.hinting = "none"
        linear == "linear" \in rec.flags
    IN  [ rendering |-> IF unhinted /\ branch.rendering # "ALIASED" THEN "NATURAL_SYMMETRIC" ELSE branch.rendering,
          measuring |-> IF linear \/ facts.has_cbdt THEN "NATURAL" ELSE branch.measuring,
          texture |-> IF gray THEN "1x1" ELSE branch.texture,
          antialias |-> IF gray THEN "GRAYSCALE" ELSE "CLEARTYPE",
          grid_fit |-> IF unhinted THEN "DISABLED" ELSE "ENABLED",
          render |-> branch.render,
          measure |-> IF linear THEN size ELSE branch.measure,
          branch |-> branch.branch ]

----------------------------------------------------------------------------
(* The font: whether it is a collection, and the directories of its faces. *)
(* An entry of a directory is a tag, whether it lies within the file, and  *)
(* its table.                                                              *)

NoTable == [size |-> 0]
NoDirectory == <<>>

DirectoryAt(font, face_index) ==
    IF font.collection
    THEN IF face_index \in 0 .. Len(font.faces) - 1 /\ font.listed THEN font.faces[face_index + 1] ELSE NoDirectory
    ELSE IF face_index = 0 /\ font.faces # <<>> THEN font.faces[1] ELSE NoDirectory

\* the first entry of the tag decides, within the file or not
FindTable(font, tag, face_index) ==
    LET directory == DirectoryAt(font, face_index)
        first == SelectInSeq(directory, LAMBDA e : e.tag = tag)
    IN  IF first # 0 /\ directory[first].inside THEN directory[first].table ELSE NoTable

HasTable(font, tag, face_index) == FindTable(font, tag, face_index) # NoTable

IsHinted(font, face_index) ==
    LET maxp == FindTable(font, "maxp", face_index)
    IN  maxp.size >= 28 /\ maxp.version = 1 /\ maxp.instructions # 0

kMostRows == 1024

\* the one range the size falls in, or none
GaspRangeFor(font, ppem, face_index) ==
    LET gasp == FindTable(font, "gasp", face_index)
        sound == gasp.size >= 4 /\ gasp.version \in {0, 1} /\ Len(gasp.rows) <= kMostRows /\ gasp.whole
        first == IF sound THEN SelectInSeq(gasp.rows, LAMBDA r : ppem <= r.max) ELSE 0
    IN  IF first = 0 THEN {}
        ELSE {[ min |-> IF first = 1 THEN 0 ELSE gasp.rows[first - 1].max + 1, max |-> gasp.rows[first].max,
                version |-> gasp.version, flags |-> gasp.rows[first].flags ]}

kGaspGridfit == 1
kGaspSymmetricSmoothing == 8
IsGridfitOnly(flags) == flags = kGaspGridfit
SymmetricSmoothing(flags) == (flags \div kGaspSymmetricSmoothing) % 2 = 1

\* an EBLC of the second version with a square strike in the range, of four glyphs at least
HasBitmapStrike(font, range, face_index) ==
    LET eblc == FindTable(font, "EBLC", face_index)
    IN  /\ eblc.size >= 8
        /\ eblc.second /\ Len(eblc.strikes) <= kMostRows /\ eblc.whole
        /\ \E i \in DOMAIN eblc.strikes :
               LET s == eblc.strikes[i]
               IN  s.x = s.y /\ s.x \in range.min .. range.max /\ s.last >= s.first + 3

\* A record of the name table: its platform, encoding and name, whether it lies within the table,
\* whether its length is even, and its text as it is read a byte to a letter, empty for none, and
\* as it is read in UTF-16, "?" for a letter outside ASCII.
kNoName == ""
Names(font, face_index) ==
    LET name == FindTable(font, "name", face_index) IN IF name.size >= 6 THEN name.records ELSE <<>>

FamilyName(font, face_index) ==
    LET records == IF HasTable(font, "name", face_index) /\ FindTable(font, "name", face_index).whole
                   THEN Names(font, face_index) ELSE <<>>
        i == SelectInSeq(records, LAMBDA r : r.id = 1 /\ r.inside /\ r.text # kNoName)
    IN  IF i = 0 THEN kNoName ELSE records[i].text

\* what the table is cut off at ends the list, and a letter that is not ASCII ends the search
WindowsFamilyName(font, face_index) ==
    LET records == Names(font, face_index)
        i == SelectInSeq(records, LAMBDA r : r.platform = 3 /\ r.encoding = 1 /\ r.id = 1 /\ r.inside /\ r.even)
    IN  IF i = 0 \/ ~records[i].ascii THEN kNoName ELSE records[i].text

BlocksEmbeddedBitmaps(font, face_index) == FamilyName(font, face_index) \in {"Calibri", "Courier New"}
HasCbdt(font, face_index) == HasTable(font, "CBDT", face_index)
HasEbdt(font, face_index) == HasTable(font, "EBDT", face_index)

\* a version that was not read counts as a late one
HasAvar2Rule(milestone) == milestone = 0 \/ milestone >= kAvar2Milestone

Versioned(font, tag, face_index, version) ==
    LET table == FindTable(font, tag, face_index) IN table.size >= 2 /\ table.version >= version

FontationsPreferred(font, milestone, face_index) ==
    /\ ~font.empty
    /\ \/ Versioned(font, "avar", face_index, 2) /\ HasAvar2Rule(milestone)
       \/ HasTable(font, "CFF2", face_index)
       \/ HasCbdt(font, face_index)
       \/ Versioned(font, "COLR", face_index, 1) /\ WindowsFamilyName(font, face_index) \notin kBaseInstall

NoFacts == [is_hinted |-> FALSE, has_cbdt |-> FALSE, blocks_embedded_bitmaps |-> FALSE, gasp_known |-> FALSE,
            gasp_version_1_or_later |-> FALSE, gasp_symmetric_smoothing |-> FALSE, gasp_gridfit_only |-> FALSE,
            has_bitmap_strike |-> FALSE]

\* Two sizes: what the gasp table says of the rounded one, and the strike of the truncated one, or
\* of its whole range where all that range asks is grid fitting.
Describe(font, gasp_ppem, bitmap_ppem, face_index) ==
    LET said == GaspRangeFor(font, gasp_ppem, face_index)
        fitted == { r \in GaspRangeFor(font, bitmap_ppem, face_index) : IsGridfitOnly(r.flags) }
        exact == [min |-> bitmap_ppem, max |-> bitmap_ppem, version |-> 0, flags |-> 0]
        range == IF fitted = {} THEN exact ELSE CHOOSE r \in fitted : TRUE
    IN  IF font.empty THEN NoFacts
        ELSE [ is_hinted |-> IsHinted(font, face_index),
               has_cbdt |-> HasCbdt(font, face_index),
               blocks_embedded_bitmaps |-> BlocksEmbeddedBitmaps(font, face_index),
               gasp_known |-> said # {},
               gasp_version_1_or_later |-> \E r \in said : r.version >= 1,
               gasp_symmetric_smoothing |-> \E r \in said : SymmetricSmoothing(r.flags),
               gasp_gridfit_only |-> \E r \in said : IsGridfitOnly(r.flags),
               has_bitmap_strike |-> HasBitmapStrike(font, range, face_index) ]
=============================================================================
