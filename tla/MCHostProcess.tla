---------------------------- MODULE MCHostProcess -----------------------------
(***************************************************************************)
(* Builds of libxul for HostProcess: one the patches were made for, and    *)
(* ones in which a finder, a check or a list gives up.                     *)
(***************************************************************************)
EXTENDS HostProcess, MCFaceWeights, MCFallbackOrder, MCFaceSizes, MCFontAnswers

\* the functions of libxul that the patches look for, and their neighbours
MCFunctions ==
    {"GetCommonFallbackFonts", "InitMetrics", "Walker", "Loader", "generatePath",
     "generateMetrics", "generateImage", "GetFTGlyphExtents", "GetGlyphBounds",
     "GetGlyphVOrigin", "HBGetGlyphVOrigin", "load_glyph", "Offset", "ShapeText", "Other"}

MCSites == 1 .. 15

Sized(called) == [f \in MCFunctions |-> IF f \in DOMAIN called THEN called[f] ELSE {}]

MCBuild ==
    [off |-> FALSE, described |-> TRUE, bounded |-> TRUE, unichar |-> TRUE,
     got |-> Imports,
     anchors |-> 1,
     references |-> [f \in MCFunctions |-> IF f = "GetCommonFallbackFonts" THEN 11
                                           ELSE IF f = "Other" THEN 1 ELSE 0],
     relro |-> <<"GetCommonFallbackFonts", "generateMetrics", "generateImage", "generatePath",
                 "GetGlyphBounds", "GetGlyphBounds", "Data">>,
     calls |-> <<"InitMetrics", "InitMetrics", "Walker", "Loader", "Loader", "Loader",
                 "GetFTGlyphExtents", "GetFTGlyphExtents", "GetGlyphVOrigin",
                 "load_glyph", "load_glyph", "Offset", "ShapeText", "ShapeText",
                 "HBGetGlyphVOrigin">>,
     owner |-> <<"Other", "Other", "generatePath", "generatePath", "generateImage",
                 "generateMetrics", "GetGlyphBounds", "InitMetrics", "HBGetGlyphVOrigin",
                 "Other", "Other", "ShapeText", "Other", "Other", "Nothing">>,
     sound |-> MCSites \ {15},
     oneword |-> MCSites \ {2, 11},
     imports |-> Sized(
        [InitMetrics |-> {"FT_Get_Sfnt_Table", "FT_Set_Char_Size"},
         Other |-> {"FT_Get_Sfnt_Table"},
         Walker |-> {"FT_Outline_Decompose"},
         Loader |-> {"FT_Load_Glyph"},
         generateImage |-> {"FT_Render_Glyph"},
         GetFTGlyphExtents |-> {"FT_Set_Char_Size", "FT_MulFix"},
         load_glyph |-> {"FT_Set_Char_Size", "FT_Set_Transform", "FT_Load_Glyph",
                         "FT_Select_Size"}]),
     tags |-> Sized(
        [GetFTGlyphExtents |-> {"SVG ", "COLR"},
         GetGlyphVOrigin |-> {"hhea"},
         Other |-> {"hhea", "OS/2", "COLR"}]),
     small |-> {"Offset"}, large |-> {"ShapeText", "InitMetrics"},
     thresholds |-> << {"Other"}, {"Offset", "ShapeText"} >>,
     compares |-> 1]

MCProcess(i) == [mapped |-> TRUE, named |-> TRUE, span |-> TRUE, enabled |-> TRUE,
                 wanted |-> TRUE, image |-> i]
MCLate == [MCProcess([MCBuild EXCEPT !.unichar = FALSE]) EXCEPT !.mapped = FALSE]

MCHosts ==
    {MCProcess(MCBuild),
     \* one apparent call to InitMetrics is not inside one function; two functions read hhea alone;
     \* the threshold is read by two large functions
     MCProcess([MCBuild EXCEPT !.sound = @ \ {2}, !.tags["Walker"] = {"hhea"},
                               !.owner[15] = "Other",
                               !.thresholds = << {"InitMetrics"}, {"ShapeText"} >>]),
     \* more functions size a face than a list holds; one function fits two patches
     MCProcess([MCBuild EXCEPT !.imports["Walker"] = {"FT_Outline_Decompose", "FT_Set_Char_Size"},
                               !.imports["Offset"] = {"FT_Set_Char_Size"},
                               !.relro[3] = "Data",
                               !.thresholds = << {"load_glyph"} >>, !.large = {"load_glyph"},
                               !.compares = 2]),
     \* the fallback fonts are in two vtables, and cannot be told
     [MCLate EXCEPT !.image = [MCBuild EXCEPT !.relro[7] = "GetCommonFallbackFonts"]],
     MCLate,
     [MCLate EXCEPT !.named = FALSE],
     [MCLate EXCEPT !.span = FALSE],
     [MCLate EXCEPT !.enabled = FALSE],
     [MCLate EXCEPT !.wanted = FALSE]}

MCSettings == {[who |-> {}, last |-> 0, scanned |-> FALSE],
               [who |-> {"c1"}, last |-> 0, scanned |-> FALSE],
               [who |-> {"c1", "c2"}, last |-> 1, scanned |-> TRUE]}
===============================================================================
