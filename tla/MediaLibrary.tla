----------------------------- MODULE MediaLibrary -----------------------------
(***************************************************************************)
(* The names of media files (src/src/MediaLibrary.hpp) and the media types *)
(* derived from them (upnpDevice.hpp, ixmlfuncs.cpp).                      *)
(*                                                                         *)
(* A name is a sequence of letters.  A letter is a byte, or a word the     *)
(* code looks for: an extension with its dot, in either case, or "http".   *)
(* .mp4 has two letters, mp4 in lower case and MP4 for any other spelling: *)
(* a playlist appends the former.  Words are numbered from 256: they have  *)
(* neither separators nor escapes in them, and do not start with a         *)
(* hexadecimal digit.                                                      *)
(***************************************************************************)
EXTENDS Naturals, Sequences, SequencesExt

Http == 256
Ext  == [mp4 |-> 257, m4v |-> 258, mkv |-> 259, avi |-> 260, mov |-> 261,
         mpg |-> 262, mp3 |-> 263, m4a |-> 264, aac |-> 265, wav |-> 266,
         pcm |-> 267, flac |-> 268, m3u8 |-> 269, MP4 |-> 270]

Percent   == 37
Slash     == 47
Backslash == 92
Digit     == 48..57
Upper     == 65..90
Lower     == 97..122

Has(name, letters) == \E i \in DOMAIN name : name[i] \in letters

----------------------------------------------------------------------------
(* Which names are served, and which are listed.                           *)

isSafeFileName(name) == /\ name \notin {<< >>, <<46>>, <<46, 46>>}
                        /\ ~Has(name, {Slash, Backslash, 0})

\* .mov stands for .mov, .webm, .ts and .wmv, .mpg for .mpg and .mpeg.
hasVideoExtension(name) ==
    /\ name # << >>
    /\ Last(name) \in {Ext.mp4, Ext.MP4, Ext.m4v, Ext.mkv, Ext.avi, Ext.mov, Ext.mpg}

----------------------------------------------------------------------------
(* Percent-escapes.                                                        *)

Unreserved == Digit \cup Upper \cup Lower \cup {45, 46, 95, 126}

hex(d)     == IF d < 10 THEN 48 + d ELSE 55 + d
escaped(c) == <<Percent, hex(c \div 16), hex(c % 16)>>

\* Mutation of urlEncode: a percent sign is left as it is.
urlEncodeOnce(value) ==
    FlattenSeq([i \in DOMAIN value |->
        IF value[i] > 255 \/ value[i] \in Unreserved \cup {Percent}
        THEN <<value[i]>> ELSE escaped(value[i])])

urlEncode(value) ==
    FlattenSeq([i \in DOMAIN value |->
        IF value[i] > 255 \/ value[i] \in Unreserved
        THEN <<value[i]>> ELSE escaped(value[i])])

HexDigit == Digit \cup 65..70 \cup 97..102
hexValue(ch) == IF ch \in Digit THEN ch - 48
                ELSE IF ch \in Upper THEN ch - 55 ELSE ch - 87

\* What is not a whole escape stays as it is.
urlDecode(value) ==
    LET IsEscape(i) == /\ value[i] = Percent /\ i + 2 <= Len(value)
                       /\ {value[i + 1], value[i + 2]} \subseteq HexDigit
        from[i \in 1..Len(value) + 1] ==
            IF i > Len(value) THEN << >>
            ELSE IF IsEscape(i)
            THEN <<16 * hexValue(value[i + 1]) + hexValue(value[i + 2])>> \o from[i + 3]
            ELSE <<value[i]>> \o from[i + 1]
    IN from[1]

----------------------------------------------------------------------------
(* Media types.                                                            *)

\* The Content-Type of a file served, and ...
detectAudioKind(name) ==
    IF Has(name, {Ext.mp3, Ext.m4a, Ext.aac}) THEN "MP3"
    ELSE IF Has(name, {Ext.wav, Ext.pcm, Ext.flac}) THEN "LPCM"
    ELSE "UNKNOWN"

pickAudioDlnaHeaders(kind) == IF kind = "LPCM" THEN "audio/L16" ELSE "audio/mpeg"

\* Mutation of pickVideoDlnaHeaders: .mkv is forgotten.
pickWithoutMkv(name) ==
    IF Has(name, {Ext.mp4, Ext.MP4, Ext.m4v, Ext.avi}) THEN "video/mp4" ELSE "video/mpeg"

pickVideoDlnaHeaders(name) ==
    IF Has(name, {Ext.mp4, Ext.MP4, Ext.m4v, Ext.mkv, Ext.avi})
    THEN "video/mp4" ELSE "video/mpeg"

Served(kind, name) == IF kind = "audio"
                      THEN pickAudioDlnaHeaders(detectAudioKind(name))
                      ELSE pickVideoDlnaHeaders(name)

\* ... the protocolInfo of its DIDL-Lite metadata.
toDlnaMime(name) == IF Has(name, {Ext.wav, Ext.pcm})
                    THEN "audio/L16" ELSE "audio/mpeg"

generateDidlLite(name) == toDlnaMime(name)

generateVideoDidlLite(name) == IF Has(name, {Ext.mp4, Ext.MP4, Ext.mkv, Ext.avi})
                               THEN "video/mp4" ELSE "video/mpeg"

Announced(kind, name) == IF kind = "audio" THEN generateDidlLite(name)
                         ELSE generateVideoDidlLite(name)
=============================================================================
