--------------------------- MODULE MCMediaServing ---------------------------
(* A small instance of MediaServing for TLC: names with what is special in *)
(* a URL, a media type or a path, of which two files are there at a time.  *)
EXTENDS MediaServing

\* "a b.mp4", "a b.MP4", "a%20b.mp4", "50%.mkv", "a?.avi", "http.mp4", an e with
\* an acute accent and .m4v, "a.mp4.mpg", and a playlist "a.m3u8".
MCVideo == {<<97, 32, 98, Ext.mp4>>, <<97, 32, 98, Ext.MP4>>,
            <<97, 37, 50, 48, 98, Ext.mp4>>,
            <<53, 48, 37, Ext.mkv>>, <<97, 63, Ext.avi>>, <<Http, Ext.mp4>>,
            <<195, 169, Ext.m4v>>, <<97, Ext.mp4, Ext.mpg>>, <<97, Ext.m3u8>>}

\* "a.mp3", "a.wav" and "a.flac".
MCAudio == {<<97, Ext.mp3>>, <<97, Ext.wav>>, <<97, Ext.flac>>}

MCFile == ({"video"} \X MCVideo) \cup ({"audio"} \X MCAudio)

\* "b/a.mp4", asked for with its separator escaped, and a name that ends in
\* an escape.
MCPath    == <<98, Slash, 97, Ext.mp4>>
MCNested  == {<<"video", MCPath>>}
MCSegment == {urlEncode(MCPath), <<97, 37, 52, 49>>, << >>}
=============================================================================
