------------------------- MODULE MCResolveCaptures -------------------------
(* TLC instance of ResolveCaptures.  The Wayback Machine lists one payload *)
(* at two times, under two spellings of its URL, and empty payloads of two *)
(* statuses at another URL.  Common Crawl lists the same payload between   *)
(* them and a URL with a space, without a status.                          *)
EXTENDS ResolveCaptures

at(key, spelling, t, d, s) == [urlkey |-> key, url |-> spelling, time |-> t, digest |-> d, status |-> s]

(* 11 and 12 differ in an escape, 31 and 32 in how a space is written. *)
mc_Urls == {11, 12, 21, 31, 32}
mc_Escaped == [u \in mc_Urls |-> IF u = 32 THEN 31 ELSE u]
mc_Unquoted == [u \in mc_Urls |-> IF u = 12 THEN 11 ELSE IF u = 31 THEN 32 ELSE u]
mc_Bodies == {<<>>, <<"x">>, <<"x", "n">>}

mc_Lists ==
    [wayback |-> { at(1, 11, 1, <<"x", "n">>, 200), at(1, 12, 2, <<"x", "n">>, 200),
                   at(2, 21, 2, <<>>, 301), at(2, 21, 3, <<>>, 302) },
     common_crawl |-> { at(1, 11, 2, <<"x", "n">>, 200), at(3, 32, 3, <<"x">>, Unknown) }]
mc_Plans == {[source |-> "wayback", from |-> 1], [source |-> "common_crawl", from |-> 2]}
=============================================================================
