--------------------------- MODULE MCAllowedClients ---------------------------
(* AllowedClients with URIs "", "/", "https://a", "https://a/", "https://b". *)
EXTENDS AllowedClients

CONSTANTS p1, p2, p3, live, sunset

MCUris == 0 .. 4
MCCut  == [u \in MCUris |-> CASE u = 1 -> 0 [] u = 3 -> 2 [] OTHER -> u]

\* One platform with two spellings of a URI and another one, one without a URI,
\* one on its way out, one with neither id nor status.
MCRows == {[id |-> p1, status |-> live, uris |-> <<3, 2, 4>>],
           [id |-> p2, status |-> live, uris |-> <<0>>],
           [id |-> p3, status |-> sunset, uris |-> <<1>>],
           [id |-> None, status |-> live, uris |-> <<2>>]}

\* No clients; one URI in two spellings; one that overwrites a row of the indexer
\* and one of slashes; one without a URI.
MCEnvs == {<<>>, <<[id |-> p1, uri |-> 3], [id |-> p1, uri |-> 2]>>,
           <<[id |-> p1, uri |-> 2], [id |-> p3, uri |-> 1]>>,
           <<[id |-> p3, uri |-> 4], [id |-> p2, uri |-> 0]>>}

\* Without an indexer only the callback and ALLOWED_CLIENTS count.
MCConfigs ==
    [url : {TRUE}, page : 0 .. 2, allow : {{}, {sunset}},
     require : BOOLEAN, callback : {0, 1, 4}, env : MCEnvs]
    \cup [url : {FALSE}, page : {0}, allow : {{}},
          require : {FALSE}, callback : {0, 1, 4}, env : MCEnvs]
=============================================================================
