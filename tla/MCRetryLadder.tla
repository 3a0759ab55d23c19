---------------------------- MODULE MCRetryLadder ----------------------------
(* The first levels of the ladder with the answers at the edges of the rules, *)
(* and hosts at the edges of the special-purpose address blocks.              *)
EXTENDS RetryLadder

MCSchedule == <<60000, 300000, 1800000>>
MCAnswers == {Undefined} \cup
    {Defined(s) : s \in {199, 200, 299, 300, 404, 408, 425, 429, 499, 500}}
\* Below, at and above a level, above the last one, and what is not a number.
MCHeaders ==
    {[kind |-> "none", value |-> 0], [kind |-> "garbage", value |-> 0]}
        \cup {[kind |-> "number", value |-> n] : n \in {-1, 60, 61, 300, 301, 1801}}
        \cup {[kind |-> "date", value |-> n] : n \in {-5000, 60499, 60500}}

MCGuard == [allowPrivate |-> FALSE, blockedPorts |-> {6379}]
Url == [parses |-> TRUE, scheme |-> "https:", port |-> 443, allowlisted |-> FALSE]

\* The first and the last address of every block, and its neighbours.
Quads ==
    {<<a, b, c, 7>> : a \in {0, 1, 9, 10, 11, 126, 127, 128, 223, 224, 239, 240, 255},
                      b \in {0}, c \in {0}}
    \cup {<<100, b, 0, 7>> : b \in {63, 64, 127, 128}}
    \cup {<<169, b, 0, 7>> : b \in {253, 254, 255}}
    \cup {<<172, b, 0, 7>> : b \in {15, 16, 31, 32}}
    \cup {<<192, 0, c, 7>> : c \in {0, 1, 2, 3}}
    \cup {<<192, b, 0, 7>> : b \in {167, 168, 169}}
    \cup {<<198, b, 100, 7>> : b \in {17, 18, 19, 20, 50, 51, 52}}
    \cup {<<198, 51, c, 7>> : c \in {99, 101}}
    \cup {<<203, 0, c, 7>> : c \in {112, 113, 114}}
V4(quad) == [version |-> 4, quad |-> quad]

G(n) == << n >>
V6(head, tail, means) == [version |-> 6, head |-> head, tail |-> tail, means |-> means]
Low(quad) == <<quad[1] * 256 + quad[2], quad[3] * 256 + quad[4]>>
\* A quad in its embeddings: mapped (dotted and in hexadecimal), compatible,
\* behind the translation prefixes, and one group off, which embeds nothing.
Embeddings(quad) ==
    LET t == Low(quad)
    IN  { V6(<< >>, << <<G(65535), quad>> >>, <<0, 0, 0, 0, 0, 65535, t[1], t[2]>>),
          V6(<< >>, << <<G(65535), G(t[1]), G(t[2])>> >>, <<0, 0, 0, 0, 0, 65535, t[1], t[2]>>),
          V6(<< >>, << <<quad>> >>, <<0, 0, 0, 0, 0, 0, t[1], t[2]>>),
          V6(<<G(100), G(65435)>>, << <<quad>> >>, <<100, 65435, 0, 0, 0, 0, t[1], t[2]>>),
          V6(<<G(100), G(65435), G(1)>>, << <<quad>> >>, <<100, 65435, 1, 0, 0, 0, t[1], t[2]>>),
          V6(<< >>, << <<G(65535), G(0), quad>> >>, <<0, 0, 0, 0, 65535, 0, t[1], t[2]>>) }
Prefixed(n) == V6(<<G(n)>>, << <<G(1)>> >>, <<n, 0, 0, 0, 0, 0, 0, 1>>)
Full == V6(<<G(8193), G(3512), G(0), G(0), G(0), G(0), G(0), G(1)>>, Undefined,
           <<8193, 3512, 0, 0, 0, 0, 0, 1>>)
Addresses ==
    {V4(q) : q \in Quads}
    \cup UNION {Embeddings(q) : q \in {<<1, 0, 0, 7>>, <<10, 0, 0, 7>>, <<127, 0, 0, 1>>,
                                       <<0, 0, 0, 0>>, <<0, 0, 0, 1>>, <<169, 254, 169, 254>>}}
    \cup {Prefixed(n) : n \in {8193, 64511, 64512, 65023, 65024, 65151, 65152, 65215, 65216,
                                65279, 65280, 65535}}
    \cup {Full}

Public == V4(<<1, 0, 0, 7>>)
Private == V4(<<10, 0, 0, 7>>)
MCTargets ==
    {[url |-> Url, addresses |-> <<a>>] : a \in Addresses}
    \cup {[url |-> Url, addresses |-> a] : a \in {<< >>, <<Public, Private>>, <<Private, Public>>}}
    \cup {[url |-> [Url EXCEPT !.allowlisted = TRUE], addresses |-> <<Private>>],
          [url |-> [Url EXCEPT !.port = 6379], addresses |-> <<Public>>],
          [url |-> [Url EXCEPT !.scheme = "ftp:"], addresses |-> <<Public>>],
          [url |-> [Url EXCEPT !.parses = FALSE], addresses |-> << >>]}
=============================================================================
