------------------------------- MODULE Keyset -------------------------------
(* keyset.js: pages of rows [id, at, ...], newest first; the id, a random      *)
(* string, breaks ties among rows of one millisecond.                          *)
EXTENDS Naturals, Sequences, FiniteSets

NoCursor == [at |-> 0, id |-> 0]

encodeCursor(row) == [at |-> row.at, id |-> row.id]

olderThan_NoTieBreak(cursor, row) == row.at < cursor.at

olderThan(cursor, row) ==
    row.at < cursor.at \/ (row.at = cursor.at /\ row.id < cursor.id)

\* orderBy: [{ createdAt: 'desc' }, { id: 'desc' }]
Newer(a, b) == a.at > b.at \/ (a.at = b.at /\ a.id > b.id)

NewestFirst(rows) ==
    CHOOSE s \in [1 .. Cardinality(rows) -> rows] :
        /\ \A r \in rows : \E k \in DOMAIN s : s[k] = r
        /\ \A j, k \in DOMAIN s : j < k => Newer(s[j], s[k])

\* limit + 1 rows were asked for, so that one too many says there is a next page.
paginate(rows, limit) ==
    LET hasMore == Len(rows) > limit
        page    == IF hasMore THEN SubSeq(rows, 1, limit) ELSE rows
    IN  [page |-> page,
         nextCursor |-> IF hasMore THEN encodeCursor(page[Len(page)]) ELSE NoCursor]
=============================================================================
