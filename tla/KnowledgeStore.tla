--------------------------- MODULE KnowledgeStore ---------------------------
(***************************************************************************)
(* The knowledge store: a documents table and a vector index in one SQLite *)
(* file, shared by connections that may or may not have loaded sqlite-vec. *)
(*                                                                         *)
(* add() is several statements.  The first that writes begins a            *)
(* transaction, which only the commit at the end of an add ends: an add    *)
(* that raises leaves it open.  A row is identified by its (kind, key), as *)
(* documents are never deleted; a text stands for its embedding.           *)
(***************************************************************************)
EXTENDS Naturals, FiniteSets, Sequences

CONSTANTS
  Connections,   \* the KnowledgeStore objects over the file
  Loads,         \* per connection: whether sqlite-vec can be loaded
  Keys,          \* the documents that can be added
  KindOf,        \* per document: "runbook" or "incident"
  Texts,
  Absent,        \* no row
  Files,         \* what earlier processes may have left in the file
  Added,         \* bound: the documents that are added to it, with their text
  Seeds,         \* those that building a server adds
  Queries,
  Score,         \* per query: the similarity of each text
  KMax,          \* bound: k of a search
  OverFactor,    \* a vector search fetches k * OverFactor + OverExtra rows
  OverExtra,
  NoTx

Kinds == {"runbook", "incident"}

ASSUME StoreAssumption ==
  /\ IsFiniteSet(Keys)
  /\ Loads \in [Connections -> SUBSET BOOLEAN]
  /\ KindOf \in [Keys -> Kinds]
  /\ Absent \notin Texts
  /\ Added \subseteq Keys \X Texts
  /\ Seeds \in Seq(Added)
  /\ Score \in [Queries -> [Texts -> Nat]]
  /\ KMax \in Nat /\ OverFactor \in Nat \ {0} /\ OverExtra \in Nat

VARIABLES
  file,      \* what is committed
  conn,      \* the connections, each with its transaction
  promised   \* history: per document the text whose add returned last, until
             \* the next commit that changes the document

vars == <<file, conn, promised>>

\* unindexed (history): the documents whose last write stored no vector, without
\* sqlite-vec or because that statement failed.
Tables == [docs : [Keys -> Texts \union {Absent}], index : [Keys -> Texts \union {Absent}],
           unindexed : SUBSET Keys]

ASSUME FilesAssumption ==
  /\ NoTx \notin Tables
  /\ \A db \in Files :
       /\ db \in Tables
       /\ \A d \in Keys : db.index[d] # db.docs[d] => d \in db.unindexed

\* began: a BEGIN without its commit; shared: a read lock that BEGIN keeps; tx:
\* the tables as the open transaction, which has the write lock, left them.
Closed == [at |-> "closed", vec |-> FALSE, began |-> FALSE, shared |-> FALSE,
           tx |-> NoTx, todo |-> <<>>, key |-> Absent, text |-> Absent, found |-> FALSE]

Init ==
  /\ file \in Files
  /\ conn = [c \in Connections |-> Closed]
  /\ promised = [d \in Keys |-> Absent]

View(c) == IF conn[c].tx = NoTx THEN file ELSE conn[c].tx

\* One write lock; a commit waits for every other reader.
CanWrite(c) == \A d \in Connections \ {c} : conn[d].tx = NoTx
CanCommit(c) == \A d \in Connections \ {c} : ~conn[d].shared

-----------------------------------------------------------------------------
(* search. *)

Stored(db, kind) == {d \in Keys : db.docs[d] # Absent /\ KindOf[d] = kind}
Indexed(db) == {d \in Keys : db.index[d] # Absent}

Scores == {Score[q][t] : q \in Queries, t \in Texts}

\* The k best scores of these rows, best first: a sorted list is given by how many
\* of its entries are at least each score.
Best(score, rows, k) ==
  [s \in Scores |->
     LET above == Cardinality({r \in rows : score[r] >= s})
     IN  IF above < k THEN above ELSE k]

DocScore(db, q) ==
  [d \in {e \in Keys : db.docs[e] # Absent} |-> Score[q][db.docs[d]]]
IndexScore(db, q) == [d \in Indexed(db) |-> Score[q][db.index[d]]]

\* Seeded fault: the rows are filtered by kind after fetching no more than k.
FetchExactly(k) == k

FetchLimit(k) == k * OverFactor + OverExtra

\* The rows that the MATCH can return: the nearest, ties broken either way.
Fetched(db, q, k) ==
  LET rows  == Indexed(db)
      score == IndexScore(db, q)
      n     == IF Cardinality(rows) < FetchLimit(k) THEN Cardinality(rows) ELSE FetchLimit(k)
  IN  {near \in SUBSET rows :
         /\ Cardinality(near) = n
         /\ \A d \in near, e \in rows \ near : score[d] >= score[e]}

\* The join with documents and the filter by kind come afterwards.
SearchVec(db, q, kind, k) ==
  {Best(IndexScore(db, q), near \intersect Stored(db, kind), k) : near \in Fetched(db, q, k)}

SearchPython(db, q, kind, k) == Best(DocScore(db, q), Stored(db, kind), k)

-----------------------------------------------------------------------------
(* A connection. *)

\* With seed = True every runbook is added before the server exists.
Open(c) ==
  /\ conn[c].at = "closed"
  /\ \E vec \in Loads[c], todo \in {<<>>, Seeds} :
       conn' = [conn EXCEPT ![c] = [Closed EXCEPT !.at = "idle", !.vec = vec, !.todo = todo]]
  /\ UNCHANGED <<file, promised>>

\* Its transaction is rolled back.
Close(c) ==
  /\ conn[c].at # "closed"
  /\ conn' = [conn EXCEPT ![c] = Closed]
  /\ UNCHANGED <<file, promised>>

Idle(r) == [r EXCEPT !.at = "idle", !.key = Absent, !.text = Absent, !.found = FALSE]

\* An exception of an add ends the building of a server and with it the process;
\* the tools pass it on to their caller.
Raised(r) == IF r.todo # <<>> THEN Closed ELSE Idle(r)

\* The SELECT of an add finds the file locked by another connection's commit, or
\* by one that was refused.
Refuse(c) ==
  /\ conn[c].at = "idle"
  /\ ~CanWrite(c)
  /\ conn' = [conn EXCEPT ![c] = Raised(@)]
  /\ UNCHANGED <<file, promised>>

\* add: the SELECT of the row; after a BEGIN it keeps its read lock.
StartAdd(c, d, t) ==
  /\ conn[c].at = "idle"
  /\ conn[c].todo # <<>> => Head(conn[c].todo) = <<d, t>>
  /\ conn' = [conn EXCEPT ![c].at = "write", ![c].key = d, ![c].text = t,
                          ![c].found = View(c).docs[d] # Absent,
                          ![c].shared = @ \/ conn[c].began]
  /\ UNCHANGED <<file, promised>>

\* The row as this connection writes it.
WithDocument(db, r) ==
  [db EXCEPT !.docs[r.key] = r.text,
             !.unindexed = IF r.vec THEN @ \ {r.key} ELSE @ \union {r.key}]

\* Seeded fault: the file is opened without locking.
WriteUnlocked(c) ==
  /\ conn[c].at = "write"
  /\ conn[c].found \/ View(c).docs[conn[c].key] = Absent
  /\ conn' = [conn EXCEPT ![c].tx = WithDocument(View(c), conn[c]), ![c].began = TRUE,
                          ![c].at = IF ~conn[c].vec THEN "commit"
                                    ELSE IF conn[c].found THEN "unindex" ELSE "index"]
  /\ UNCHANGED <<file, promised>>

\* UPDATE, or INSERT.
WriteDocument(c) ==
  /\ conn[c].at = "write"
  /\ CanWrite(c)
  /\ conn[c].found \/ View(c).docs[conn[c].key] = Absent
  /\ conn' = [conn EXCEPT ![c].tx = WithDocument(View(c), conn[c]), ![c].began = TRUE,
                          ![c].at = IF ~conn[c].vec THEN "commit"
                                    ELSE IF conn[c].found THEN "unindex" ELSE "index"]
  /\ UNCHANGED <<file, promised>>

\* Another connection inserted the row since the SELECT: UNIQUE (kind, key).  The
\* transaction is open and has the write lock.
Clash(c) ==
  /\ conn[c].at = "write"
  /\ CanWrite(c)
  /\ ~conn[c].found /\ View(c).docs[conn[c].key] # Absent
  /\ conn' = [conn EXCEPT ![c] = Raised([@ EXCEPT !.tx = View(c), !.began = TRUE])]
  /\ UNCHANGED <<file, promised>>

\* The write lock is not had in time.
Busy(c) ==
  /\ conn[c].at = "write"
  /\ ~CanWrite(c)
  /\ conn' = [conn EXCEPT ![c] = Raised([@ EXCEPT !.began = TRUE])]
  /\ UNCHANGED <<file, promised>>

\* DELETE of the old vector.
Unindex(c) ==
  /\ conn[c].at = "unindex"
  /\ conn' = [conn EXCEPT ![c].tx.index[conn[c].key] = Absent, ![c].at = "index"]
  /\ UNCHANGED <<file, promised>>

\* Seeded fault: the document is committed before its vector is inserted.
IndexAfterCommit(c) ==
  /\ conn[c].at = "index"
  /\ conn' = [conn EXCEPT ![c].tx.index[conn[c].key] = conn[c].text, ![c].at = "commit"]
  /\ file' = conn[c].tx
  /\ UNCHANGED promised

\* INSERT of the new vector.
Index(c) ==
  /\ conn[c].at = "index"
  /\ conn' = [conn EXCEPT ![c].tx.index[conn[c].key] = conn[c].text, ![c].at = "commit"]
  /\ UNCHANGED <<file, promised>>

Returned(c) ==
  [d \in Keys |-> IF d = conn[c].key THEN conn[c].text
                  ELSE IF conn[c].tx.docs[d] # file.docs[d] THEN Absent ELSE promised[d]]

Committed(r) ==
  Idle([r EXCEPT !.tx = NoTx, !.began = FALSE, !.shared = FALSE,
                 !.todo = IF @ = <<>> THEN @ ELSE Tail(@)])

\* Seeded fault: an update returns without the commit.
CommitCreated(c) ==
  /\ conn[c].at = "commit"
  /\ CanCommit(c)
  /\ IF conn[c].found THEN UNCHANGED file ELSE file' = conn[c].tx
  /\ promised' = Returned(c)
  /\ conn' = [conn EXCEPT ![c] = IF conn[c].found THEN Idle(@) ELSE Committed(@)]

\* The commit, with all that this transaction holds; add returns.
Commit(c) ==
  /\ conn[c].at = "commit"
  /\ CanCommit(c)
  /\ file' = conn[c].tx
  /\ promised' = Returned(c)
  /\ conn' = [conn EXCEPT ![c] = Committed(@)]

\* A reader does not go away in time, or the disk is full: the transaction stays as
\* it is.
FailCommit(c) ==
  /\ conn[c].at = "commit"
  /\ conn' = [conn EXCEPT ![c] = Raised(@)]
  /\ UNCHANGED <<file, promised>>

\* The disk fails, or is full, and SQLite rolls the transaction back.
IoError(c) ==
  /\ conn[c].at \in {"write", "unindex", "index", "commit"}
  /\ conn' = [conn EXCEPT ![c] = Raised([@ EXCEPT !.tx = NoTx, !.began = FALSE,
                                                  !.shared = FALSE])]
  /\ UNCHANGED <<file, promised>>

\* Or it undoes the failing statement only.  A failed UPDATE or INSERT may have
\* the write lock by then.
WriteError(c) ==
  /\ conn[c].at = "write"
  /\ \E tx \in {conn[c].tx} \union {db \in {View(c)} : CanWrite(c)} :
       conn' = [conn EXCEPT ![c] = Raised([@ EXCEPT !.tx = tx, !.began = TRUE])]
  /\ UNCHANGED <<file, promised>>

WithoutVector(db, d) == [db EXCEPT !.unindexed = @ \union {d}]

\* A row that this transaction has written stays written, without its vector.
VectorError(c) ==
  /\ conn[c].at \in {"unindex", "index"}
  /\ conn' = [conn EXCEPT ![c] = Raised([@ EXCEPT !.tx = WithoutVector(conn[c].tx, conn[c].key)])]
  /\ UNCHANGED <<file, promised>>

\* A search after a BEGIN keeps its read lock.
SearchInTransaction(c) ==
  /\ conn[c].at = "idle"
  /\ conn[c].began /\ ~conn[c].shared
  /\ conn' = [conn EXCEPT ![c].shared = TRUE]
  /\ UNCHANGED <<file, promised>>

Next ==
  \E c \in Connections :
    \/ Open(c) \/ Close(c)
    \/ Refuse(c) \/ \E a \in Added : StartAdd(c, a[1], a[2])
    \/ WriteDocument(c) \/ Clash(c) \/ Busy(c)
    \/ Unindex(c) \/ Index(c) \/ Commit(c) \/ FailCommit(c)
    \/ IoError(c) \/ WriteError(c) \/ VectorError(c)
    \/ SearchInTransaction(c)

Spec == Init /\ [][Next]_vars

-----------------------------------------------------------------------------

\* The components have their types, and one transaction at most writes.
TypeOK ==
  /\ file \in Tables
  /\ promised \in [Keys -> Texts \union {Absent}]
  /\ \A c \in Connections :
       /\ conn[c].at \in {"closed", "idle", "write", "unindex", "index", "commit"}
       /\ conn[c].at \in {"unindex", "index", "commit"} => conn[c].tx # NoTx
       /\ conn[c].tx # NoTx => conn[c].tx \in Tables /\ conn[c].began /\ CanWrite(c)
       /\ conn[c].shared => conn[c].began

\* Document and vector change together: whatever adds were interrupted, refused
\* or committed late by the next one, a committed vector differs from that of its
\* document only when the document was last written without sqlite-vec, or the
\* disk failed just then and the next add committed what was left.
IndexFollowsDocuments ==
  \A d \in Keys : file.index[d] # file.docs[d] => d \in file.unindexed

\* What add returned for is in the file, across crashes of its process, until a
\* later commit changes the document.
ReturnedIsDurable ==
  \A d \in Keys : promised[d] # Absent => file.docs[d] = promised[d]

\* The over-fetch leaves room for the documents of the other kind.
HasRoom(db, kind, k) ==
  Cardinality(Indexed(db) \ Stored(db, kind)) <= k * (OverFactor - 1) + OverExtra

\* With an index that follows its documents, a vector search finds the scores that
\* a scan of the documents for fewer would find: documents of the other kind can
\* crowd out the last ones but never change or skip one.  All k are found when
\* the over-fetch has room for the other kind.
SearchFindsTheBest ==
  \A c \in Connections :
    LET db == View(c)
    IN  (conn[c].at = "idle" /\ conn[c].vec /\ db.unindexed = {}) =>
          \A q \in Queries, kind \in Kinds, k \in 1..KMax :
            \A found \in SearchVec(db, q, kind, k) :
              /\ \E n \in 0..k : found = SearchPython(db, q, kind, n)
              /\ HasRoom(db, kind, k) => found = SearchPython(db, q, kind, k)

\* What the module's docstring promises: over the same rows, the scan gives the
\* scores of the vector search.
IdenticalScores ==
  \A q \in Queries, kind \in Kinds, k \in 1..KMax :
    SearchVec(file, q, kind, k) = {SearchPython(file, q, kind, k)}

=============================================================================
