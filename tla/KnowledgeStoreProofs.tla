------------------------- MODULE KnowledgeStoreProofs -------------------------
(***************************************************************************)
(* Proofs about KnowledgeStore, for any number of connections, documents   *)
(* and texts: what an interrupted, refused or late add leaves behind never *)
(* separates a document from its vector, nor takes back what was returned. *)
(***************************************************************************)
EXTENDS KnowledgeStore, FiniteSetTheorems, WellFoundedInduction, TLAPS

-----------------------------------------------------------------------------
(* The inductive invariant. *)

Adding == {"write", "unindex", "index", "commit"}

Conns == [at : {"closed", "idle"} \union Adding, vec : BOOLEAN, began : BOOLEAN, shared : BOOLEAN,
          tx : Tables \union {NoTx}, todo : Seq(Keys \X Texts), key : Keys \union {Absent},
          text : Texts \union {Absent}, found : BOOLEAN]

\* The index of these tables has what the documents have, but for the ones that
\* were last written without it.
Follows(db, keys) == \A d \in keys : db.index[d] # db.docs[d] => d \in db.unindexed

\* An open transaction lags behind its documents in the row of the add under way
\* and nowhere else, and an add that is interrupted there loses it.
Fits(r) ==
  /\ r \in Conns
  /\ r.at \in Adding => r.key \in Keys /\ r.text \in Texts
  /\ r.at \in {"unindex", "index", "commit"} => r.tx # NoTx /\ r.tx.docs[r.key] = r.text
  /\ r.tx # NoTx =>
       r.began /\ Follows(r.tx, IF r.at \in {"unindex", "index"} THEN Keys \ {r.key} ELSE Keys)
  /\ r.shared => r.began

ConnsOK == DOMAIN conn = Connections /\ conn = [c \in Connections |-> conn[c]]
           /\ \A c \in Connections : Fits(conn[c])

IInv == TypeOK /\ ConnsOK /\ IndexFollowsDocuments /\ ReturnedIsDurable

-----------------------------------------------------------------------------
(* Types. *)

LEMMA ClosedFits == Fits(Closed) /\ Closed.at = "closed" /\ Closed.tx = NoTx
                    /\ Closed.began = FALSE /\ Closed.shared = FALSE
BY DEF Closed, Conns, Fits, Adding

LEMMA IInit == Init => IInv
<1> SUFFICES ASSUME Init PROVE IInv
  OBVIOUS
<1> USE DEF Init
<1>1. \A c \in Connections : conn[c] = Closed
  OBVIOUS
<1>2. TypeOK
  BY <1>1, ClosedFits, FilesAssumption DEF TypeOK
<1>3. ConnsOK
  BY <1>1, ClosedFits DEF ConnsOK
<1>4. IndexFollowsDocuments /\ ReturnedIsDurable
  BY FilesAssumption DEF IndexFollowsDocuments, ReturnedIsDurable
<1> QED
  BY <1>2, <1>3, <1>4 DEF IInv

-----------------------------------------------------------------------------
(* What an action makes of the connection it serves. *)

\* Connection c becomes r, and no other one moves; r has a transaction only when
\* no other connection has one.
Turns(c, r) ==
  /\ Fits(r) /\ (r.tx # NoTx => CanWrite(c))
  /\ conn' = [conn EXCEPT ![c] = r]

LEMMA TurnsTo ==
  ASSUME TypeOK, ConnsOK, NEW c \in Connections, NEW r, Turns(c, r)
  PROVE  /\ ConnsOK' /\ conn'[c] = r
         /\ \A d \in Connections : d # c => conn'[d] = conn[d]
         /\ \A d \in Connections : conn'[d].tx # NoTx => CanWrite(d)'
<1>1. conn'[c] = r /\ \A d \in Connections : d # c => conn'[d] = conn[d]
  BY DEF Turns, ConnsOK
<1>2. ConnsOK'
  BY <1>1 DEF Turns, ConnsOK
<1>3. ASSUME NEW d \in Connections, conn'[d].tx # NoTx PROVE CanWrite(d)'
  <2>1. CASE d = c
    BY <2>1, <1>1, <1>3 DEF Turns, CanWrite
  <2>2. CASE d # c
    <3>1. conn[d].tx # NoTx /\ CanWrite(d)
      BY <2>2, <1>1, <1>3 DEF TypeOK
    <3>2. r.tx = NoTx
      BY <2>2, <3>1 DEF Turns, CanWrite
    <3> QED
      BY <3>1, <3>2, <1>1 DEF CanWrite
  <2> QED
    BY <2>1, <2>2
<1> QED
  BY <1>1, <1>2, <1>3

\* As long as the file stays as it is, that is all there is to it.
LEMMA TurnsInv ==
  ASSUME IInv, NEW c \in Connections, NEW r, Turns(c, r), UNCHANGED <<file, promised>>
  PROVE  IInv'
<1>1. /\ ConnsOK' /\ \A d \in Connections : conn'[d].tx # NoTx => CanWrite(d)'
  BY TurnsTo DEF IInv
<1>2. file \in Tables /\ promised \in [Keys -> Texts \union {Absent}]
  BY DEF IInv, TypeOK
<1>3. TypeOK'
  BY <1>1, <1>2 DEF TypeOK, ConnsOK, Fits, Conns, Adding
<1>4. IndexFollowsDocuments' /\ ReturnedIsDurable'
  BY DEF IInv, IndexFollowsDocuments, ReturnedIsDurable
<1> QED
  BY <1>1, <1>3, <1>4 DEF IInv

\* An exception leaves the transaction as it is, or ends the process.
LEMMA RaisedFits ==
  ASSUME NEW r \in Conns, r.tx # NoTx => r.began /\ Follows(r.tx, Keys), r.shared => r.began
  PROVE  Fits(Raised(r)) /\ Raised(r).tx \in {r.tx, NoTx}
<1>1. CASE r.todo # <<>>
  BY <1>1, ClosedFits DEF Raised
<1>2. CASE r.todo = <<>>
  <2>1. /\ Idle(r) \in Conns /\ Idle(r).at = "idle" /\ Idle(r).tx = r.tx
        /\ Idle(r).began = r.began /\ Idle(r).shared = r.shared
    BY DEF Idle, Conns
  <2>2. Fits(Idle(r))
    BY <2>1 DEF Fits, Adding
  <2> QED
    BY <1>2, <2>1, <2>2 DEF Raised
<1> QED
  BY <1>1, <1>2

-----------------------------------------------------------------------------
(* The actions that leave the file alone. *)

\* What a connection sees before its next add follows its documents.
LEMMA ViewFollows ==
  ASSUME IInv, NEW c \in Connections, conn[c].at \notin {"unindex", "index"}
  PROVE  View(c) \in Tables /\ Follows(View(c), Keys)
<1>1. file \in Tables /\ Follows(file, Keys)
  BY DEF IInv, TypeOK, IndexFollowsDocuments, Follows
<1>2. Fits(conn[c])
  BY DEF IInv, ConnsOK
<1>3. conn[c].tx # NoTx => conn[c].tx \in Tables /\ Follows(conn[c].tx, Keys)
  BY <1>2 DEF Fits, Conns
<1> QED
  BY <1>1, <1>3 DEF View

LEMMA OpenTurns ==
  ASSUME IInv, NEW c \in Connections, Open(c)
  PROVE  \E r : Turns(c, r)
<1>1. PICK vec \in Loads[c], todo \in {<<>>, Seeds} :
        conn' = [conn EXCEPT ![c] = [Closed EXCEPT !.at = "idle", !.vec = vec, !.todo = todo]]
  BY DEF Open
<1> DEFINE r == [Closed EXCEPT !.at = "idle", !.vec = vec, !.todo = todo]
<1>2. vec \in BOOLEAN /\ todo \in Seq(Keys \X Texts)
  <2>1. Loads[c] \subseteq BOOLEAN /\ Seeds \in Seq(Keys \X Texts)
    <3>1. Loads[c] \subseteq BOOLEAN /\ Seeds \in Seq(Added) /\ Added \subseteq Keys \X Texts
      BY StoreAssumption
    <3> QED
      BY <3>1
  <2>2. todo \in Seq(Keys \X Texts)
    <3>1. <<>> \in Seq(Keys \X Texts)
      OBVIOUS
    <3> QED
      BY <2>1, <3>1, Zenon
  <2>3. vec \in BOOLEAN
    BY <2>1, Zenon
  <2> QED
    BY <2>2, <2>3
<1>3. Fits(r) /\ r.tx = NoTx
  BY <1>2, ClosedFits DEF Fits, Conns, Adding
<1>4. conn' = [conn EXCEPT ![c] = r]
  BY <1>1
<1> HIDE DEF r
<1> QED
  BY <1>3, <1>4 DEF Turns

LEMMA CloseTurns ==
  ASSUME IInv, NEW c \in Connections, Close(c)
  PROVE  \E r : Turns(c, r)
BY ClosedFits DEF Turns, Close

LEMMA RefuseTurns ==
  ASSUME IInv, NEW c \in Connections, Refuse(c)
  PROVE  \E r : Turns(c, r)
<1>1. Fits(conn[c]) /\ conn[c].at = "idle" /\ (conn[c].tx # NoTx => CanWrite(c))
  BY DEF IInv, ConnsOK, TypeOK, Refuse
<1>2. Fits(Raised(conn[c])) /\ Raised(conn[c]).tx \in {conn[c].tx, NoTx}
  BY <1>1, RaisedFits DEF Fits
<1>3. conn' = [conn EXCEPT ![c] = Raised(conn[c])]
  BY DEF Refuse, IInv, ConnsOK
<1> QED
  BY <1>1, <1>2, <1>3 DEF Turns

LEMMA StartAddTurns ==
  ASSUME IInv, NEW c \in Connections, NEW d \in Keys, NEW t \in Texts, StartAdd(c, d, t)
  PROVE  \E r : Turns(c, r)
<1> DEFINE found == View(c).docs[d] # Absent
           r == [conn[c] EXCEPT !.at = "write", !.key = d, !.text = t, !.found = found,
                                !.shared = @ \/ conn[c].began]
<1>1. Fits(conn[c]) /\ conn[c].at = "idle" /\ found \in BOOLEAN
  BY DEF IInv, ConnsOK, StartAdd
<1>2. conn' = [conn EXCEPT ![c] = r]
  BY DEF StartAdd
<1>3. /\ r \in Conns /\ r.at = "write" /\ r.key = d /\ r.text = t
      /\ r.tx = conn[c].tx /\ r.began = conn[c].began
      /\ r.shared = (conn[c].shared \/ conn[c].began)
  <2> HIDE DEF found
  <2>1. (conn[c].shared \/ conn[c].began) \in BOOLEAN
    OBVIOUS
  <2> QED
    BY <1>1, <2>1 DEF Fits, Conns, Adding
<1> HIDE DEF r
<1>4. Fits(r)
  BY <1>1, <1>3 DEF Fits, Adding
<1> QED
  BY <1>2, <1>3, <1>4 DEF Turns, IInv, TypeOK

LEMMA WriteDocumentTurns ==
  ASSUME IInv, NEW c \in Connections, WriteDocument(c)
  PROVE  \E r : Turns(c, r)
<1> DEFINE at == IF ~conn[c].vec THEN "commit" ELSE IF conn[c].found THEN "unindex" ELSE "index"
           db == WithDocument(View(c), conn[c])
           r == [conn[c] EXCEPT !.tx = db, !.began = TRUE, !.at = at]
<1>1. Fits(conn[c]) /\ conn[c].at = "write" /\ CanWrite(c)
  BY DEF IInv, ConnsOK, WriteDocument
<1>2. View(c) \in Tables /\ Follows(View(c), Keys)
  BY <1>1, ViewFollows
<1>3. conn[c].key \in Keys /\ conn[c].text \in Texts /\ conn[c].vec \in BOOLEAN
  BY <1>1 DEF Fits, Conns, Adding
<1>4. /\ db \in Tables
      /\ db.docs = [View(c).docs EXCEPT ![conn[c].key] = conn[c].text]
      /\ db.index = View(c).index
      /\ db.unindexed = IF conn[c].vec THEN View(c).unindexed \ {conn[c].key}
                        ELSE View(c).unindexed \union {conn[c].key}
  BY <1>2, <1>3 DEF WithDocument, Tables
<1>5. db.docs[conn[c].key] = conn[c].text
  BY <1>2, <1>3, <1>4 DEF Tables
<1>6. Follows(db, IF at \in {"unindex", "index"} THEN Keys \ {conn[c].key} ELSE Keys)
  <2> HIDE DEF db
  <2>1. \A d \in Keys \ {conn[c].key} :
          /\ db.docs[d] = View(c).docs[d] /\ db.index[d] = View(c).index[d]
          /\ d \in db.unindexed <=> d \in View(c).unindexed
    BY <1>2, <1>4 DEF Tables
  <2>2. Follows(db, Keys \ {conn[c].key})
    BY <1>2, <2>1 DEF Follows
  <2>3. at = "commit" => conn[c].key \in db.unindexed
    BY <1>4
  <2>4. at \in {"commit", "unindex", "index"}
    OBVIOUS
  <2> QED
    BY <2>2, <2>3, <2>4 DEF Follows
<1>7. conn' = [conn EXCEPT ![c] = r]
  BY DEF WriteDocument
<1> HIDE DEF db
<1>8. /\ r \in Conns /\ r.at = at /\ r.tx = db /\ r.began = TRUE
      /\ r.key = conn[c].key /\ r.text = conn[c].text
  BY <1>1, <1>4 DEF Fits, Conns, Adding
<1> HIDE DEF r, at
<1>9. Fits(r)
  BY <1>3, <1>4, <1>5, <1>6, <1>8, FilesAssumption DEF Fits
<1> QED
  BY <1>1, <1>7, <1>9 DEF Turns

LEMMA ClashTurns ==
  ASSUME IInv, NEW c \in Connections, Clash(c)
  PROVE  \E r : Turns(c, r)
<1> DEFINE q == [conn[c] EXCEPT !.tx = View(c), !.began = TRUE]
<1>1. Fits(conn[c]) /\ conn[c].at = "write" /\ CanWrite(c)
  BY DEF IInv, ConnsOK, Clash
<1>2. View(c) \in Tables /\ Follows(View(c), Keys)
  BY <1>1, ViewFollows
<1>3. q \in Conns /\ q.tx = View(c) /\ q.began = TRUE
  BY <1>1, <1>2 DEF Fits, Conns
<1>4. conn' = [conn EXCEPT ![c] = Raised(q)]
  BY DEF Clash, IInv, ConnsOK
<1> HIDE DEF q
<1>5. Fits(Raised(q))
  BY <1>2, <1>3, RaisedFits
<1> QED
  BY <1>1, <1>4, <1>5 DEF Turns

LEMMA BusyTurns ==
  ASSUME IInv, NEW c \in Connections, Busy(c)
  PROVE  \E r : Turns(c, r)
<1> DEFINE q == [conn[c] EXCEPT !.began = TRUE]
<1>1. Fits(conn[c])
  BY DEF IInv, ConnsOK
<1>2. conn[c].at = "write" /\ conn[c].tx = NoTx
  BY DEF Busy, IInv, TypeOK
<1>3. q \in Conns /\ q.tx = NoTx /\ q.began = TRUE
  BY <1>1, <1>2 DEF Fits, Conns
<1>4. conn' = [conn EXCEPT ![c] = Raised(q)]
  BY DEF Busy, IInv, ConnsOK
<1> HIDE DEF q
<1>5. Fits(Raised(q)) /\ Raised(q).tx = NoTx
  BY <1>3, RaisedFits
<1> QED
  BY <1>4, <1>5 DEF Turns

LEMMA UnindexTurns ==
  ASSUME IInv, NEW c \in Connections, Unindex(c)
  PROVE  \E r : Turns(c, r)
<1> DEFINE db == [conn[c].tx EXCEPT !.index[conn[c].key] = Absent]
           r == [conn[c] EXCEPT !.tx = db, !.at = "index"]
<1>1. Fits(conn[c]) /\ conn[c].at = "unindex"
  BY DEF IInv, ConnsOK, Unindex
<1>2. /\ conn[c].tx # NoTx /\ CanWrite(c) /\ conn[c].tx \in Tables /\ conn[c].key \in Keys
      /\ Follows(conn[c].tx, Keys \ {conn[c].key})
  BY <1>1 DEF IInv, TypeOK, Fits, Adding
<1>3. /\ db \in Tables /\ db.docs = conn[c].tx.docs /\ db.unindexed = conn[c].tx.unindexed
      /\ \A d \in Keys \ {conn[c].key} : db.index[d] = conn[c].tx.index[d]
  BY <1>2 DEF Tables
<1>4. conn' = [conn EXCEPT ![c] = r]
  BY DEF Unindex
<1> HIDE DEF db
<1>5. /\ r \in Conns /\ r.at = "index" /\ r.tx = db /\ r.began = conn[c].began
      /\ r.key = conn[c].key /\ r.text = conn[c].text /\ r.shared = conn[c].shared
  BY <1>1, <1>3 DEF Fits, Conns, Adding
<1> HIDE DEF r
<1>6. Follows(db, Keys \ {conn[c].key})
  BY <1>2, <1>3 DEF Follows
<1>7. Fits(r)
  BY <1>1, <1>2, <1>3, <1>5, <1>6, FilesAssumption DEF Fits, Adding
<1> QED
  BY <1>2, <1>4, <1>7 DEF Turns

LEMMA IndexTurns ==
  ASSUME IInv, NEW c \in Connections, Index(c)
  PROVE  \E r : Turns(c, r)
<1> DEFINE db == [conn[c].tx EXCEPT !.index[conn[c].key] = conn[c].text]
           r == [conn[c] EXCEPT !.tx = db, !.at = "commit"]
<1>1. Fits(conn[c]) /\ conn[c].at = "index"
  BY DEF IInv, ConnsOK, Index
<1>2. /\ conn[c].tx # NoTx /\ CanWrite(c) /\ conn[c].tx \in Tables /\ conn[c].key \in Keys
      /\ conn[c].text \in Texts /\ conn[c].tx.docs[conn[c].key] = conn[c].text
      /\ Follows(conn[c].tx, Keys \ {conn[c].key})
  BY <1>1 DEF IInv, TypeOK, Fits, Adding
<1>3. /\ db \in Tables /\ db.docs = conn[c].tx.docs /\ db.unindexed = conn[c].tx.unindexed
      /\ \A d \in Keys \ {conn[c].key} : db.index[d] = conn[c].tx.index[d]
      /\ db.index[conn[c].key] = conn[c].text
  BY <1>2 DEF Tables
<1>4. conn' = [conn EXCEPT ![c] = r]
  BY DEF Index
<1> HIDE DEF db
<1>5. /\ r \in Conns /\ r.at = "commit" /\ r.tx = db /\ r.began = conn[c].began
      /\ r.key = conn[c].key /\ r.text = conn[c].text /\ r.shared = conn[c].shared
  BY <1>1, <1>3 DEF Fits, Conns, Adding
<1> HIDE DEF r
<1>6. Follows(db, Keys)
  BY <1>2, <1>3 DEF Follows
<1>7. Fits(r)
  BY <1>1, <1>2, <1>3, <1>5, <1>6, FilesAssumption DEF Fits, Adding
<1> QED
  BY <1>2, <1>4, <1>7 DEF Turns

LEMMA FailCommitTurns ==
  ASSUME IInv, NEW c \in Connections, FailCommit(c)
  PROVE  \E r : Turns(c, r)
<1>1. Fits(conn[c]) /\ conn[c].at = "commit" /\ (conn[c].tx # NoTx => CanWrite(c))
  BY DEF IInv, ConnsOK, TypeOK, FailCommit
<1>2. Fits(Raised(conn[c])) /\ Raised(conn[c]).tx \in {conn[c].tx, NoTx}
  BY <1>1, RaisedFits DEF Fits
<1>3. conn' = [conn EXCEPT ![c] = Raised(conn[c])]
  BY DEF FailCommit, IInv, ConnsOK
<1> QED
  BY <1>1, <1>2, <1>3 DEF Turns

LEMMA IoErrorTurns ==
  ASSUME IInv, NEW c \in Connections, IoError(c)
  PROVE  \E r : Turns(c, r)
<1> DEFINE q == [conn[c] EXCEPT !.tx = NoTx, !.began = FALSE, !.shared = FALSE]
<1>1. Fits(conn[c])
  BY DEF IInv, ConnsOK
<1>2. q \in Conns /\ q.tx = NoTx /\ q.shared = FALSE
  BY <1>1 DEF Fits, Conns
<1>3. conn' = [conn EXCEPT ![c] = Raised(q)]
  BY DEF IoError, IInv, ConnsOK
<1> HIDE DEF q
<1>4. Fits(Raised(q)) /\ Raised(q).tx = NoTx
  BY <1>2, RaisedFits
<1> QED
  BY <1>3, <1>4 DEF Turns

LEMMA WriteErrorTurns ==
  ASSUME IInv, NEW c \in Connections, WriteError(c)
  PROVE  \E r : Turns(c, r)
<1>1. Fits(conn[c]) /\ conn[c].at = "write" /\ (conn[c].tx # NoTx => CanWrite(c))
  BY DEF IInv, ConnsOK, TypeOK, WriteError
<1>2. View(c) \in Tables /\ Follows(View(c), Keys)
  BY <1>1, ViewFollows
<1>3. PICK tx \in {conn[c].tx} \union {db \in {View(c)} : CanWrite(c)} :
        conn' = [conn EXCEPT ![c] = Raised([conn[c] EXCEPT !.tx = tx, !.began = TRUE])]
  BY DEF WriteError, IInv, ConnsOK
<1>4. tx \in Tables \union {NoTx} /\ (tx # NoTx => CanWrite(c) /\ Follows(tx, Keys))
  BY <1>1, <1>2, <1>3 DEF Fits, Conns
<1> DEFINE q == [conn[c] EXCEPT !.tx = tx, !.began = TRUE]
<1>5. q \in Conns /\ q.tx = tx /\ q.began = TRUE
  BY <1>1, <1>4 DEF Fits, Conns
<1>6. conn' = [conn EXCEPT ![c] = Raised(q)]
  BY <1>3
<1> HIDE DEF q
<1>7. Fits(Raised(q)) /\ Raised(q).tx \in {tx, NoTx}
  BY <1>4, <1>5, RaisedFits
<1> QED
  BY <1>4, <1>6, <1>7 DEF Turns

\* The row whose vector failed joins those that were written without one.
LEMMA VectorErrorTurns ==
  ASSUME IInv, NEW c \in Connections, VectorError(c)
  PROVE  \E r : Turns(c, r)
<1> DEFINE db == WithoutVector(conn[c].tx, conn[c].key)
           q == [conn[c] EXCEPT !.tx = db]
<1>1. Fits(conn[c]) /\ conn[c].at \in {"unindex", "index"}
  BY DEF IInv, ConnsOK, VectorError
<1>2. /\ conn[c].tx # NoTx /\ CanWrite(c) /\ conn[c].tx \in Tables /\ conn[c].key \in Keys
      /\ conn[c].began /\ Follows(conn[c].tx, Keys \ {conn[c].key})
  BY <1>1 DEF IInv, TypeOK, Fits, Adding
<1>3. /\ db \in Tables /\ db.docs = conn[c].tx.docs /\ db.index = conn[c].tx.index
      /\ db.unindexed = conn[c].tx.unindexed \union {conn[c].key}
  BY <1>2 DEF Tables, WithoutVector
<1>4. conn' = [conn EXCEPT ![c] = Raised(q)]
  BY DEF VectorError, IInv, ConnsOK
<1>5. q \in Conns /\ q.tx = db /\ q.began = conn[c].began /\ q.shared = conn[c].shared
  BY <1>1, <1>3 DEF Fits, Conns
<1> HIDE DEF db
<1>6. Follows(db, Keys)
  BY <1>2, <1>3 DEF Follows
<1> HIDE DEF q
<1>7. Fits(Raised(q)) /\ Raised(q).tx \in {db, NoTx}
  BY <1>1, <1>2, <1>5, <1>6, RaisedFits DEF Fits
<1> QED
  BY <1>2, <1>4, <1>7 DEF Turns

LEMMA SearchTurns ==
  ASSUME IInv, NEW c \in Connections, SearchInTransaction(c)
  PROVE  \E r : Turns(c, r)
<1> DEFINE r == [conn[c] EXCEPT !.shared = TRUE]
<1>1. Fits(conn[c]) /\ conn[c].at = "idle" /\ conn[c].began /\ (conn[c].tx # NoTx => CanWrite(c))
  BY DEF IInv, ConnsOK, TypeOK, SearchInTransaction
<1>2. conn' = [conn EXCEPT ![c] = r]
  BY DEF SearchInTransaction
<1>3. /\ r \in Conns /\ r.at = "idle" /\ r.tx = conn[c].tx /\ r.began = conn[c].began
      /\ r.key = conn[c].key /\ r.text = conn[c].text /\ r.shared = TRUE
  BY <1>1 DEF Fits, Conns
<1> HIDE DEF r
<1>4. Fits(r)
  BY <1>1, <1>3 DEF Fits, Adding
<1> QED
  BY <1>1, <1>2, <1>3, <1>4 DEF Turns

-----------------------------------------------------------------------------
(* The commit. *)

LEMMA CommittedFits ==
  ASSUME NEW r \in Conns
  PROVE  Fits(Committed(r)) /\ Committed(r).tx = NoTx
<1> DEFINE todo == IF r.todo = <<>> THEN r.todo ELSE Tail(r.todo)
           q == [r EXCEPT !.tx = NoTx, !.began = FALSE, !.shared = FALSE, !.todo = todo]
<1>1. todo \in Seq(Keys \X Texts)
  <2>1. r.todo \in Seq(Keys \X Texts)
    BY DEF Conns
  <2>2. r.todo # <<>> => Tail(r.todo) \in Seq(Keys \X Texts)
    BY <2>1
  <2> QED
    BY <2>1, <2>2
<1> HIDE DEF todo
<1>2. q \in Conns /\ q.tx = NoTx /\ q.began = FALSE /\ q.shared = FALSE
  BY <1>1 DEF Conns
<1>3. Committed(r) = Idle(q)
  BY DEF Committed, todo, Conns
<1> HIDE DEF q
<1>4. Idle(q) \in Conns /\ Idle(q).at = "idle" /\ Idle(q).tx = NoTx /\ Idle(q).shared = FALSE
  BY <1>2 DEF Idle, Conns
<1> QED
  BY <1>3, <1>4 DEF Fits, Adding

\* The transaction that is committed follows its documents, and the file is
\* then what the add wrote; whatever else the transaction changed, no promise of
\* it is left.
LEMMA CommitInv ==
  ASSUME IInv, NEW c \in Connections, Commit(c)
  PROVE  IInv'
<1>1. Fits(conn[c]) /\ conn[c].at = "commit"
  BY DEF IInv, ConnsOK, Commit
<1>2. /\ conn[c].tx \in Tables /\ conn[c].key \in Keys /\ conn[c].text \in Texts
      /\ conn[c].tx.docs[conn[c].key] = conn[c].text /\ Follows(conn[c].tx, Keys)
  BY <1>1 DEF IInv, TypeOK, Fits, Adding
<1>3. /\ file' = conn[c].tx /\ promised' = Returned(c)
      /\ Turns(c, Committed(conn[c]))
  <2>1. conn' = [conn EXCEPT ![c] = Committed(conn[c])]
    BY DEF Commit, IInv, ConnsOK
  <2>2. Fits(Committed(conn[c])) /\ Committed(conn[c]).tx = NoTx
    BY <1>1, CommittedFits DEF Fits
  <2> QED
    BY <2>1, <2>2 DEF Commit, Turns
<1>4. /\ ConnsOK' /\ \A d \in Connections : conn'[d].tx # NoTx => CanWrite(d)'
  BY <1>3, TurnsTo DEF IInv
<1>5. promised \in [Keys -> Texts \union {Absent}]
  BY DEF IInv, TypeOK
<1>6. promised' \in [Keys -> Texts \union {Absent}]
  BY <1>2, <1>3, <1>5 DEF Returned
<1>7. TypeOK'
  BY <1>2, <1>3, <1>4, <1>6 DEF TypeOK, ConnsOK, Fits, Conns, Adding
<1>8. IndexFollowsDocuments'
  BY <1>2, <1>3 DEF IndexFollowsDocuments, Follows
<1>9. ReturnedIsDurable'
  BY <1>2, <1>3 DEF IInv, ReturnedIsDurable, Returned
<1> QED
  BY <1>4, <1>7, <1>8, <1>9 DEF IInv

-----------------------------------------------------------------------------

LEMMA INext == IInv /\ [Next]_vars => IInv'
<1> SUFFICES ASSUME IInv, [Next]_vars PROVE IInv'
  OBVIOUS
<1>1. ASSUME NEW c \in Connections,
             \/ Open(c) \/ Close(c)
             \/ Refuse(c) \/ \E d \in Keys, t \in Texts : StartAdd(c, d, t)
             \/ WriteDocument(c) \/ Clash(c) \/ Busy(c)
             \/ Unindex(c) \/ Index(c) \/ FailCommit(c)
             \/ IoError(c) \/ WriteError(c) \/ VectorError(c)
             \/ SearchInTransaction(c)
      PROVE  IInv'
  <2>1. UNCHANGED <<file, promised>>
    BY <1>1 DEF Open, Close, Refuse, StartAdd, WriteDocument, Clash, Busy, Unindex, Index,
               FailCommit, IoError, WriteError, VectorError, SearchInTransaction
  <2>2. \E r : Turns(c, r)
    BY <1>1, OpenTurns, CloseTurns, RefuseTurns, StartAddTurns, WriteDocumentTurns, ClashTurns,
       BusyTurns, UnindexTurns, IndexTurns, FailCommitTurns, IoErrorTurns, WriteErrorTurns,
       VectorErrorTurns, SearchTurns
  <2> QED
    BY <2>1, <2>2, TurnsInv
<1>2. ASSUME NEW c \in Connections, Commit(c) PROVE IInv'
  BY <1>2, CommitInv
<1>3. CASE UNCHANGED vars
  BY <1>3 DEF vars, IInv, TypeOK, ConnsOK, IndexFollowsDocuments, ReturnedIsDurable, CanWrite
<1>4. ASSUME NEW c \in Connections, NEW a \in Added, StartAdd(c, a[1], a[2])
      PROVE  \E d \in Keys, t \in Texts : StartAdd(c, d, t)
  <2>1. a[1] \in Keys /\ a[2] \in Texts
    BY StoreAssumption
  <2> QED
    BY <1>4, <2>1
<1> QED
  BY <1>1, <1>2, <1>3, <1>4 DEF Next

LEMMA Invariance == Spec => []IInv
BY IInit, INext, PTL DEF Spec

\* The components have their types, and of all the connections at most one has a
\* transaction that writes: SQLite's lock, as the code uses it, is enough.
THEOREM TypeCorrect == Spec => []TypeOK
<1>1. IInv => TypeOK
  BY DEF IInv
<1> QED
  BY <1>1, Invariance, PTL

\* However the statements of the adds of any number of connections interleave,
\* and wherever one of them is interrupted, refused or committed late by the next
\* one, a committed vector is that of its document, or the document was last
\* written without sqlite-vec or by an add whose vector statement failed
\* (KnowledgeStore.add).
THEOREM VectorsFollowDocuments == Spec => []IndexFollowsDocuments
<1>1. IInv => IndexFollowsDocuments
  BY DEF IInv
<1> QED
  BY <1>1, Invariance, PTL

\* What an add returned for is in the file and stays there until a later commit
\* changes that document, across crashes of any process.
THEOREM ReturnedIsKept == Spec => []ReturnedIsDurable
<1>1. IInv => ReturnedIsDurable
  BY DEF IInv
<1> QED
  BY <1>1, Invariance, PTL

-----------------------------------------------------------------------------
(* The search. *)

Nearest(near, rows, score) == \A d \in near, e \in rows \ near : score[d] >= score[e]

LEMMA SmallestOf ==
  ASSUME NEW S \in SUBSET Nat, S # {}
  PROVE  \E x \in S : \A y \in S : x <= y
<1>1. PICK x \in S : \A y \in S : ~(<<y, x>> \in OpToRel(<, Nat))
  BY NatLessThanWellFounded, WFMin
<1>2. OpToRel(<, Nat) = {ss \in Nat \X Nat : ss[1] < ss[2]}
  BY DEF OpToRel
<1>3. ASSUME NEW y \in S PROVE x <= y
  <2>1. ~(<<y, x>> \in {ss \in Nat \X Nat : ss[1] < ss[2]})
    BY <1>1, <1>2, Zenon
  <2>2. <<y, x>> \in Nat \X Nat
    OBVIOUS
  <2> QED
    BY <2>1, <2>2
<1> QED
  BY <1>3

\* Of the rows that are better than a row, the best row has the fewest.
LEMMA BestRow ==
  ASSUME NEW rows, IsFiniteSet(rows), rows # {}, NEW score \in [rows -> Nat]
  PROVE  \E b \in rows : \A e \in rows : score[b] >= score[e]
<1> DEFINE Better(e) == {r \in rows : score[r] > score[e]}
           S == {n \in Nat : \E e \in rows : Cardinality(Better(e)) = n}
<1>1. ASSUME NEW e \in rows
      PROVE  IsFiniteSet(Better(e)) /\ Cardinality(Better(e)) \in Nat
  <2>1. Better(e) \in SUBSET rows
    OBVIOUS
  <2> HIDE DEF Better
  <2> QED
    BY <2>1, FS_Subset, FS_CardinalityType
<1>2. \A e, r \in rows : r \in Better(e) =>
        Better(r) \subseteq Better(e) /\ r \notin Better(r)
  OBVIOUS
<1>3. \A e \in rows : Better(e) = {} => \A r \in rows : score[e] >= score[r]
  OBVIOUS
<1>4. \A e \in rows : \A r \in Better(e) : r \in rows
  OBVIOUS
<1> HIDE DEF Better
<1>5. S \in SUBSET Nat /\ S # {}
  BY <1>1
<1>6. PICK n \in S : \A m \in S : n <= m
  BY <1>5, SmallestOf
<1>7. PICK b \in rows : Cardinality(Better(b)) = n
  BY <1>6
<1>8. Better(b) = {}
  <2> SUFFICES ASSUME NEW r \in Better(b) PROVE FALSE
    OBVIOUS
  <2>1. r \in rows /\ Better(r) \in SUBSET Better(b) /\ Better(r) # Better(b)
    BY <1>2, <1>4
  <2>2. Cardinality(Better(r)) < Cardinality(Better(b))
    BY <1>1, <2>1, FS_Subset
  <2>3. Cardinality(Better(r)) \in S
    BY <1>1, <2>1
  <2> QED
    BY <1>1, <1>6, <1>7, <2>1, <2>2, <2>3
<1> QED
  BY <1>3, <1>8

\* There are n nearest rows, for any n that there are rows.
LEMMA NearestExist ==
  ASSUME NEW rows, IsFiniteSet(rows), NEW score \in [rows -> Nat],
         NEW n \in Nat, n <= Cardinality(rows)
  PROVE  \E near \in SUBSET rows : Cardinality(near) = n /\ Nearest(near, rows, score)
<1> DEFINE Exist(m) == \E near \in SUBSET rows :
                         Cardinality(near) = m /\ Nearest(near, rows, score)
           S == {m \in Nat : m <= Cardinality(rows) /\ ~Exist(m)}
<1> SUFFICES ASSUME S # {} PROVE FALSE
  OBVIOUS
<1>1. PICK m \in S : \A o \in S : m <= o
  <2> HIDE DEF Exist
  <2>1. S \in SUBSET Nat
    OBVIOUS
  <2> HIDE DEF S
  <2> QED
    BY <2>1, SmallestOf
<1>2. Cardinality(rows) \in Nat /\ m \in Nat /\ m <= Cardinality(rows) /\ ~Exist(m)
  BY <1>1, FS_CardinalityType
<1>3. m # 0
  <2>1. {} \in SUBSET rows /\ Cardinality({}) = 0 /\ Nearest({}, rows, score)
    BY FS_EmptySet DEF Nearest
  <2>2. Exist(0)
    BY <2>1
  <2> HIDE DEF Exist
  <2> QED
    BY <1>2, <2>2
<1>4. Exist(m - 1)
  <2> HIDE DEF Exist
  <2>1. m - 1 \in Nat /\ m - 1 <= Cardinality(rows) /\ ~(m <= m - 1)
    BY <1>2, <1>3
  <2>2. m - 1 \notin S
    BY <1>1, <2>1
  <2> QED
    BY <2>1, <2>2
<1>5. PICK near \in SUBSET rows : Cardinality(near) = m - 1 /\ Nearest(near, rows, score)
  BY <1>4
<1>6. IsFiniteSet(near) /\ IsFiniteSet(rows \ near)
  BY FS_Subset, FS_Difference
<1>7. rows \ near # {}
  <2> SUFFICES ASSUME rows = near PROVE FALSE
    OBVIOUS
  <2> QED
    BY <1>2, <1>5
<1>8. PICK b \in rows \ near : \A e \in rows \ near : score[b] >= score[e]
  <2> DEFINE rest == rows \ near
             part == [r \in rest |-> score[r]]
  <2>1. part \in [rest -> Nat]
    OBVIOUS
  <2>2. PICK b \in rest : \A e \in rest : part[b] >= part[e]
    <3> HIDE DEF part
    <3> QED
      BY <1>6, <1>7, <2>1, BestRow
  <2> QED
    BY <2>2
<1>9. Cardinality(near \union {b}) = m
  <2>1. Cardinality(near \union {b}) = Cardinality(near) + 1
    BY <1>6, <1>8, FS_AddElement
  <2> QED
    BY <1>2, <1>5, <2>1
<1>10. Nearest(near \union {b}, rows, score)
  BY <1>5, <1>8 DEF Nearest
<1> QED
  BY <1>2, <1>5, <1>8, <1>9, <1>10

\* The scores above k do not appear among the k best.
LEMMA FirstOfBest ==
  ASSUME NEW rows, IsFiniteSet(rows), NEW score \in [rows -> Nat], NEW k \in Nat,
         NEW n \in Nat, n = IF Cardinality(rows) < k THEN Cardinality(rows) ELSE k,
         Scores \subseteq Nat
  PROVE  Best(score, rows, k) = Best(score, rows, n)
<1> DEFINE above(s) == Cardinality({r \in rows : score[r] >= s})
<1>1. ASSUME NEW s \in Scores
      PROVE  above(s) \in Nat /\ above(s) <= Cardinality(rows) /\ Cardinality(rows) \in Nat
  <2> DEFINE part == {r \in rows : score[r] >= s}
  <2>1. part \in SUBSET rows
    OBVIOUS
  <2> HIDE DEF part
  <2>2. IsFiniteSet(part) /\ Cardinality(part) <= Cardinality(rows)
    BY <2>1, FS_Subset
  <2>3. Cardinality(part) \in Nat /\ Cardinality(rows) \in Nat
    BY <2>2, FS_CardinalityType
  <2> QED
    BY <2>2, <2>3 DEF part
<1>2. /\ Best(score, rows, k) = [s \in Scores |-> IF above(s) < k THEN above(s) ELSE k]
      /\ Best(score, rows, n) = [s \in Scores |-> IF above(s) < n THEN above(s) ELSE n]
  BY DEF Best
<1> HIDE DEF above
<1>3. \A s \in Scores : (IF above(s) < k THEN above(s) ELSE k)
                        = (IF above(s) < n THEN above(s) ELSE n)
  BY <1>1
<1> QED
  BY <1>2, <1>3

\* Rows that are missing from the nearest ones are worse than all of these: among
\* k nearest rows of the kind, no score is missing that a scan would return.
LEMMA NearestSuffice ==
  ASSUME NEW rows, IsFiniteSet(rows), NEW score \in [rows -> Nat],
         NEW near \in SUBSET rows, Nearest(near, rows, score),
         NEW ofKind \in SUBSET rows, NEW k \in Nat,
         near = rows \/ Cardinality(near \intersect ofKind) >= k,
         Scores \subseteq Nat
  PROVE  Best(score, near \intersect ofKind, k) = Best(score, ofKind, k)
<1> DEFINE Above(set, s) == {r \in set : score[r] >= s}
<1> SUFFICES ASSUME NEW s \in Scores,
                    ~(Above(near \intersect ofKind, s) = Above(ofKind, s))
             PROVE  /\ Cardinality(Above(near \intersect ofKind, s)) >= k
                    /\ Cardinality(Above(ofKind, s)) >= k
                    /\ Cardinality(Above(near \intersect ofKind, s)) \in Nat
                    /\ Cardinality(Above(ofKind, s)) \in Nat
  <2>1. \A a, b \in Nat : a >= k /\ b >= k =>
          (IF a < k THEN a ELSE k) = (IF b < k THEN b ELSE k)
    OBVIOUS
  <2>2. ASSUME NEW s \in Scores
        PROVE  (LET above == Cardinality(Above(near \intersect ofKind, s))
                IN  IF above < k THEN above ELSE k)
               = LET above == Cardinality(Above(ofKind, s))
                 IN  IF above < k THEN above ELSE k
    <3>1. CASE Above(near \intersect ofKind, s) = Above(ofKind, s)
      BY <3>1
    <3>2. CASE Above(near \intersect ofKind, s) # Above(ofKind, s)
      <4> HIDE DEF Above
      <4> QED
        BY <2>1, <3>2
    <3> QED
      BY <3>1, <3>2
  <2> QED
    BY <2>2 DEF Best
<1>1. PICK e \in ofKind : e \notin near /\ score[e] >= s
  OBVIOUS
<1>2. \A d \in near : score[d] >= s
  <2>1. \A d \in near : score[d] >= score[e] /\ score[d] \in Nat
    BY <1>1 DEF Nearest
  <2> QED
    BY <1>1, <2>1
<1>3. Above(near \intersect ofKind, s) = near \intersect ofKind
  BY <1>2
<1>4. /\ Above(near \intersect ofKind, s) \in SUBSET Above(ofKind, s)
      /\ Above(ofKind, s) \in SUBSET rows
  OBVIOUS
<1>5. Cardinality(near \intersect ofKind) >= k
  BY <1>1
<1> HIDE DEF Above
<1>6. IsFiniteSet(Above(ofKind, s)) /\ IsFiniteSet(Above(near \intersect ofKind, s))
  BY <1>4, FS_Subset
<1>7. /\ Cardinality(Above(ofKind, s)) \in Nat
      /\ Cardinality(Above(near \intersect ofKind, s)) \in Nat
      /\ Cardinality(Above(near \intersect ofKind, s)) <= Cardinality(Above(ofKind, s))
  BY <1>4, <1>6, FS_Subset, FS_CardinalityType
<1> QED
  BY <1>3, <1>5, <1>7

\* The over-fetch leaves room for every row of the other kind.
LEMMA RoomForOthers ==
  ASSUME NEW k \in Nat, NEW others \in Nat, others <= k * (OverFactor - 1) + OverExtra
  PROVE  FetchLimit(k) \in Nat /\ FetchLimit(k) - others >= k
<1> DEFINE p == k * OverFactor
<1>1. OverFactor \in Nat /\ OverExtra \in Nat
  BY StoreAssumption
<1>2. p \in Nat /\ k * (OverFactor - 1) = p - k
  BY <1>1
<1> HIDE DEF p
<1>3. FetchLimit(k) = p + OverExtra
  BY DEF FetchLimit, p
<1> QED
  BY <1>1, <1>2, <1>3

\* What is found is the beginning of what a scan finds, whichever of several
\* equally near rows the index returns; all of it, when the over-fetch has room.
LEMMA SearchesAgree ==
  ASSUME NEW db \in Tables, Follows(db, Keys), db.unindexed = {},
         NEW q \in Queries, NEW kind \in Kinds, NEW k \in 1..KMax,
         NEW found \in SearchVec(db, q, kind, k)
  PROVE  /\ \E n \in 0..k : found = SearchPython(db, q, kind, n)
         /\ HasRoom(db, kind, k) => found = SearchPython(db, q, kind, k)
<1> DEFINE rows == Indexed(db)
           score == IndexScore(db, q)
           ofKind == Stored(db, kind)
           others == rows \ ofKind
           size == IF Cardinality(rows) < FetchLimit(k) THEN Cardinality(rows) ELSE FetchLimit(k)
<1>1. k \in Nat /\ Score[q] \in [Texts -> Nat] /\ Scores \subseteq Nat /\ IsFiniteSet(Keys)
  BY StoreAssumption DEF Scores
<1>2. \A d \in Keys : db.index[d] = db.docs[d] /\ db.docs[d] \in Texts \union {Absent}
  BY DEF Follows, Tables
<1>3. rows \in SUBSET Keys /\ ofKind \in SUBSET rows
  BY <1>2 DEF Indexed, Stored
<1>4. score = DocScore(db, q) /\ score \in [rows -> Nat]
  <2>1. rows = {e \in Keys : db.docs[e] # Absent}
    BY <1>2 DEF Indexed
  <2>2. \A d \in rows : db.index[d] = db.docs[d] /\ db.index[d] \in Texts
    BY <1>2, <2>1
  <2> HIDE DEF rows
  <2>3. score = [d \in rows |-> Score[q][db.index[d]]]
    BY DEF IndexScore, rows
  <2>4. DocScore(db, q) = [d \in rows |-> Score[q][db.docs[d]]]
    BY <2>1 DEF DocScore
  <2> HIDE DEF score
  <2> QED
    BY <1>1, <2>2, <2>3, <2>4
<1>5. PICK near \in SUBSET rows :
        /\ Cardinality(near) = size /\ Nearest(near, rows, score)
        /\ found = Best(score, near \intersect ofKind, k)
  BY DEF SearchVec, Fetched, Nearest
<1>6. \A m : SearchPython(db, q, kind, m) = Best(score, ofKind, m)
  BY <1>4 DEF SearchPython
<1>7. HasRoom(db, kind, k) => Cardinality(others) <= k * (OverFactor - 1) + OverExtra
  BY DEF HasRoom
<1> HIDE DEF rows, score, ofKind
<1>8. IsFiniteSet(rows) /\ Cardinality(rows) \in Nat /\ IsFiniteSet(near)
  BY <1>1, <1>3, FS_Subset, FS_CardinalityType
<1>9. /\ near \intersect ofKind \in SUBSET near /\ near \intersect ofKind \in SUBSET rows
      /\ near \ ofKind \in SUBSET others
  OBVIOUS
<1>10. /\ IsFiniteSet(near \intersect ofKind) /\ Cardinality(near \intersect ofKind) \in Nat
       /\ IsFiniteSet(others) /\ Cardinality(others) \in Nat
  BY <1>8, <1>9, FS_Subset, FS_Difference, FS_CardinalityType
<1> DEFINE n == IF Cardinality(near \intersect ofKind) < k
                THEN Cardinality(near \intersect ofKind) ELSE k
<1>11. n \in Nat /\ n <= k /\ n <= Cardinality(near \intersect ofKind)
  BY <1>1, <1>10
<1>12. found = Best(score, ofKind, n)
  <2>1. [d \in near \intersect ofKind |-> score[d]] \in [near \intersect ofKind -> Nat]
    BY <1>4
  <2>2. Best(score, near \intersect ofKind, k) = Best(score, near \intersect ofKind, n)
    <3> DEFINE part == [d \in near \intersect ofKind |-> score[d]]
    <3>1. \A m : Best(part, near \intersect ofKind, m) = Best(score, near \intersect ofKind, m)
      BY DEF Best
    <3>2. part \in [near \intersect ofKind -> Nat]
      BY <2>1
    <3> HIDE DEF part
    <3>3. Best(part, near \intersect ofKind, k) = Best(part, near \intersect ofKind, n)
      BY <1>1, <1>10, <1>11, <3>2, FirstOfBest DEF n
    <3> QED
      BY <3>1, <3>3
  <2> HIDE DEF n
  <2>3. Best(score, near \intersect ofKind, n) = Best(score, ofKind, n)
    BY <1>1, <1>3, <1>4, <1>5, <1>8, <1>11, NearestSuffice
  <2> QED
    BY <1>5, <2>2, <2>3
<1>13. ASSUME HasRoom(db, kind, k)
       PROVE  near = rows \/ Cardinality(near \intersect ofKind) >= k
  <2>1. FetchLimit(k) \in Nat /\ FetchLimit(k) - Cardinality(others) >= k
    <3> HIDE DEF others
    <3> QED
      BY <1>1, <1>7, <1>10, <1>13, RoomForOthers
  <2>2. CASE Cardinality(rows) < FetchLimit(k)
    BY <1>5, <1>8, <2>2, FS_Subset
  <2>3. CASE ~(Cardinality(rows) < FetchLimit(k))
    <3>1. Cardinality(near) = FetchLimit(k)
      BY <1>5, <2>3
    <3>2. /\ Cardinality(near \ ofKind) = Cardinality(near) - Cardinality(near \intersect ofKind)
          /\ Cardinality(near \ ofKind) <= Cardinality(others)
          /\ Cardinality(near \ ofKind) \in Nat
      BY <1>8, <1>9, <1>10, FS_Difference, FS_Subset, FS_CardinalityType
    <3> HIDE DEF others
    <3> QED
      BY <1>1, <1>10, <2>1, <3>1, <3>2
  <2> QED
    BY <2>2, <2>3
<1>14. HasRoom(db, kind, k) => found = Best(score, ofKind, k)
  BY <1>1, <1>3, <1>4, <1>5, <1>8, <1>13, NearestSuffice
<1> HIDE DEF n
<1>15. n \in 0..k
  BY <1>1, <1>11
<1> QED
  BY <1>6, <1>12, <1>14, <1>15

\* Once an index follows its documents, what a vector search finds is the
\* beginning of what a scan finds: the documents of the other kind can crowd out
\* the last ones, and nothing else.  All are found when the over-fetch has room
\* for the other kind (KnowledgeStore._search_vec and _search_python).
THEOREM SearchIsExact == Spec => []SearchFindsTheBest
<1>1. IInv => SearchFindsTheBest
  <2> SUFFICES ASSUME IInv, NEW c \in Connections, conn[c].at = "idle", View(c).unindexed = {},
                      NEW q \in Queries, NEW kind \in Kinds, NEW k \in 1..KMax,
                      NEW found \in SearchVec(View(c), q, kind, k)
               PROVE  /\ \E n \in 0..k : found = SearchPython(View(c), q, kind, n)
                      /\ HasRoom(View(c), kind, k) => found = SearchPython(View(c), q, kind, k)
    BY DEF SearchFindsTheBest
  <2>1. View(c) \in Tables /\ Follows(View(c), Keys)
    BY ViewFollows
  <2> QED
    BY <2>1, SearchesAgree
<1> QED
  BY <1>1, Invariance, PTL

===============================================================================
