-------------------------- MODULE MeaningMapProofs --------------------------
(***************************************************************************)
(* Proofs about the meaning maps of a book, for any finite number of maps  *)
(* and pericopes, and any number of accounts, languages and requests in    *)
(* flight.                                                                 *)
(***************************************************************************)
EXTENDS MeaningMap, FiniteSetTheorems, FunctionTheorems, TLAPS

USE MeaningMapAssumption, RowAssumption

Asked == {"submit", "approve", "return", "edit", "lock", "unlock", "delete", "feedback"}

Requested == [pc : {"idle", "loaded", "owes"}, op : Ops \cup {"none"},
              user : Users \cup {NULL}, map : Maps \cup {NULL}, n : Nat,
              loaded : Rows \cup {NULL},
              arg : Languages \cup FeedbackIds \cup Pericopes \cup {NULL}]

\* A request has an account; one about a map names a map that has been drawn, and
\* one that waits has loaded it and was allowed what it asks for.
Real(r) ==
    /\ req[r].op # "none" => User(r) \in Users
    /\ req[r].op \in Ops \ {"generate"} => Me(r) \in drawn
    /\ req[r].op \in Asked => Loaded(r) \in Rows /\ Allowed(req[r].op, User(r), Loaded(r))
    /\ req[r].op = "translate" => Loaded(r) \in Rows /\ req[r].arg \in Languages
    /\ req[r].op = "generate" => req[r].arg \in Pericopes
    /\ req[r].op = "resolve" => req[r].arg \in FeedbackIds
    /\ req[r].pc = "owes" => req[r].op \in Verdict \cup {"feedback", "resolve"}

RequestsAreReal == \A r \in Requests : Real(r)

\* A map there is has been drawn.
MapsAreDrawn == \A m \in Maps : map[m] # NULL => m \in drawn

\* The analyst of a map is the one a request has loaded, and an approver stays one.
ColumnsStand ==
    \A r \in Requests :
        req[r].op \in Asked \cup {"translate"} /\ map[Me(r)] # NULL =>
            /\ map[Me(r)].analyst = Loaded(r).analyst
            /\ Loaded(r).approved_by # NULL => map[Me(r)].approved_by # NULL

\* Nobody approves a map of his own.
ApproversAreOthers ==
    \A m \in Maps : map[m] # NULL =>
        /\ map[m].approved_by # map[m].analyst
        /\ map[m].status = "approved" => map[m].approved_by # NULL

OfTheText(row) ==
    row.translations # NULL => \A l \in Languages : row.translations[l] \in {NULL, row.data}

\* While no edit and translation of a map overlap, what a translation has loaded is
\* the text there is, and an edit that found the cache empty will leave it empty.
WaitsAreApart ==
    \A m \in Maps \ crossed :
        /\ map[m] # NULL => OfTheText(map[m])
        /\ ~\E r, q \in Requests : /\ req[r].op = "edit" /\ Me(r) = m
                                   /\ req[q].op = "translate" /\ Me(q) = m
        /\ \A r \in Requests : Me(r) = m /\ map[m] # NULL =>
              /\ req[r].op = "translate" =>
                    Loaded(r).data = map[m].data /\ OfTheText(Loaded(r))
              /\ req[r].op = "edit" /\ Loaded(r).translations = NULL =>
                    map[m].translations = NULL

MapsInv ==
    /\ MapTypeOK
    /\ RequestsAreReal
    /\ MapsAreDrawn
    /\ ColumnsStand
    /\ ApproversAreOthers
    /\ WaitsAreApart

-----------------------------------------------------------------------------
(* Rows and flushes.                                                       *)

LEMMA FlushIsTyped ==
    ASSUME NEW cur \in Rows, NEW loaded \in Rows, NEW new \in Rows
    PROVE  Flush(cur, loaded, new) \in Rows
BY DEF Flush, Rows

LEMMA FlushedColumns ==
    ASSUME NEW cur \in Rows, NEW loaded \in Rows, NEW new \in Rows
    PROVE  /\ Flush(cur, loaded, new).status =
                IF new.status = loaded.status THEN cur.status ELSE new.status
           /\ Flush(cur, loaded, new).analyst =
                IF new.analyst = loaded.analyst THEN cur.analyst ELSE new.analyst
           /\ Flush(cur, loaded, new).approved_by =
                IF new.approved_by = loaded.approved_by THEN cur.approved_by ELSE new.approved_by
           /\ Flush(cur, loaded, new).data =
                IF new.data = loaded.data THEN cur.data ELSE new.data
           /\ Flush(cur, loaded, new).translations =
                IF new.translations = loaded.translations THEN cur.translations
                ELSE new.translations
BY DEF Flush, Rows

LEMMA NewMapIsTyped ==
    ASSUME NEW p \in Pericopes, NEW u \in Users, NEW text \in Nat
    PROVE  /\ NewMap(p, u, text) \in Rows
           /\ NewMap(p, u, text).status = "draft"
           /\ NewMap(p, u, text).approved_by = NULL /\ NewMap(p, u, text).analyst = u
           /\ NewMap(p, u, text).translations = NULL
BY DEF NewMap, Rows, MeaningMapStatus, Translations

LEMMA CachedIsTyped ==
    ASSUME NEW row \in Rows
    PROVE  Cached(row) \in [Languages -> Nat \cup {NULL}]
BY DEF Cached, Rows, Translations

\* The row a request writes.
Writing == Verdict \cup {"submit", "lock", "unlock", "edit", "translate"}
Wanted(r) ==
    CASE req[r].op \in Verdict \cup {"submit"} -> Transitioned(r, Loaded(r))
      [] req[r].op = "lock" -> [Loaded(r) EXCEPT !.locked_by = User(r)]
      [] req[r].op = "unlock" -> [Loaded(r) EXCEPT !.locked_by = NULL]
      [] req[r].op = "edit" -> [Loaded(r) EXCEPT !.data = req[r].n, !.translations = NULL]
      [] req[r].op = "translate" ->
            [Loaded(r) EXCEPT !.translations =
                [Cached(Loaded(r)) EXCEPT ![req[r].arg] = Loaded(r).data]]

\* It is the loaded one but for the columns its operation is about.
LEMMA WantedColumns ==
    ASSUME MapTypeOK, RequestsAreReal, NEW r \in Requests, req[r].op \in Writing
    PROVE  /\ Wanted(r) \in Rows
           /\ Wanted(r).analyst = Loaded(r).analyst
           /\ Wanted(r).status = IF req[r].op \in Verdict \cup {"submit"} THEN To(req[r].op)
                                 ELSE Loaded(r).status
           /\ Wanted(r).approved_by = IF req[r].op = "approve" THEN User(r)
                                      ELSE Loaded(r).approved_by
           /\ req[r].op # "edit" => Wanted(r).data = Loaded(r).data
           /\ Wanted(r).translations =
                IF req[r].op = "edit" THEN NULL
                ELSE IF req[r].op = "translate"
                     THEN [Cached(Loaded(r)) EXCEPT ![req[r].arg] = Loaded(r).data]
                     ELSE Loaded(r).translations
<1>1. Loaded(r) \in Rows /\ User(r) \in Users /\ req[r].n \in Nat
  BY DEF RequestsAreReal, Real, Writing, Asked, Verdict, Ops, MapTypeOK
<1>2. CASE req[r].op \in Verdict \cup {"submit"}
  <2> DEFINE s == To(req[r].op)
             by == IF req[r].op = "approve" THEN User(r) ELSE Loaded(r).approved_by
             moved == [Loaded(r) EXCEPT !.status = s]
             freed == [moved EXCEPT !.locked_by = NULL]
             signed == [freed EXCEPT !.approved_by = by]
  <2>1. s \in MeaningMapStatus
    BY <1>2 DEF To, MeaningMapStatus, Verdict
  <2>2. by \in Users \cup {NULL}
    BY <1>1 DEF Rows
  <2>3. Transitioned(r, Loaded(r)) = signed
    BY <1>1 DEF Transitioned, Rows
  <2> HIDE DEF s, by
  <2>4. /\ moved \in Rows /\ moved.status = s /\ moved.analyst = Loaded(r).analyst
        /\ moved.data = Loaded(r).data /\ moved.translations = Loaded(r).translations
    BY <1>1, <2>1 DEF Rows
  <2> HIDE DEF moved
  <2>5. /\ freed \in Rows /\ freed.status = s /\ freed.analyst = Loaded(r).analyst
        /\ freed.data = Loaded(r).data /\ freed.translations = Loaded(r).translations
    BY <2>4 DEF Rows
  <2> HIDE DEF freed
  <2>6. /\ signed \in Rows /\ signed.status = s /\ signed.analyst = Loaded(r).analyst
        /\ signed.data = Loaded(r).data /\ signed.translations = Loaded(r).translations
        /\ signed.approved_by = by
    BY <2>2, <2>5 DEF Rows
  <2> HIDE DEF signed
  <2>7. Wanted(r) = signed
    <3>1. Wanted(r) = Transitioned(r, Loaded(r))
      BY <1>2 DEF Wanted, Verdict
    <3> QED
      BY <2>3, <3>1
  <2> QED
    BY <1>2, <2>6, <2>7 DEF s, by, Verdict
<1>3. CASE req[r].op = "lock" \/ req[r].op = "unlock"
  <2>1. PICK u \in Users \cup {NULL} : Wanted(r) = [Loaded(r) EXCEPT !.locked_by = u]
    BY <1>1, <1>3 DEF Wanted, Verdict
  <2> QED
    BY <1>1, <1>3, <2>1 DEF Rows, Verdict
<1>4. CASE req[r].op = "edit"
  <2> DEFINE written == [Loaded(r) EXCEPT !.data = req[r].n]
             emptied == [written EXCEPT !.translations = NULL]
  <2>1. Wanted(r) = emptied
    BY <1>4 DEF Wanted, Verdict
  <2>2. /\ written \in Rows /\ written.status = Loaded(r).status
        /\ written.analyst = Loaded(r).analyst /\ written.approved_by = Loaded(r).approved_by
    BY <1>1 DEF Rows
  <2> HIDE DEF written
  <2>3. /\ emptied \in Rows /\ emptied.status = Loaded(r).status
        /\ emptied.analyst = Loaded(r).analyst /\ emptied.approved_by = Loaded(r).approved_by
        /\ emptied.translations = NULL
    BY <2>2 DEF Rows, Translations
  <2> HIDE DEF emptied
  <2> QED
    BY <1>4, <2>1, <2>3 DEF Verdict
<1>5. CASE req[r].op = "translate"
  <2> DEFINE cache == [Cached(Loaded(r)) EXCEPT ![req[r].arg] = Loaded(r).data]
  <2>1. cache \in [Languages -> Nat \cup {NULL}]
    BY <1>1, CachedIsTyped DEF Rows
  <2>2. Wanted(r) = [Loaded(r) EXCEPT !.translations = cache]
    BY <1>5 DEF Wanted, Verdict
  <2>3. cache \in Translations
    BY <2>1 DEF Translations
  <2> HIDE DEF cache
  <2>4. /\ Wanted(r) \in Rows /\ Wanted(r).status = Loaded(r).status
        /\ Wanted(r).analyst = Loaded(r).analyst /\ Wanted(r).data = Loaded(r).data
        /\ Wanted(r).approved_by = Loaded(r).approved_by /\ Wanted(r).translations = cache
    BY <1>1, <2>2, <2>3 DEF Rows
  <2> QED
    BY <1>5, <2>4 DEF cache, Verdict
<1> QED
  BY <1>2, <1>3, <1>4, <1>5 DEF Writing

-----------------------------------------------------------------------------
(* What a step does to the requests and to the maps.                       *)

\* r has just begun; it has loaded the row as it is.
Fresh(r) ==
    /\ UNCHANGED <<map, drawn, feedback, notices>>
    /\ req[r] = IdleRequest
    /\ req'[r].pc = "loaded" /\ User(r)' \in Users
    /\ \/ /\ req'[r].op \in Asked /\ Me(r)' \in Maps /\ map[Me(r)'] # NULL
          /\ Loaded(r)' = map[Me(r)'] /\ Allowed(req'[r].op, User(r)', Loaded(r)')
       \/ /\ req'[r].op = "translate" /\ Me(r)' \in Maps /\ map[Me(r)'] # NULL
          /\ Loaded(r)' = map[Me(r)'] /\ req'[r].arg \in Languages
       \/ /\ req'[r].op = "resolve" /\ req'[r].arg \in FeedbackIds /\ feedback[req'[r].arg] # NULL
          /\ Me(r)' = feedback[req'[r].arg].meaning_map
       \/ /\ req'[r].op = "generate" /\ Me(r)' = NULL /\ req'[r].arg \in Pericopes

\* r has committed, and owes a notification.
Owing(r) ==
    /\ req[r].pc = "loaded" /\ req[r].op \in Verdict \cup {"feedback", "resolve"}
    /\ req'[r] = [req[r] EXCEPT !.pc = "owes"]

RequestStep(r) == req'[r] = req[r] \/ req'[r] = IdleRequest \/ Fresh(r) \/ Owing(r)

LEMMA StartIsTyped ==
    ASSUME MapTypeOK, NEW r \in Requests, NEW op \in Ops, NEW u \in Users,
           NEW m \in Maps \cup {NULL}, NEW loaded \in Rows \cup {NULL},
           NEW arg \in Languages \cup FeedbackIds \cup Pericopes \cup {NULL},
           Start(r, op, u, m, loaded, arg)
    PROVE  /\ req' \in [Requests -> Requested]
           /\ req'[r] = [pc |-> "loaded", op |-> op, user |-> u, map |-> m,
                         n |-> begun + 1, loaded |-> loaded, arg |-> arg]
           /\ \A q \in Requests \ {r} : req'[q] = req[q]
           /\ begun' \in Nat
<1>1. begun + 1 \in Nat
  BY DEF MapTypeOK
<1>2. [pc |-> "loaded", op |-> op, user |-> u, map |-> m, n |-> begun + 1,
       loaded |-> loaded, arg |-> arg] \in Requested
  BY <1>1 DEF Requested
<1> QED
  BY <1>1, <1>2 DEF Start, MapTypeOK, Requested

LEMMA BeginsStep ==
    ASSUME MapTypeOK, NEW r \in Requests, Begins(r)
    PROVE  /\ req' \in [Requests -> Requested] /\ begun' \in Nat
           /\ Fresh(r) /\ \A q \in Requests \ {r} : req'[q] = req[q]
<1>1. CASE Begin(r)
  <2>1. PICK op \in Asked, u \in Analysts, m \in Maps :
          /\ map[m] # NULL /\ Allowed(op, u, map[m])
          /\ Start(r, op, u, m, map[m], NULL)
    BY <1>1 DEF Begin, Asked
  <2>2. map[m] \in Rows
    BY <2>1 DEF MapTypeOK
  <2>3. op \in Ops /\ u \in Users
    BY DEF Asked, Ops, Verdict
  <2>4. /\ req' \in [Requests -> Requested] /\ begun' \in Nat
        /\ \A q \in Requests \ {r} : req'[q] = req[q]
        /\ req'[r] = [pc |-> "loaded", op |-> op, user |-> u, map |-> m,
                      n |-> begun + 1, loaded |-> map[m], arg |-> NULL]
    BY <2>1, <2>2, <2>3, StartIsTyped
  <2>5. UNCHANGED <<map, drawn, feedback, notices>> /\ req[r] = IdleRequest
    BY <1>1, <2>1 DEF Begin, Start
  <2> QED
    BY <2>1, <2>3, <2>4, <2>5 DEF Fresh, Me, Loaded, User
<1>2. CASE BeginTranslate(r)
  <2>1. PICK u \in Users, m \in Maps, l \in Languages :
          map[m] # NULL /\ Start(r, "translate", u, m, map[m], l)
    BY <1>2 DEF BeginTranslate
  <2>2. map[m] \in Rows
    BY <2>1 DEF MapTypeOK
  <2>3. /\ req' \in [Requests -> Requested] /\ begun' \in Nat
        /\ \A q \in Requests \ {r} : req'[q] = req[q]
        /\ req'[r] = [pc |-> "loaded", op |-> "translate", user |-> u, map |-> m,
                      n |-> begun + 1, loaded |-> map[m], arg |-> l]
    BY <2>1, <2>2, StartIsTyped DEF Ops
  <2>4. UNCHANGED <<map, drawn, feedback, notices>> /\ req[r] = IdleRequest
    BY <1>2, <2>1 DEF BeginTranslate, Start
  <2> QED
    BY <2>1, <2>3, <2>4 DEF Fresh, Me, Loaded, User
<1>3. CASE BeginResolve(r)
  <2>1. PICK u \in Users, f \in FeedbackIds :
          feedback[f] # NULL /\ Start(r, "resolve", u, feedback[f].meaning_map, NULL, f)
    BY <1>3 DEF BeginResolve
  <2>2. feedback[f].meaning_map \in Maps
    BY <2>1 DEF MapTypeOK, FeedbackRows
  <2>3. /\ req' \in [Requests -> Requested] /\ begun' \in Nat
        /\ \A q \in Requests \ {r} : req'[q] = req[q]
        /\ req'[r] = [pc |-> "loaded", op |-> "resolve", user |-> u,
                      map |-> feedback[f].meaning_map,
                      n |-> begun + 1, loaded |-> NULL, arg |-> f]
    BY <2>1, <2>2, StartIsTyped DEF Ops
  <2>4. UNCHANGED <<map, drawn, feedback, notices>> /\ req[r] = IdleRequest
    BY <1>3, <2>1 DEF BeginResolve, Start
  <2> QED
    BY <2>1, <2>3, <2>4 DEF Fresh, Me, Loaded, User
<1>4. CASE BeginGenerate(r)
  <2>1. PICK u \in Users, p \in Pericopes : Start(r, "generate", u, NULL, NULL, p)
    BY <1>4 DEF BeginGenerate
  <2>2. /\ req' \in [Requests -> Requested] /\ begun' \in Nat
        /\ \A q \in Requests \ {r} : req'[q] = req[q]
        /\ req'[r] = [pc |-> "loaded", op |-> "generate", user |-> u, map |-> NULL,
                      n |-> begun + 1, loaded |-> NULL, arg |-> p]
    BY <2>1, StartIsTyped DEF Ops
  <2>3. UNCHANGED <<map, drawn, feedback, notices>> /\ req[r] = IdleRequest
    BY <1>4, <2>1 DEF BeginGenerate, Start
  <2> QED
    BY <2>1, <2>2, <2>3 DEF Fresh, Me, Loaded, User
<1> QED
  BY <1>1, <1>2, <1>3, <1>4 DEF Begins

LEMMA RequestsStep ==
    ASSUME MapTypeOK, [Next]_vars
    PROVE  /\ req' \in [Requests -> Requested] /\ begun' \in Nat
           /\ \A r \in Requests : RequestStep(r)
<1>1. ASSUME NEW r \in Requests, Begins(r)
      PROVE  /\ req' \in [Requests -> Requested] /\ begun' \in Nat
             /\ \A q \in Requests : RequestStep(q)
  BY <1>1, BeginsStep DEF RequestStep
<1>2. ASSUME NEW r \in Requests, Commits(r) \/ ModelFails(r) \/ Die(r)
      PROVE  /\ req' \in [Requests -> Requested] /\ begun' \in Nat
             /\ \A q \in Requests : RequestStep(q)
  <2>1. CASE End(r)
    <3>1. IdleRequest \in Requested
      BY DEF IdleRequest, Requested
    <3>2. req' \in [Requests -> Requested] /\ \A q \in Requests : RequestStep(q)
      BY <2>1, <3>1 DEF End, MapTypeOK, Requested, RequestStep
    <3> QED
      BY <1>2, <3>2 DEF Commits, CommitSubmit, CommitVerdict, CommitLock, CommitUnlock,
         CommitEdit, CommitTranslate, CommitDelete, CommitFeedback, CommitResolve,
         CommitGenerate, FileNotice, ModelFails, Die, MapTypeOK
  <2>2. CASE /\ Owe(r) /\ req[r].pc = "loaded" /\ begun' = begun
             /\ req[r].op \in Verdict \cup {"feedback", "resolve"}
    <3>1. [req[r] EXCEPT !.pc = "owes"] \in Requested
      BY DEF MapTypeOK, Requested
    <3>2. req' = [req EXCEPT ![r] = [req[r] EXCEPT !.pc = "owes"]]
      BY <2>2 DEF Owe
    <3>3. req' \in [Requests -> Requested] /\ \A q \in Requests : RequestStep(q)
      BY <2>2, <3>1, <3>2 DEF MapTypeOK, Requested, RequestStep, Owing
    <3> QED
      BY <2>2, <3>3 DEF MapTypeOK
  <2> QED
    BY <1>2, <2>1, <2>2 DEF Commits, CommitSubmit, CommitVerdict, CommitLock, CommitUnlock,
       CommitEdit, CommitTranslate, CommitDelete, CommitFeedback, CommitResolve,
       CommitGenerate, FileNotice, ModelFails, Die, Is
<1>3. CASE UNCHANGED <<req, begun>>
  BY <1>3 DEF MapTypeOK, Requested, RequestStep
<1> QED
  BY <1>1, <1>2, <1>3 DEF Next, MarkAsRead, MarkAllAsRead, vars

\* r writes its row.
Writes(r) ==
    /\ req[r].pc = "loaded" /\ req[r].op \in Writing
    /\ Write(r, Wanted(r))
    /\ req'[r] # req[r]
    /\ UNCHANGED <<drawn, feedback, notices>>

LEMMA MapsStep ==
    ASSUME MapTypeOK, RequestsAreReal, [Next]_vars
    PROVE  \/ UNCHANGED <<map, drawn>>
           \/ \E r \in Requests : Writes(r) \/ CommitDelete(r) \/ CommitGenerate(r)
<1>1. ASSUME NEW r \in Requests,
             \/ CommitSubmit(r) \/ CommitVerdict(r) \/ CommitLock(r)
             \/ CommitUnlock(r) \/ CommitEdit(r) \/ CommitTranslate(r)
      PROVE  Writes(r)
  <2>1. /\ req[r].pc = "loaded" /\ req[r].op \in Writing
        /\ UNCHANGED <<drawn, feedback, notices>>
    BY <1>1 DEF CommitSubmit, CommitVerdict, CommitLock, CommitUnlock, CommitEdit,
       CommitTranslate, Is, Writing, Verdict
  <2>2. Write(r, Wanted(r))
    BY <1>1 DEF CommitSubmit, CommitVerdict, CommitLock, CommitUnlock, CommitEdit,
       CommitTranslate, Is, Wanted, Verdict
  <2>3. req'[r].pc # "loaded"
    BY <1>1 DEF CommitSubmit, CommitVerdict, CommitLock, CommitUnlock, CommitEdit,
       CommitTranslate, End, Owe, MapTypeOK, IdleRequest
  <2> QED
    BY <2>1, <2>2, <2>3 DEF Writes
<1> QED
  BY <1>1 DEF Next, Begins, Begin, BeginTranslate, BeginResolve, BeginGenerate, Commits,
     CommitFeedback, CommitResolve, FileNotice, ModelFails, Die, MarkAsRead, MarkAllAsRead,
     vars

\* What a write makes of the row, if it is still there.
LEMMA WriteEffect ==
    ASSUME MapTypeOK, RequestsAreReal, NEW r \in Requests, Writes(r)
    PROVE  /\ Me(r) \in Maps /\ Loaded(r) \in Rows
           /\ map' \in [Maps -> Rows \cup {NULL}]
           /\ \A m \in Maps \ {Me(r)} : map'[m] = map[m]
           /\ map[Me(r)] = NULL <=> map'[Me(r)] = NULL
           /\ map[Me(r)] # NULL => map'[Me(r)] = Flush(map[Me(r)], Loaded(r), Wanted(r))
           /\ map[Me(r)] # NULL => map'[Me(r)].analyst = map[Me(r)].analyst
<1>1. Me(r) \in Maps /\ Loaded(r) \in Rows
  BY DEF Writes, Writing, RequestsAreReal, Real, Asked, Verdict, Ops, MapTypeOK
<1>2. Wanted(r) \in Rows /\ Wanted(r).analyst = Loaded(r).analyst
  BY WantedColumns DEF Writes
<1> DEFINE row == IF map[Me(r)] = NULL THEN NULL ELSE Flush(map[Me(r)], Loaded(r), Wanted(r))
<1>3. map' = [map EXCEPT ![Me(r)] = row]
  BY DEF Writes, Write
<1>4. CASE map[Me(r)] = NULL
  <2>1. row = NULL
    BY <1>4
  <2> HIDE DEF row
  <2> QED
    BY <1>1, <1>3, <1>4, <2>1 DEF MapTypeOK
<1>5. CASE map[Me(r)] # NULL
  <2>1. map[Me(r)] \in Rows
    BY <1>1, <1>5 DEF MapTypeOK
  <2>2. row = Flush(map[Me(r)], Loaded(r), Wanted(r))
    BY <1>5
  <2>3. row \in Rows /\ row.analyst = map[Me(r)].analyst
    <3>1. row \in Rows
      BY <1>1, <1>2, <2>1, <2>2, FlushIsTyped
    <3>2. row.analyst = IF Wanted(r).analyst = Loaded(r).analyst THEN map[Me(r)].analyst
                        ELSE Wanted(r).analyst
      BY <1>1, <1>2, <2>1, <2>2, FlushedColumns
    <3> QED
      BY <1>2, <3>1, <3>2
  <2> HIDE DEF row
  <2>4. map' \in [Maps -> Rows \cup {NULL}] /\ map'[Me(r)] = row
        /\ \A m \in Maps \ {Me(r)} : map'[m] = map[m]
    BY <1>1, <1>3, <2>3 DEF MapTypeOK
  <2> QED
    BY <1>1, <1>5, <2>2, <2>3, <2>4
<1> QED
  BY <1>4, <1>5

LEMMA GenerateEffect ==
    ASSUME MapTypeOK, RequestsAreReal, NEW r \in Requests, CommitGenerate(r)
    PROVE  \E m \in Maps \ drawn :
              /\ map' = [map EXCEPT ![m] = NewMap(req[r].arg, User(r), req[r].n)]
              /\ drawn' = drawn \cup {m}
              /\ map'[m] \in Rows /\ map'[m].status = "draft" /\ map'[m].approved_by = NULL
              /\ map'[m].analyst \in Users /\ map'[m].translations = NULL
<1>1. req[r].arg \in Pericopes /\ User(r) \in Users /\ req[r].n \in Nat
  BY DEF CommitGenerate, Is, RequestsAreReal, Real, MapTypeOK
<1>2. PICK m \in Maps \ drawn :
        /\ map' = [map EXCEPT ![m] = NewMap(req[r].arg, User(r), req[r].n)]
        /\ drawn' = drawn \cup {m}
  BY DEF CommitGenerate
<1>3. map'[m] = NewMap(req[r].arg, User(r), req[r].n)
  BY <1>2 DEF MapTypeOK
<1> QED
  <2> DEFINE row == NewMap(req[r].arg, User(r), req[r].n)
  <2>1. /\ row \in Rows /\ row.status = "draft" /\ row.approved_by = NULL
        /\ row.analyst = User(r) /\ row.translations = NULL
    BY <1>1, NewMapIsTyped
  <2> HIDE DEF row
  <2>2. map'[m] = row
    BY <1>3 DEF row
  <2> QED
    BY <1>1, <1>2, <2>1, <2>2

LEMMA RowsStep ==
    ASSUME MapTypeOK, RequestsAreReal, MapsAreDrawn, [Next]_vars
    PROVE  /\ map' \in [Maps -> Rows \cup {NULL}]
           /\ drawn \subseteq drawn' /\ drawn' \subseteq Maps
           /\ MapsAreDrawn'
           /\ \A m \in Maps : map[m] # NULL /\ map'[m] = NULL =>
                \E r \in Requests : CommitDelete(r) /\ Me(r) = m
<1>1. CASE UNCHANGED <<map, drawn>>
  BY <1>1 DEF MapTypeOK, MapsAreDrawn
<1>2. ASSUME NEW r \in Requests, Writes(r)
      PROVE  /\ map' \in [Maps -> Rows \cup {NULL}] /\ drawn' = drawn
             /\ \A m \in Maps : map[m] = NULL <=> map'[m] = NULL
  BY <1>2, WriteEffect DEF Writes
<1>3. ASSUME NEW r \in Requests, CommitDelete(r)
      PROVE  /\ map' \in [Maps -> Rows \cup {NULL}] /\ drawn' = drawn
             /\ \A m \in Maps : m # Me(r) => map'[m] = map[m]
             /\ \A m \in Maps : m = Me(r) => map'[m] = NULL
  BY <1>3 DEF CommitDelete, MapTypeOK
<1>4. ASSUME NEW r \in Requests, CommitGenerate(r)
      PROVE  /\ map' \in [Maps -> Rows \cup {NULL}]
             /\ drawn \subseteq drawn' /\ drawn' \subseteq Maps
             /\ MapsAreDrawn' /\ \A m \in Maps : map[m] # NULL => map'[m] # NULL
  <2>1. PICK m \in Maps \ drawn :
          /\ map' = [map EXCEPT ![m] = NewMap(req[r].arg, User(r), req[r].n)]
          /\ drawn' = drawn \cup {m} /\ map'[m] \in Rows
    BY <1>4, GenerateEffect
  <2>2. \A k \in Maps \ {m} : map'[k] = map[k]
    BY <2>1 DEF MapTypeOK
  <2> QED
    BY <2>1, <2>2 DEF MapTypeOK, MapsAreDrawn
<1>5. \/ UNCHANGED <<map, drawn>>
      \/ \E r \in Requests : Writes(r) \/ CommitDelete(r) \/ CommitGenerate(r)
  BY MapsStep
<1> QED
  BY <1>1, <1>2, <1>3, <1>4, <1>5 DEF MapTypeOK, MapsAreDrawn

LEMMA RealStep ==
    ASSUME MapTypeOK, RequestsAreReal, MapsAreDrawn, [Next]_vars
    PROVE  RequestsAreReal'
<1>1. drawn \subseteq drawn'
  BY RowsStep
<1>2. ASSUME NEW r \in Requests, req'[r] = req[r] \/ req'[r] = IdleRequest
      PROVE  Real(r)'
  BY <1>1, <1>2 DEF RequestsAreReal, Real, IdleRequest, Me, User, Loaded, Ops, Asked, Verdict
<1>3. ASSUME NEW r \in Requests, Owing(r)
      PROVE  /\ req'[r].op = req[r].op /\ User(r)' = User(r) /\ Me(r)' = Me(r)
             /\ Loaded(r)' = Loaded(r) /\ req'[r].arg = req[r].arg
  BY <1>3 DEF Owing, MapTypeOK, Me, User, Loaded
<1>4. ASSUME NEW r \in Requests, Fresh(r)
      PROVE  Real(r)'
  <2>1. req'[r].pc = "loaded" /\ User(r)' \in Users /\ drawn' = drawn
    BY <1>4 DEF Fresh
  <2>2. CASE /\ req'[r].op \in Asked \cup {"translate"} /\ Me(r)' \in Maps /\ map[Me(r)'] # NULL
             /\ Loaded(r)' = map[Me(r)']
             /\ req'[r].op \in Asked => Allowed(req'[r].op, User(r)', Loaded(r)')
             /\ req'[r].op = "translate" => req'[r].arg \in Languages
    BY <2>1, <2>2 DEF MapTypeOK, MapsAreDrawn, Asked, Ops, Verdict, Real
  <2>3. CASE /\ req'[r].op = "resolve" /\ req'[r].arg \in FeedbackIds
             /\ feedback[req'[r].arg] # NULL
             /\ Me(r)' = feedback[req'[r].arg].meaning_map
    BY <2>1, <2>3 DEF MapTypeOK, FeedbackRows, MapsAreDrawn, Asked, Ops, Verdict, Real
  <2>4. CASE req'[r].op = "generate" /\ Me(r)' = NULL /\ req'[r].arg \in Pericopes
    BY <2>1, <2>4 DEF Asked, Ops, Verdict, Real
  <2> QED
    BY <1>4, <2>2, <2>3, <2>4 DEF Fresh, Asked
<1>5. ASSUME NEW r \in Requests, Owing(r)
      PROVE  Real(r)'
  BY <1>1, <1>3, <1>5 DEF RequestsAreReal, Real, Owing
<1>6. \A r \in Requests : RequestStep(r)
  BY RequestsStep
<1> QED
  BY <1>2, <1>4, <1>5, <1>6 DEF RequestStep, RequestsAreReal


\* Feedback is about maps there are: a deletion takes it along.
FeedbackFits ==
    /\ feedback \in [FeedbackIds -> FeedbackRows \cup {NULL}]
    /\ \A f \in FeedbackIds : feedback[f] # NULL => map[feedback[f].meaning_map] # NULL

LEMMA FeedbackStep ==
    ASSUME MapTypeOK, RequestsAreReal, MapsAreDrawn, [Next]_vars
    PROVE  FeedbackFits'
<1>0. \A f \in FeedbackIds : feedback[f] # NULL =>
         feedback[f] \in FeedbackRows /\ feedback[f].meaning_map \in Maps
  BY DEF MapTypeOK, FeedbackRows
<1>1. ASSUME NEW r \in Requests, CommitDelete(r)
      PROVE  FeedbackFits'
  <2>1. \A m \in Maps : m # Me(r) => map'[m] = map[m]
    BY <1>1 DEF CommitDelete, MapTypeOK
  <2>2. feedback' = [f \in FeedbackIds |->
          IF feedback[f] # NULL /\ feedback[f].meaning_map = Me(r) THEN NULL ELSE feedback[f]]
    BY <1>1 DEF CommitDelete
  <2> QED
    BY <1>0, <2>1, <2>2 DEF FeedbackFits, MapTypeOK
<1>2. ASSUME NEW r \in Requests, CommitFeedback(r)
      PROVE  FeedbackFits'
  <2>1. map' = map
    BY <1>2 DEF CommitFeedback
  <2>2. CASE UNCHANGED feedback
    BY <2>1, <2>2 DEF FeedbackFits, MapTypeOK
  <2>3. CASE map[Me(r)] # NULL
    <3>1. Me(r) \in Maps /\ User(r) \in Users
      BY <1>2 DEF CommitFeedback, Is, RequestsAreReal, Real, Ops, MapTypeOK
    <3>2. PICK f \in FeedbackIds :
            feedback' = [feedback EXCEPT ![f] =
               [meaning_map |-> Me(r), author |-> User(r), resolved |-> FALSE]]
      BY <1>2, <2>3 DEF CommitFeedback
    <3> DEFINE row == [meaning_map |-> Me(r), author |-> User(r), resolved |-> FALSE]
    <3>3. row \in FeedbackRows /\ row.meaning_map = Me(r)
      BY <3>1 DEF FeedbackRows
    <3> HIDE DEF row
    <3>4. feedback' = [feedback EXCEPT ![f] = row]
      BY <3>2 DEF row
    <3> QED
      BY <1>0, <2>1, <2>3, <3>3, <3>4 DEF FeedbackFits, MapTypeOK
  <2> QED
    BY <1>2, <2>2, <2>3 DEF CommitFeedback
<1>3. ASSUME NEW r \in Requests, CommitResolve(r)
      PROVE  FeedbackFits'
  <2>1. map' = map
    BY <1>3 DEF CommitResolve
  <2>2. CASE UNCHANGED feedback
    BY <2>1, <2>2 DEF FeedbackFits, MapTypeOK
  <2>3. CASE /\ feedback[req[r].arg] # NULL
             /\ feedback' = [feedback EXCEPT ![req[r].arg].resolved = TRUE]
    <3>1. \A f \in FeedbackIds : feedback[f] # NULL =>
             /\ [feedback[f] EXCEPT !.resolved = TRUE] \in FeedbackRows
             /\ [feedback[f] EXCEPT !.resolved = TRUE].meaning_map = feedback[f].meaning_map
      BY <1>0 DEF FeedbackRows
    <3>2. \A f \in FeedbackIds :
             \/ feedback'[f] = feedback[f]
             \/ feedback[f] # NULL /\ feedback'[f] = [feedback[f] EXCEPT !.resolved = TRUE]
      BY <2>3 DEF MapTypeOK
    <3>3. feedback' = [f \in FeedbackIds |-> feedback'[f]]
      BY <2>3 DEF MapTypeOK
    <3>4. ASSUME NEW f \in FeedbackIds
          PROVE  /\ feedback'[f] \in FeedbackRows \cup {NULL}
                 /\ feedback'[f] # NULL => map[feedback'[f].meaning_map] # NULL
      BY <3>1, <3>2 DEF MapTypeOK
    <3> QED
      BY <2>1, <3>3, <3>4 DEF FeedbackFits
  <2> QED
    BY <1>3, <2>2, <2>3 DEF CommitResolve
<1>4. CASE UNCHANGED feedback /\ \A m \in Maps : map[m] # NULL => map'[m] # NULL
  BY <1>0, <1>4 DEF FeedbackFits, MapTypeOK
<1>5. \/ UNCHANGED feedback
      \/ \E r \in Requests : CommitDelete(r) \/ CommitFeedback(r) \/ CommitResolve(r)
  BY DEF Next, Begins, Begin, BeginTranslate, BeginResolve, BeginGenerate, Commits,
     CommitSubmit, CommitVerdict, CommitLock, CommitUnlock, CommitEdit, CommitTranslate,
     CommitGenerate, FileNotice, ModelFails, Die, MarkAsRead, MarkAllAsRead, vars
<1> QED
  BY <1>1, <1>2, <1>3, <1>4, <1>5, RowsStep

\* Notifications are about maps there are, or about none: a deletion unties them.
NoticesFit ==
    /\ notices \subseteq Notices
    /\ \A x \in notices : x.related_map # NULL => map[x.related_map] # NULL

LEMMA NoticesStep ==
    ASSUME MapTypeOK, RequestsAreReal, MapsAreDrawn, [Next]_vars
    PROVE  NoticesFit'
<1>0. \A x \in notices : x \in Notices /\ x.related_map \in Maps \cup {NULL}
  BY DEF MapTypeOK, Notices
<1>1. ASSUME NEW r \in Requests, CommitDelete(r)
      PROVE  NoticesFit'
  <2>1. \A m \in Maps : m # Me(r) => map'[m] = map[m]
    BY <1>1 DEF CommitDelete, MapTypeOK
  <2>2. \A x \in Notices : /\ [x EXCEPT !.related_map = NULL] \in Notices
                           /\ [x EXCEPT !.related_map = NULL].related_map = NULL
    BY DEF Notices
  <2>3. notices' = {IF x.related_map = Me(r) THEN [x EXCEPT !.related_map = NULL] ELSE x
                      : x \in notices}
    BY <1>1 DEF CommitDelete
  <2>4. \A y \in notices' : \/ y \in notices /\ y.related_map # Me(r)
                            \/ y \in Notices /\ y.related_map = NULL
    <3> SUFFICES ASSUME NEW x \in notices,
                        NEW y, y = IF x.related_map = Me(r)
                                   THEN [x EXCEPT !.related_map = NULL] ELSE x
                 PROVE  \/ y \in notices /\ y.related_map # Me(r)
                        \/ y \in Notices /\ y.related_map = NULL
      BY <2>3
    <3>1. CASE x.related_map = Me(r)
      BY <1>0, <2>2, <3>1
    <3>2. CASE x.related_map # Me(r)
      BY <3>2
    <3> QED
      BY <3>1, <3>2
  <2> QED
    BY <1>0, <2>1, <2>4 DEF NoticesFit, MapTypeOK
<1>2. ASSUME NEW r \in Requests, FileNotice(r)
      PROVE  NoticesFit'
  <2>1. map' = map
    BY <1>2 DEF FileNotice
  <2>2. CASE map[Me(r)] = NULL
    BY <1>2, <2>1, <2>2 DEF FileNotice, NoticesFit, MapTypeOK
  <2>3. CASE map[Me(r)] # NULL
    <3>1. req[r].op \in Verdict \cup {"feedback", "resolve"}
      BY <1>2 DEF FileNotice, RequestsAreReal, Real
    <3>2. /\ User(r) \in Users /\ Me(r) \in Maps
      BY <3>1 DEF RequestsAreReal, Real, Verdict, Ops, MapTypeOK
    <3>3. req[r].n \in Nat /\ map[Me(r)].analyst \in Users
      BY <2>3, <3>2 DEF MapTypeOK, Rows
    <3>4. Told(r) \subseteq Users
      <4>1. CASE req[r].op = "resolve"
        <5>1. \A f \in {g \in {req[r].arg} : feedback[g] # NULL} : feedback[f].author \in Users
          <6>1. req[r].arg \in FeedbackIds
            BY <4>1 DEF RequestsAreReal, Real
          <6> QED
            BY <4>1, <6>1 DEF MapTypeOK, FeedbackRows
        <5> QED
          BY <4>1, <5>1 DEF Told
      <4>2. CASE req[r].op # "resolve"
        BY <3>3, <4>2 DEF Told
      <4> QED
        BY <4>1, <4>2
    <3>5. \A u \in Told(r) :
             [n |-> req[r].n, user |-> u, event |-> req[r].op, actor |-> User(r),
              related_map |-> Me(r), is_read |-> FALSE] \in Notices
      BY <3>1, <3>2, <3>3, <3>4 DEF Notices
    <3>6. notices' = notices \cup
            {[n |-> req[r].n, user |-> u, event |-> req[r].op, actor |-> User(r),
              related_map |-> Me(r), is_read |-> FALSE] : u \in Told(r)}
      BY <1>2, <2>3 DEF FileNotice
    <3> QED
      BY <2>1, <2>3, <3>5, <3>6 DEF NoticesFit, MapTypeOK
  <2> QED
    BY <2>2, <2>3
<1>3. ASSUME NEW u \in Users, MarkAsRead(u) \/ MarkAllAsRead(u)
      PROVE  NoticesFit'
  <2>1. map' = map
    BY <1>3 DEF MarkAsRead, MarkAllAsRead
  <2>2. \A x \in Notices : /\ [x EXCEPT !.is_read = TRUE] \in Notices
                           /\ [x EXCEPT !.is_read = TRUE].related_map = x.related_map
    BY DEF Notices
  <2>3. \A y \in notices' : \/ y \in notices
                            \/ \E x \in notices : y = [x EXCEPT !.is_read = TRUE]
    BY <1>3 DEF MarkAsRead, MarkAllAsRead
  <2> QED
    <3>1. ASSUME NEW y \in notices'
          PROVE  y \in Notices /\ (y.related_map # NULL => map[y.related_map] # NULL)
      <4>1. CASE y \in notices
        BY <1>0, <4>1 DEF MapTypeOK
      <4>2. ASSUME NEW x \in notices, y = [x EXCEPT !.is_read = TRUE]
            PROVE  y \in Notices /\ (y.related_map # NULL => map[y.related_map] # NULL)
        BY <1>0, <2>2, <4>2 DEF MapTypeOK
      <4> QED
        BY <2>3, <4>1, <4>2
    <3> QED
      BY <2>1, <3>1 DEF NoticesFit
<1>4. CASE UNCHANGED notices /\ \A m \in Maps : map[m] # NULL => map'[m] # NULL
  BY <1>0, <1>4 DEF NoticesFit, MapTypeOK
<1>5. \/ UNCHANGED notices
      \/ \E r \in Requests : CommitDelete(r) \/ FileNotice(r)
      \/ \E u \in Users : MarkAsRead(u) \/ MarkAllAsRead(u)
  BY DEF Next, Begins, Begin, BeginTranslate, BeginResolve, BeginGenerate, Commits,
     CommitSubmit, CommitVerdict, CommitLock, CommitUnlock, CommitEdit, CommitTranslate,
     CommitFeedback, CommitResolve, CommitGenerate, ModelFails, Die, vars
<1> QED
  BY <1>1, <1>2, <1>3, <1>4, <1>5, RowsStep


LEMMA TypeStep ==
    ASSUME MapTypeOK, RequestsAreReal, MapsAreDrawn, [Next]_vars
    PROVE  MapTypeOK'
<1>1. /\ map' \in [Maps -> Rows \cup {NULL}] /\ drawn' \subseteq Maps
      /\ req' \in [Requests -> Requested] /\ begun' \in Nat
      /\ FeedbackFits' /\ NoticesFit'
  BY RowsStep, RequestsStep, FeedbackStep, NoticesStep
<1>2. verdicts' \subseteq [n : Nat, event : Verdict, map : Maps]
  <2>1. ASSUME NEW r \in Requests, CommitVerdict(r)
        PROVE  verdicts' \subseteq [n : Nat, event : Verdict, map : Maps]
    <3>1. req[r].op \in Verdict /\ Me(r) \in Maps /\ req[r].n \in Nat
      BY <2>1 DEF CommitVerdict, RequestsAreReal, Real, Ops, Verdict, MapTypeOK
    <3> QED
      BY <2>1, <3>1 DEF CommitVerdict, MapTypeOK
  <2>2. UNCHANGED verdicts \/ \E r \in Requests : CommitVerdict(r)
    BY DEF Next, Begins, Begin, BeginTranslate, BeginResolve, BeginGenerate, Commits,
       CommitSubmit, CommitLock, CommitUnlock, CommitEdit, CommitTranslate, CommitDelete,
       CommitFeedback, CommitResolve, CommitGenerate, FileNotice, ModelFails, Die,
       MarkAsRead, MarkAllAsRead, vars
  <2> QED
    BY <2>1, <2>2 DEF MapTypeOK
<1>3. crossed' \subseteq Maps /\ died' \in BOOLEAN
  <2>1. crossed' \subseteq crossed \cup Maps
    BY DEF Next, Begins, Begin, BeginTranslate, BeginResolve, BeginGenerate, Commits,
       CommitSubmit, CommitVerdict, CommitLock, CommitUnlock, CommitEdit, CommitTranslate,
       CommitDelete, CommitFeedback, CommitResolve, CommitGenerate, FileNotice, ModelFails,
       Die, MarkAsRead, MarkAllAsRead, vars
  <2>2. died' = died \/ died' = TRUE
    BY DEF Next, Begins, Begin, BeginTranslate, BeginResolve, BeginGenerate, Commits,
       CommitSubmit, CommitVerdict, CommitLock, CommitUnlock, CommitEdit, CommitTranslate,
       CommitDelete, CommitFeedback, CommitResolve, CommitGenerate, FileNotice, ModelFails,
       Die, MarkAsRead, MarkAllAsRead, vars
  <2> QED
    BY <2>1, <2>2 DEF MapTypeOK
<1> QED
  BY <1>1, <1>2, <1>3 DEF MapTypeOK, Requested, FeedbackFits, NoticesFit

-----------------------------------------------------------------------------
(* Four eyes.                                                              *)

\* The columns of an approval, in the row a request writes.
LEMMA WriteColumns ==
    ASSUME MapTypeOK, RequestsAreReal, NEW r \in Requests, Writes(r), map[Me(r)] # NULL
    PROVE  /\ map'[Me(r)].analyst = map[Me(r)].analyst
           /\ map'[Me(r)].approved_by =
                IF req[r].op = "approve" /\ User(r) # Loaded(r).approved_by
                THEN User(r) ELSE map[Me(r)].approved_by
           /\ map'[Me(r)].status \in
                IF req[r].op \in Verdict \cup {"submit"} THEN {To(req[r].op)}
                ELSE {map[Me(r)].status}
           /\ req[r].op # "edit" => map'[Me(r)].data = map[Me(r)].data
<1>1. /\ Me(r) \in Maps /\ Loaded(r) \in Rows /\ Wanted(r) \in Rows /\ map[Me(r)] \in Rows
      /\ map'[Me(r)] = Flush(map[Me(r)], Loaded(r), Wanted(r))
      /\ map'[Me(r)].analyst = map[Me(r)].analyst
  BY WriteEffect, WantedColumns DEF Writes, MapTypeOK
<1>2. /\ map'[Me(r)].status = IF Wanted(r).status = Loaded(r).status THEN map[Me(r)].status
                              ELSE Wanted(r).status
      /\ map'[Me(r)].approved_by = IF Wanted(r).approved_by = Loaded(r).approved_by
                                   THEN map[Me(r)].approved_by ELSE Wanted(r).approved_by
      /\ map'[Me(r)].data = IF Wanted(r).data = Loaded(r).data THEN map[Me(r)].data
                            ELSE Wanted(r).data
  BY <1>1, FlushedColumns
<1>3. map'[Me(r)].approved_by =
        IF req[r].op = "approve" /\ User(r) # Loaded(r).approved_by
        THEN User(r) ELSE map[Me(r)].approved_by
  BY <1>2, WantedColumns DEF Writes
<1>4. req[r].op \in Verdict \cup {"submit"} => To(req[r].op) # Loaded(r).status
  <2>1. req[r].op \in Verdict \cup {"submit"} => MayTransition(req[r].op, User(r), Loaded(r))
    BY DEF RequestsAreReal, Real, Allowed, Asked, Verdict
  <2> QED
    BY <2>1 DEF MayTransition, From, To, Verdict
<1>5. map'[Me(r)].status \in IF req[r].op \in Verdict \cup {"submit"} THEN {To(req[r].op)}
                             ELSE {map[Me(r)].status}
  BY <1>2, <1>4, WantedColumns DEF Writes
<1> QED
  BY <1>1, <1>2, <1>3, <1>5, WantedColumns DEF Writes

\* Whoever asks to approve has loaded a map of another's.
LEMMA ApproverIsOther ==
    ASSUME RequestsAreReal, NEW r \in Requests, req[r].op = "approve"
    PROVE  User(r) # Loaded(r).analyst /\ User(r) \in Users
BY DEF RequestsAreReal, Real, Asked, Allowed, MayTransition, Verdict

LEMMA ApproversStep ==
    ASSUME MapTypeOK, RequestsAreReal, MapsAreDrawn, ColumnsStand, ApproversAreOthers,
           [Next]_vars
    PROVE  ApproversAreOthers'
<1>1. ASSUME NEW r \in Requests, Writes(r)
      PROVE  ApproversAreOthers'
  <2>1. /\ Me(r) \in Maps /\ \A m \in Maps \ {Me(r)} : map'[m] = map[m]
        /\ map[Me(r)] = NULL <=> map'[Me(r)] = NULL
    BY <1>1, WriteEffect
  <2>2. ASSUME map[Me(r)] # NULL
        PROVE  /\ map'[Me(r)].approved_by # map'[Me(r)].analyst
               /\ map'[Me(r)].status = "approved" => map'[Me(r)].approved_by # NULL
    <3>1. /\ map[Me(r)].approved_by # map[Me(r)].analyst
          /\ map[Me(r)].status = "approved" => map[Me(r)].approved_by # NULL
      BY <2>1, <2>2 DEF ApproversAreOthers
    <3>2. CASE req[r].op = "approve"
      <4>1. /\ map[Me(r)].analyst = Loaded(r).analyst
            /\ Loaded(r).approved_by # NULL => map[Me(r)].approved_by # NULL
        BY <2>2, <3>2 DEF ColumnsStand, Asked
      <4> QED
        BY <1>1, <2>2, <3>1, <3>2, <4>1, WriteColumns, ApproverIsOther
    <3>3. CASE req[r].op # "approve"
      <4>1. req[r].op \in Verdict \cup {"submit"} => To(req[r].op) # "approved"
        BY <3>3 DEF To, Verdict
      <4> QED
        BY <1>1, <2>2, <3>1, <3>3, <4>1, WriteColumns
    <3> QED
      BY <3>2, <3>3
  <2> QED
    BY <2>1, <2>2 DEF ApproversAreOthers
<1>2. ASSUME NEW r \in Requests, CommitDelete(r)
      PROVE  ApproversAreOthers'
  BY <1>2 DEF CommitDelete, MapTypeOK, ApproversAreOthers
<1>3. ASSUME NEW r \in Requests, CommitGenerate(r)
      PROVE  ApproversAreOthers'
  <2>1. PICK m \in Maps \ drawn :
          /\ map' = [map EXCEPT ![m] = NewMap(req[r].arg, User(r), req[r].n)]
          /\ map'[m].status = "draft" /\ map'[m].approved_by = NULL
          /\ map'[m].analyst \in Users
    BY <1>3, GenerateEffect
  <2>2. \A k \in Maps \ {m} : map'[k] = map[k]
    BY <2>1 DEF MapTypeOK
  <2> QED
    BY <2>1, <2>2 DEF ApproversAreOthers
<1> QED
  BY <1>1, <1>2, <1>3, MapsStep DEF ApproversAreOthers

\* What a request has loaded of the analyst and the approver stands until it ends.
LEMMA ColumnsStep ==
    ASSUME MapTypeOK, RequestsAreReal, MapsAreDrawn, ColumnsStand, [Next]_vars
    PROVE  ColumnsStand'
<1> SUFFICES ASSUME NEW r \in Requests, req'[r].op \in Asked \cup {"translate"},
                    map'[Me(r)'] # NULL
             PROVE  /\ map'[Me(r)'].analyst = Loaded(r)'.analyst
                    /\ Loaded(r)'.approved_by # NULL => map'[Me(r)'].approved_by # NULL
  BY DEF ColumnsStand
<1>1. RequestStep(r)
  BY RequestsStep
<1>2. CASE Fresh(r)
  BY <1>2 DEF Fresh, Asked
<1>3. req'[r] # IdleRequest
  BY DEF IdleRequest, Asked
<1>4. CASE /\ req'[r].op = req[r].op /\ Me(r)' = Me(r) /\ Loaded(r)' = Loaded(r)
  <2>1. Me(r) \in drawn /\ Me(r) \in Maps
    BY <1>4 DEF RequestsAreReal, Real, Asked, Ops, Verdict, MapTypeOK
  <2>2. /\ map[Me(r)] # NULL
        /\ map'[Me(r)].analyst = map[Me(r)].analyst
        /\ map[Me(r)].approved_by # NULL => map'[Me(r)].approved_by # NULL
    <3>1. CASE UNCHANGED map
      BY <1>4, <3>1
    <3>2. ASSUME NEW q \in Requests, Writes(q)
          PROVE  /\ map[Me(r)] # NULL
                 /\ map'[Me(r)].analyst = map[Me(r)].analyst
                 /\ map[Me(r)].approved_by # NULL => map'[Me(r)].approved_by # NULL
      <4>1. CASE Me(q) = Me(r)
        <5>1. map[Me(q)] # NULL
          BY <1>4, <3>2, <4>1, WriteEffect
        <5>2. req[q].op = "approve" => User(q) # NULL
          BY ApproverIsOther
        <5> QED
          BY <3>2, <4>1, <5>1, <5>2, WriteColumns
      <4>2. CASE Me(q) # Me(r)
        BY <1>4, <2>1, <3>2, <4>2, WriteEffect
      <4> QED
        BY <4>1, <4>2
    <3>3. ASSUME NEW q \in Requests, CommitDelete(q)
          PROVE  map'[Me(r)] = map[Me(r)]
      BY <1>4, <2>1, <3>3 DEF CommitDelete, MapTypeOK
    <3>4. ASSUME NEW q \in Requests, CommitGenerate(q)
          PROVE  map'[Me(r)] = map[Me(r)]
      BY <2>1, <3>4 DEF CommitGenerate, MapTypeOK
    <3> QED
      BY <1>4, <3>1, <3>2, <3>3, <3>4, MapsStep
  <2> QED
    BY <1>4, <2>2 DEF ColumnsStand
<1>5. CASE Owing(r)
  BY <1>4, <1>5 DEF Owing, MapTypeOK, Me, Loaded
<1>6. CASE req'[r] = req[r]
  BY <1>4, <1>6 DEF Me, Loaded
<1> QED
  BY <1>1, <1>2, <1>3, <1>5, <1>6 DEF RequestStep

-----------------------------------------------------------------------------
(* Translations.                                                           *)

\* An edit or a translation that is in flight after a step was before it, or has
\* just begun, and then none of the other kind is in flight on its map unless
\* they are known to have crossed.
LEMMA WaitingStep ==
    ASSUME MapTypeOK, [Next]_vars, NEW r \in Requests, req'[r].op \in {"edit", "translate"}
    PROVE  \/ req'[r] = req[r]
           \/ /\ Fresh(r) /\ Loaded(r)' = map[Me(r)']
              /\ \A q \in Requests \ {r} : req'[q] = req[q]
              /\ Me(r)' \notin crossed' =>
                   /\ req'[r].op = "edit" =>
                        ~\E q \in Requests : req[q].map = Me(r)' /\ req[q].op = "translate"
                   /\ req'[r].op = "translate" =>
                        ~\E q \in Requests : req[q].map = Me(r)' /\ req[q].op = "edit"
<1>1. CASE Fresh(r)
  <2>1. req'[r] # req[r]
    BY <1>1 DEF Fresh, IdleRequest
  <2>2. Begins(r)
    <3>1. \E q \in Requests : Begins(q)
      <4>1. req[r].op = "none" /\ req'[r].op # "none"
        BY <1>1 DEF Fresh, IdleRequest
      <4>2. ASSUME NEW q \in Requests, End(q) \/ Owe(q)
            PROVE  req'[r] \in {req[r], IdleRequest, [req[r] EXCEPT !.pc = "owes"]}
        BY <4>2 DEF End, Owe, MapTypeOK
      <4>3. req'[r] \notin {req[r], IdleRequest, [req[r] EXCEPT !.pc = "owes"]}
        BY <4>1 DEF IdleRequest, MapTypeOK
      <4> QED
        BY <2>1, <4>2, <4>3 DEF Next, Commits, CommitSubmit, CommitVerdict, CommitLock,
           CommitUnlock, CommitEdit, CommitTranslate, CommitDelete, CommitFeedback,
           CommitResolve, CommitGenerate, FileNotice, ModelFails, Die, MarkAsRead,
           MarkAllAsRead, vars
    <3> QED
      BY <2>1, <3>1, BeginsStep
  <2>3. \A q \in Requests \ {r} : req'[q] = req[q]
    BY <2>2, BeginsStep
  <2>4. Loaded(r)' = map[Me(r)']
    BY <1>1 DEF Fresh
  <2>5. ASSUME Me(r)' \notin crossed', req'[r].op = "edit"
        PROVE  ~\E q \in Requests : req[q].map = Me(r)' /\ req[q].op = "translate"
    <3>1. Begin(r)
      BY <2>2, <2>5 DEF Begins, BeginTranslate, BeginResolve, BeginGenerate, Start, MapTypeOK
    <3> QED
      BY <2>5, <3>1 DEF Begin, Start, MapTypeOK, Me
  <2>6. ASSUME Me(r)' \notin crossed', req'[r].op = "translate"
        PROVE  ~\E q \in Requests : req[q].map = Me(r)' /\ req[q].op = "edit"
    <3>1. BeginTranslate(r)
      BY <2>2, <2>6 DEF Begins, Begin, BeginResolve, BeginGenerate, Start, MapTypeOK
    <3> QED
      BY <2>6, <3>1 DEF BeginTranslate, Start, MapTypeOK, Me
  <2> QED
    BY <1>1, <2>3, <2>4, <2>5, <2>6
<1>2. CASE req'[r] = IdleRequest \/ Owing(r)
  BY <1>2 DEF IdleRequest, Owing, Verdict, MapTypeOK
<1> QED
  BY <1>1, <1>2, RequestsStep DEF RequestStep

LEMMA CrossedGrows ==
    ASSUME [Next]_vars
    PROVE  crossed \subseteq crossed'
BY DEF Next, Begins, Begin, BeginTranslate, BeginResolve, BeginGenerate, Commits,
   CommitSubmit, CommitVerdict, CommitLock, CommitUnlock, CommitEdit, CommitTranslate,
   CommitDelete, CommitFeedback, CommitResolve, CommitGenerate, FileNotice, ModelFails,
   Die, MarkAsRead, MarkAllAsRead, vars

\* What a write does to the text and the cache of its map.
LEMMA WriteText ==
    ASSUME MapTypeOK, RequestsAreReal, WaitsAreApart, NEW r \in Requests, Writes(r),
           map[Me(r)] # NULL, Me(r) \notin crossed
    PROVE  /\ OfTheText(map'[Me(r)])
           /\ req[r].op = "edit" => map'[Me(r)].translations = NULL
           /\ req[r].op # "edit" => map'[Me(r)].data = map[Me(r)].data
           /\ req[r].op \notin {"edit", "translate"} =>
                map'[Me(r)].translations = map[Me(r)].translations
<1>1. /\ Me(r) \in Maps /\ Loaded(r) \in Rows /\ Wanted(r) \in Rows /\ map[Me(r)] \in Rows
      /\ map'[Me(r)] = Flush(map[Me(r)], Loaded(r), Wanted(r))
  BY WriteEffect, WantedColumns DEF Writes, MapTypeOK
<1>2. /\ map'[Me(r)].data = IF Wanted(r).data = Loaded(r).data THEN map[Me(r)].data
                            ELSE Wanted(r).data
      /\ map'[Me(r)].translations =
           IF Wanted(r).translations = Loaded(r).translations THEN map[Me(r)].translations
           ELSE Wanted(r).translations
  BY <1>1, FlushedColumns
<1>3. OfTheText(map[Me(r)])
  BY <1>1 DEF WaitsAreApart
<1>4. req[r].op # "edit" => map'[Me(r)].data = map[Me(r)].data
  BY <1>2, WantedColumns DEF Writes
<1>5. CASE req[r].op = "edit"
  <2>1. Loaded(r).translations = NULL => map[Me(r)].translations = NULL
    BY <1>1, <1>5 DEF WaitsAreApart
  <2>2. map'[Me(r)].translations = NULL
    BY <1>2, <1>5, <2>1, WantedColumns DEF Writes
  <2> QED
    BY <1>5, <2>2 DEF OfTheText
<1>6. CASE req[r].op = "translate"
  <2>1. Loaded(r).data = map[Me(r)].data /\ OfTheText(Loaded(r)) /\ req[r].arg \in Languages
    BY <1>1, <1>6 DEF WaitsAreApart, RequestsAreReal, Real
  <2>2. Wanted(r).translations = [Cached(Loaded(r)) EXCEPT ![req[r].arg] = Loaded(r).data]
    BY <1>6, WantedColumns DEF Writes
  <2>3. Cached(Loaded(r)) \in [Languages -> Nat \cup {NULL}]
    BY <1>1, CachedIsTyped
  <2>4. \A l \in Languages : Cached(Loaded(r))[l] \in {NULL, Loaded(r).data}
    BY <2>1 DEF OfTheText, Cached
  <2>5. \A l \in Languages : Wanted(r).translations[l] \in {NULL, map[Me(r)].data}
    BY <2>1, <2>2, <2>3, <2>4
  <2> QED
    BY <1>2, <1>3, <1>4, <1>6, <2>5 DEF OfTheText
<1>7. CASE req[r].op \notin {"edit", "translate"}
  <2>1. map'[Me(r)].translations = map[Me(r)].translations
    BY <1>2, <1>7, WantedColumns DEF Writes
  <2> QED
    BY <1>3, <1>4, <1>7, <2>1 DEF OfTheText
<1> QED
  BY <1>4, <1>5, <1>6, <1>7

LEMMA WaitsStep ==
    ASSUME MapTypeOK, RequestsAreReal, MapsAreDrawn, WaitsAreApart, [Next]_vars
    PROVE  WaitsAreApart'
<1> SUFFICES ASSUME NEW m \in Maps, m \notin crossed'
             PROVE  /\ map'[m] # NULL => OfTheText(map'[m])
                    /\ ~\E r, q \in Requests : /\ req'[r].op = "edit" /\ Me(r)' = m
                                               /\ req'[q].op = "translate" /\ Me(q)' = m
                    /\ \A r \in Requests : Me(r)' = m /\ map'[m] # NULL =>
                          /\ req'[r].op = "translate" =>
                                Loaded(r)'.data = map'[m].data /\ OfTheText(Loaded(r)')
                          /\ req'[r].op = "edit" /\ Loaded(r)'.translations = NULL =>
                                map'[m].translations = NULL
  BY DEF WaitsAreApart, OfTheText
<1>1. m \notin crossed
  BY CrossedGrows
<1>2. /\ map[m] # NULL => OfTheText(map[m])
      /\ ~\E r, q \in Requests : /\ req[r].op = "edit" /\ Me(r) = m
                                 /\ req[q].op = "translate" /\ Me(q) = m
      /\ \A r \in Requests : Me(r) = m /\ map[m] # NULL =>
            /\ req[r].op = "translate" =>
                  Loaded(r).data = map[m].data /\ OfTheText(Loaded(r))
            /\ req[r].op = "edit" /\ Loaded(r).translations = NULL =>
                  map[m].translations = NULL
  BY <1>1 DEF WaitsAreApart
\* The text and the cache of the map.
<1>3. \/ map'[m] = map[m]
      \/ map'[m] = NULL
      \/ map[m] = NULL /\ m \notin drawn /\ map'[m].translations = NULL
      \/ \E r \in Requests : Writes(r) /\ Me(r) = m /\ map[m] # NULL
  <2>1. ASSUME NEW r \in Requests, Writes(r), ~(Me(r) = m /\ map[m] # NULL)
        PROVE  map'[m] = map[m]
    BY <2>1, WriteEffect
  <2>2. ASSUME NEW r \in Requests, CommitDelete(r)
        PROVE  map'[m] \in {map[m], NULL}
    BY <2>2 DEF CommitDelete, MapTypeOK
  <2>3. ASSUME NEW r \in Requests, CommitGenerate(r)
        PROVE  \/ map'[m] = map[m]
               \/ map[m] = NULL /\ m \notin drawn /\ map'[m].translations = NULL
    <3>1. PICK k \in Maps \ drawn :
            /\ map' = [map EXCEPT ![k] = NewMap(req[r].arg, User(r), req[r].n)]
            /\ map'[k].translations = NULL
      BY <2>3, GenerateEffect
    <3> QED
      BY <3>1 DEF MapTypeOK, MapsAreDrawn
  <2> QED
    BY <2>1, <2>2, <2>3, MapsStep
<1>4. map'[m] # NULL => OfTheText(map'[m])
  <2>1. ASSUME NEW r \in Requests, Writes(r), Me(r) = m, map[m] # NULL
        PROVE  OfTheText(map'[m])
    BY <1>1, <2>1, WriteText
  <2> QED
    BY <1>2, <1>3, <2>1 DEF OfTheText
<1>5. ~\E r, q \in Requests : /\ req'[r].op = "edit" /\ Me(r)' = m
                              /\ req'[q].op = "translate" /\ Me(q)' = m
  <2> SUFFICES ASSUME NEW r \in Requests, NEW q \in Requests,
                      req'[r].op = "edit", Me(r)' = m, req'[q].op = "translate", Me(q)' = m
               PROVE  FALSE
    OBVIOUS
  <2>1. CASE req'[r] = req[r] /\ req'[q] = req[q]
    BY <1>2, <2>1 DEF Me
  <2>2. CASE req'[r] # req[r]
    BY <2>2, WaitingStep DEF Me
  <2>3. CASE req'[q] # req[q]
    BY <2>3, WaitingStep DEF Me
  <2> QED
    BY <2>1, <2>2, <2>3
<1>6. ASSUME NEW r \in Requests, Me(r)' = m, map'[m] # NULL,
             req'[r].op \in {"edit", "translate"}
      PROVE  /\ req'[r].op = "translate" =>
                   Loaded(r)'.data = map'[m].data /\ OfTheText(Loaded(r)')
             /\ req'[r].op = "edit" /\ Loaded(r)'.translations = NULL =>
                   map'[m].translations = NULL
  <2>1. CASE req'[r] = req[r]
    <3>1. Me(r) = m /\ Loaded(r)' = Loaded(r) /\ req'[r].op = req[r].op /\ m \in drawn
      BY <1>6, <2>1 DEF Me, Loaded, RequestsAreReal, Real, Ops
    <3>2. CASE map'[m] = map[m]
      BY <1>2, <1>6, <3>1, <3>2
    <3>3. ASSUME NEW q \in Requests, Writes(q), Me(q) = m, map[m] # NULL
          PROVE  /\ req[r].op = "translate" =>
                      Loaded(r).data = map'[m].data /\ OfTheText(Loaded(r))
                 /\ req[r].op = "edit" /\ Loaded(r).translations = NULL =>
                      map'[m].translations = NULL
      <4>1. req[r].op = "translate" => req[q].op # "edit"
        BY <1>2, <3>1, <3>3
      <4>2. req[r].op = "edit" => req[q].op # "translate"
        BY <1>2, <3>1, <3>3
      <4> QED
        BY <1>1, <1>2, <3>1, <3>3, <4>1, <4>2, WriteText
    <3> QED
      BY <1>3, <1>6, <3>1, <3>2, <3>3
  <2>2. CASE req'[r] # req[r]
    <3>1. Loaded(r)' = map[m] /\ map' = map
      BY <1>6, <2>2, WaitingStep DEF Fresh
    <3> QED
      BY <1>2, <1>6, <3>1
  <2> QED
    BY <2>1, <2>2
<1> QED
  BY <1>4, <1>5, <1>6

LEMMA MapsInvariant == Spec => []MapsInv
<1>1. Init => MapsInv
  <2>1. ASSUME Init
        PROVE  MapTypeOK
    <3>1. IdleRequest \in Requested
      BY DEF IdleRequest, Requested
    <3> QED
      BY <2>1, <3>1 DEF Init, MapTypeOK, Requested
  <2>2. Init => RequestsAreReal
    BY DEF Init, RequestsAreReal, Real, IdleRequest, Ops, Asked, Verdict
  <2>3. Init => MapsAreDrawn /\ ColumnsStand /\ ApproversAreOthers
    BY DEF Init, MapsAreDrawn, ColumnsStand, ApproversAreOthers, IdleRequest, Asked
  <2>4. Init => WaitsAreApart
    BY DEF Init, WaitsAreApart, IdleRequest
  <2> QED
    BY <2>1, <2>2, <2>3, <2>4 DEF MapsInv
<1>2. MapsInv /\ [Next]_vars => MapsInv'
  <2> SUFFICES ASSUME MapsInv, [Next]_vars
               PROVE  MapsInv'
    OBVIOUS
  <2> USE DEF MapsInv
  <2>1. MapTypeOK'
    BY TypeStep
  <2>2. RequestsAreReal'
    BY RealStep
  <2>3. MapsAreDrawn'
    BY RowsStep
  <2>4. ColumnsStand'
    BY ColumnsStep
  <2>5. ApproversAreOthers'
    BY ApproversStep
  <2>6. WaitsAreApart'
    BY WaitsStep
  <2> QED
    BY <2>1, <2>2, <2>3, <2>4, <2>5, <2>6
<1> QED
  BY <1>1, <1>2, PTL DEF Spec

-----------------------------------------------------------------------------
(* The views.                                                              *)

\* A set of pairs that no two share a first component of has as many as those.
LEMMA FirstsAreAsMany ==
    ASSUME NEW A, NEW B, NEW S \in SUBSET (A \X B), IsFiniteSet(S),
           \A x, y \in S : x[1] = y[1] => x = y
    PROVE  Cardinality({x[1] : x \in S}) = Cardinality(S)
<1> DEFINE firsts == {x[1] : x \in S}
           first == [x \in S |-> x[1]]
<1>1. first \in [S -> firsts] /\ \A y \in firsts : \E x \in S : first[x] = y
  OBVIOUS
<1>2. \A x, y \in S : first[x] = first[y] => x = y
  OBVIOUS
<1>3. first \in Bijection(S, firsts)
  <2> HIDE DEF firsts, first
  <2> QED
    BY <1>1, <1>2, Fun_IsBij
<1>4. ExistsBijection(S, firsts)
  BY <1>3 DEF ExistsBijection
<1> QED
  <2> HIDE DEF firsts
  <2>1. Cardinality(firsts) = Cardinality(S)
    BY <1>4, FS_Bijection
  <2> QED
    BY <2>1 DEF firsts

LEMMA DisjointUnion ==
    ASSUME NEW S, NEW T, IsFiniteSet(S), IsFiniteSet(T), S \cap T = {}
    PROVE  /\ IsFiniteSet(S \cup T)
           /\ Cardinality(S \cup T) = Cardinality(S) + Cardinality(T)
<1>1. /\ IsFiniteSet(S \cup T)
      /\ Cardinality(S \cup T) = Cardinality(S) + Cardinality(T) - Cardinality(S \cap T)
  BY FS_Union
<1>2. Cardinality(S \cap T) = 0
  BY FS_EmptySet
<1>3. Cardinality(S) \in Nat /\ Cardinality(T) \in Nat
  BY FS_CardinalityType
<1> QED
  BY <1>1, <1>2, <1>3

\* The dashboard finds every pericope either unstarted or under some status.
LEMMA DashboardAddsUp ==
    ASSUME MapTypeOK
    PROVE  Cardinality(Unstarted) + Cardinality(UNION {Dashboard(s) : s \in MeaningMapStatus})
             = Cardinality(Pericopes)
<1> DEFINE started == {p \in Pericopes : Of(p) # {}}
<1>1. UNION {Dashboard(s) : s \in MeaningMapStatus} = started
  <2>1. ASSUME NEW p \in Pericopes
        PROVE  Of(p) # {} <=> \E s \in MeaningMapStatus : With(p, s) # {}
    <3>1. \A m \in Of(p) : map[m].status \in MeaningMapStatus
      BY DEF Of, MapTypeOK, Rows
    <3> QED
      BY <3>1 DEF With
  <2>2. \A p : p \in UNION {Dashboard(s) : s \in MeaningMapStatus}
               <=> p \in Pericopes /\ \E s \in MeaningMapStatus : With(p, s) # {}
    BY DEF Dashboard
  <2> QED
    BY <2>1, <2>2
<1>2. IsFiniteSet(Unstarted) /\ IsFiniteSet(started)
  BY FS_Subset DEF Unstarted
<1>3. Unstarted \cap started = {} /\ Unstarted \cup started = Pericopes
  BY DEF Unstarted
<1> HIDE DEF started
<1> QED
  BY <1>1, <1>2, <1>3, DisjointUnion

\* The rows of the outer join: their first components are all the pericopes, and
\* each is there once when none has two maps.
LEMMA JoinedIsFinite ==
    /\ IsFiniteSet(Joined)
    /\ Joined \subseteq Pericopes \X (Maps \cup {NULL})
<1>1. Joined \subseteq Pericopes \X (Maps \cup {NULL})
  BY DEF Joined, Unstarted
<1>2. IsFiniteSet(Maps \cup {NULL})
  BY FS_AddElement
<1>3. IsFiniteSet(Pericopes \X (Maps \cup {NULL}))
  BY <1>2, FS_Product
<1> QED
  BY <1>1, <1>3, FS_Subset

LEMMA JoinedOnce ==
    ASSUME \A p \in Pericopes : Cardinality(Of(p)) <= 1
    PROVE  \A x, y \in Joined : x[1] = y[1] => x = y
<1>1. ASSUME NEW p \in Pericopes, NEW m \in Of(p), NEW k \in Of(p)
      PROVE  m = k
  <2>1. IsFiniteSet(Of(p))
    BY FS_Subset DEF Of
  <2>2. Cardinality(Of(p)) \in Nat /\ Cardinality(Of(p)) # 0
    BY <1>1, <2>1, FS_CardinalityType, FS_EmptySet
  <2>3. Cardinality(Of(p)) = 1
    BY <2>2
  <2> QED
    BY <1>1, <2>1, <2>3, FS_Singleton
<1> SUFFICES ASSUME NEW x \in Joined, NEW y \in Joined, x[1] = y[1]
             PROVE  x[2] = y[2]
  BY JoinedIsFinite
<1>2. CASE x[1] \in Unstarted
  BY <1>2 DEF Joined, Unstarted
<1>3. CASE x[1] \notin Unstarted
  BY <1>1, <1>3 DEF Joined, Unstarted
<1> QED
  BY <1>2, <1>3

\* The list of books agrees with the dashboard.
LEMMA BooksAgree ==
    ASSUME MapTypeOK, \A p \in Pericopes : Cardinality(Of(p)) <= 1
    PROVE  /\ ListedPericopes = Cardinality(Pericopes)
           /\ ListedApproved = Cardinality(Dashboard("approved"))
<1> DEFINE approved == {x \in Joined : x[2] # NULL /\ map[x[2]].status = "approved"}
<1>1. Joined \in SUBSET (Pericopes \X (Maps \cup {NULL})) /\ IsFiniteSet(Joined)
  BY JoinedIsFinite
<1>2. approved \in SUBSET (Pericopes \X (Maps \cup {NULL})) /\ IsFiniteSet(approved)
  BY <1>1, FS_Subset
<1>3. {x[1] : x \in Joined} = Pericopes
  <2>1. ASSUME NEW p \in Pericopes
        PROVE  \E x \in Joined : x[1] = p
    <3>1. CASE Of(p) = {}
      <4>1. <<p, NULL>> \in Joined
        BY <3>1 DEF Joined, Unstarted
      <4> QED
        BY <4>1
    <3>2. ASSUME NEW m \in Of(p)
          PROVE  \E x \in Joined : x[1] = p
      <4>1. <<p, m>> \in Joined
        BY <3>2 DEF Joined, Of
      <4> QED
        BY <4>1
    <3> QED
      BY <3>1, <3>2
  <2> QED
    BY <1>1, <2>1
<1>4. {x[1] : x \in approved} = Dashboard("approved")
  <2>1. ASSUME NEW x \in approved
        PROVE  x[1] \in Dashboard("approved")
    <3>1. x[1] \in Pericopes /\ x[2] \in Of(x[1])
      BY <2>1 DEF Joined
    <3> QED
      BY <2>1, <3>1 DEF Dashboard, With
  <2>2. ASSUME NEW p \in Dashboard("approved")
        PROVE  \E x \in approved : x[1] = p
    <3>1. PICK m \in Of(p) : map[m].status = "approved"
      BY <2>2 DEF Dashboard, With
    <3>2. <<p, m>> \in Joined /\ m # NULL
      BY <2>2, <3>1 DEF Joined, Of, Dashboard
    <3> QED
      BY <3>1, <3>2
  <2> QED
    BY <2>1, <2>2
<1>5. \A x, y \in Joined : x[1] = y[1] => x = y
  BY JoinedOnce
<1>6. Cardinality(Joined) = Cardinality(Pericopes)
  <2>1. Cardinality({x[1] : x \in Joined}) = Cardinality(Joined)
    BY <1>1, <1>5, FirstsAreAsMany
  <2> QED
    BY <1>3, <2>1
<1>7. Cardinality(approved) = Cardinality(Dashboard("approved"))
  <2>1. \A x, y \in approved : x[1] = y[1] => x = y
    BY <1>5
  <2> HIDE DEF approved
  <2>2. Cardinality({x[1] : x \in approved}) = Cardinality(approved)
    BY <1>2, <2>1, FirstsAreAsMany
  <2> QED
    BY <1>4, <2>2
<1> QED
  BY <1>6, <1>7 DEF ListedPericopes, ListedApproved

\* The tallies of a chapter and its unstarted pericopes add up to its rows.
LEMMA ChapterAddsUp ==
    ASSUME MapTypeOK, NEW c
    PROVE  Tally(c, "draft") + Tally(c, "cross_check") + Tally(c, "approved")
             + Cardinality({p \in Unstarted : c \in Chapters[p]})
           = Cardinality(InChapter(c))
<1> DEFINE rows(s) == {x \in InChapter(c) : x[2] # NULL /\ map[x[2]].status = s}
           bare == {x \in InChapter(c) : x[2] = NULL}
           unstarted == {p \in Unstarted : c \in Chapters[p]}
<1>1. InChapter(c) \in SUBSET (Pericopes \X (Maps \cup {NULL})) /\ IsFiniteSet(InChapter(c))
  BY JoinedIsFinite, FS_Subset DEF InChapter
<1>2. IsFiniteSet(bare) /\ \A s : IsFiniteSet(rows(s))
  BY <1>1, FS_Subset
<1>3. \A x \in InChapter(c) : x[2] # NULL => map[x[2]].status \in MeaningMapStatus
  BY DEF InChapter, Joined, Of, MapTypeOK, Rows
<1>4. InChapter(c) = ((rows("draft") \cup rows("cross_check")) \cup rows("approved")) \cup bare
  BY <1>3 DEF MeaningMapStatus
<1>5. Cardinality(bare) = Cardinality(unstarted)
  <2>1. \A x \in bare : x[1] \in Unstarted /\ c \in Chapters[x[1]]
    BY DEF InChapter, Joined, Of
  <2>2. ASSUME NEW p \in unstarted
        PROVE  <<p, NULL>> \in bare
    <3>1. <<p, NULL>> \in Joined
      BY DEF Joined
    <3> QED
      BY <3>1 DEF InChapter
  <2>3. {x[1] : x \in bare} = unstarted
    <3>1. \A p \in unstarted : \E x \in bare : x[1] = p
      BY <2>2
    <3> QED
      BY <2>1, <3>1
  <2>4. bare \in SUBSET (Pericopes \X (Maps \cup {NULL}))
    BY <1>1
  <2>5. \A x, y \in bare : x[1] = y[1] => x = y
    BY <2>4
  <2>6. IsFiniteSet(bare)
    BY <1>2
  <2> HIDE DEF bare
  <2>7. Cardinality({x[1] : x \in bare}) = Cardinality(bare)
    BY ONLY <2>4, <2>5, <2>6, FirstsAreAsMany
  <2> QED
    BY <2>3, <2>7
<1>6. /\ rows("draft") \cap rows("cross_check") = {}
      /\ (rows("draft") \cup rows("cross_check")) \cap rows("approved") = {}
      /\ ((rows("draft") \cup rows("cross_check")) \cup rows("approved")) \cap bare = {}
  OBVIOUS
<1>7. \A s : Tally(c, s) = Cardinality(rows(s))
  BY DEF Tally
<1> HIDE DEF rows, bare, unstarted
<1>8. /\ IsFiniteSet(rows("draft") \cup rows("cross_check"))
      /\ Cardinality(rows("draft") \cup rows("cross_check"))
           = Cardinality(rows("draft")) + Cardinality(rows("cross_check"))
  BY <1>2, <1>6, DisjointUnion
<1>9. LET three == (rows("draft") \cup rows("cross_check")) \cup rows("approved")
      IN  /\ IsFiniteSet(three)
          /\ Cardinality(three) = Cardinality(rows("draft") \cup rows("cross_check"))
                                    + Cardinality(rows("approved"))
  BY <1>2, <1>6, <1>8, DisjointUnion
<1>10. Cardinality(InChapter(c))
         = Cardinality((rows("draft") \cup rows("cross_check")) \cup rows("approved"))
             + Cardinality(bare)
  BY <1>2, <1>4, <1>6, <1>9, DisjointUnion
<1>11. Cardinality(InChapter(c)) = Cardinality(rows("draft")) + Cardinality(rows("cross_check"))
         + Cardinality(rows("approved")) + Cardinality(unstarted)
  BY <1>5, <1>8, <1>9, <1>10
<1> QED
  BY <1>7, <1>11 DEF unstarted

LEMMA ViewsAlwaysAgree ==
    ASSUME MapTypeOK
    PROVE  ViewsAgree
BY DashboardAddsUp, BooksAgree, ChapterAddsUp DEF ViewsAgree

\* Feedback and notifications point at rows there are; the dashboard, the list of
\* books and the chapters count the same maps; and a cached translation is of the
\* text there is unless an edit and a translation overlapped (list_books.py:16,
\* translate.py:30).
THEOREM MapsStayConsistent == Spec => []MapsAreConsistent
<1>1. MapsInv => MapsAreConsistent
  BY ViewsAlwaysAgree DEF MapsInv, MapsAreConsistent, WaitsAreApart, OfTheText,
     TranslationsAreOfTheText
<1> QED
  BY <1>1, MapsInvariant, PTL

-----------------------------------------------------------------------------
(* An approval stands.                                                     *)

\* What takes an approved map back, or changes its text, is a request that had
\* loaded it before it was approved.
LEMMA FinalStep ==
    ASSUME MapsInv, [Next]_vars, NEW m \in Maps, map[m] # NULL, map[m].status = "approved",
           map'[m] = NULL \/ map'[m].status # "approved" \/ map'[m].data # map[m].data
    PROVE  \E r \in Requests : /\ req[r].pc = "loaded" /\ req'[r] # req[r]
                               /\ Me(r) = m /\ Loaded(r).status # "approved"
<1> USE DEF MapsInv
<1>1. ASSUME NEW r \in Requests, Writes(r)
      PROVE  Me(r) = m /\ Loaded(r).status # "approved"
  <2>1. Me(r) = m
    BY <1>1, WriteEffect
  <2>2. req[r].op \in Verdict \cup {"submit", "edit"}
    <3>1. map'[m] # NULL
      BY <1>1, <2>1, WriteEffect
    <3>2. /\ map'[m].status \in IF req[r].op \in Verdict \cup {"submit"} THEN {To(req[r].op)}
                               ELSE {map[m].status}
          /\ req[r].op # "edit" => map'[m].data = map[m].data
      BY <1>1, <2>1, WriteColumns
    <3> QED
      BY <3>1, <3>2
  <2>3. req[r].op \in Asked /\ Allowed(req[r].op, User(r), Loaded(r))
    BY <2>2 DEF RequestsAreReal, Real, Asked, Verdict
  <2>4. Loaded(r).status # "approved"
    BY <2>2, <2>3 DEF Allowed, MayTransition, MayEdit, From, Verdict
  <2> QED
    BY <2>1, <2>4
<1>2. ASSUME NEW r \in Requests, CommitDelete(r)
      PROVE  /\ req[r].pc = "loaded" /\ req'[r] # req[r]
             /\ Me(r) = m /\ Loaded(r).status # "approved"
  <2>1. Me(r) = m
    BY <1>2 DEF CommitDelete, MapTypeOK
  <2>2. Allowed("delete", User(r), Loaded(r))
    BY <1>2 DEF CommitDelete, Is, RequestsAreReal, Real, Asked
  <2>3. Loaded(r).status = "draft"
    BY <2>2 DEF Allowed, MayDelete, Verdict
  <2>4. req'[r] # req[r] /\ req[r].pc = "loaded"
    BY <1>2 DEF CommitDelete, Is, End, IdleRequest, MapTypeOK
  <2> QED
    BY <2>1, <2>3, <2>4
<1>3. ASSUME NEW r \in Requests, CommitGenerate(r)
      PROVE  map'[m] = map[m]
  BY <1>3 DEF CommitGenerate, MapTypeOK, MapsAreDrawn
<1>4. PICK r \in Requests : Writes(r) \/ CommitDelete(r)
  BY <1>3, MapsStep
<1>5. CASE Writes(r)
  BY <1>1, <1>5 DEF Writes
<1>6. CASE CommitDelete(r)
  BY <1>2, <1>6
<1> QED
  BY <1>4, <1>5, <1>6

\* An approved map was approved by another than its analyst, whatever requests
\* raced, and no request that begins after the approval takes it back, changes
\* its text or deletes it (transition_status.py:33, update_meaning_map_data.py:19).
THEOREM ApprovalOfMapsStands == Spec => ApprovalStands
<1>1. MapsInv => FourEyes
  BY DEF MapsInv, ApproversAreOthers, FourEyes
<1>2. MapsInv /\ [Next]_vars =>
        [\A m \in Maps :
           /\ map[m] # NULL /\ map[m].status = "approved"
           /\ map'[m] = NULL \/ map'[m].status # "approved" \/ map'[m].data # map[m].data
           => \E r \in Requests : /\ req[r].pc = "loaded" /\ req'[r] # req[r]
                                  /\ Me(r) = m /\ Loaded(r).status # "approved"]_vars
  BY FinalStep
<1> QED
  BY <1>1, <1>2, MapsInvariant, PTL DEF Spec, ApprovalStands, ApprovedIsFinal

=============================================================================
