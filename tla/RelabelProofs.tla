--------------------------- MODULE RelabelProofs ----------------------------
(***************************************************************************)
(* Proofs about Relabel, for any predictions, any labels, any users and    *)
(* any number of requests at a time.                                       *)
(***************************************************************************)
EXTENDS Relabel, TLAPS

\* The index of a label is an id, and the label of that id.
LEMMA IndexOfLabel ==
  ASSUME NEW label \in Labels
  PROVE  ClassIndex(label) \in ClassIds /\ ClassNames[ClassIndex(label) + 1] = label
<1>1. \E i \in ClassIds : ClassNames[i + 1] = label
  BY DEF Labels
<1> QED
  BY <1>1 DEF ClassIndex

\* A row made of a label and a user is a row, whose id names its label.
LEMMA RowOfLabel ==
  ASSUME NEW label \in Labels, NEW actor \in Actors \cup {Nobody}
  PROVE  /\ RowOf(label, actor) \in Rows
         /\ RowOf(label, actor).label = label
         /\ RowOf(label, actor).relabeled_by = actor
         /\ ClassNames[RowOf(label, actor).label_id + 1] = label
<1>1. ClassIndex(label) \in ClassIds /\ ClassNames[ClassIndex(label) + 1] = label
  BY IndexOfLabel
<1> QED
  BY <1>1 DEF RowOf, Rows

LEMMA BlankRow ==
  Blank \in Rows /\ Blank.label = ClassNames[Blank.label_id + 1] /\ Blank.relabeled_by = Nobody
<1>1. Len(ClassNames) \in Nat /\ Len(ClassNames) # 0
  BY ClassAssumption
<1>2. 0 \in ClassIds /\ ClassNames[0 + 1] \in Labels
  BY <1>1 DEF ClassIds, Labels
<1>3. ClassNames[1] \in Labels
  BY <1>2
<1> QED
  BY <1>3, RowOfLabel DEF Blank

\* What a request beyond its checks reads in its row: of each column what it
\* asked for or what is committed, and of the id and the label the same.
LEMMA ViewOfRow ==
  ASSUME IInv, NEW r \in Requests, at[r] \in {"flushed", "refreshed", "logged"}
  PROVE  /\ Target(r) \in Predictions
         /\ Asked(r) \in Rows /\ View(r) \in Rows
         /\ View(r).label = ClassNames[View(r).label_id + 1]
         /\ View(r).relabeled_by \in {Asked(r).relabeled_by, row[Target(r)].relabeled_by}
         /\ <<View(r).label_id, View(r).label>> \in {<<Asked(r).label_id, Asked(r).label>>,
                <<row[Target(r)].label_id, row[Target(r)].label>>}
         /\ View(r).relabeled_by # Nobody
         /\ Asked(r).relabeled_by = call[r].actor
         /\ ~Holds(r) => View(r) = row[Target(r)]
         /\ loadedAt[r] = version[Target(r)] => View(r) = Asked(r)
<1> DEFINE p == Target(r)
<1>1. /\ p \in Predictions /\ call[r].label \in Labels /\ call[r].actor \in Actors
      /\ wrote[r] = Changed(r)
      /\ seen[r].label = ClassNames[seen[r].label_id + 1]
      /\ loadedAt[r] = version[p] => seen[r] = row[p]
      /\ seen[r].relabeled_by # Nobody => row[p].relabeled_by # Nobody
  BY DEF IInv, SessionConsistent, SeenUntilChanged, Working
<1>2. row[p] \in Rows /\ seen[r] \in Rows /\ row[p].label = ClassNames[row[p].label_id + 1]
  BY <1>1 DEF IInv, TypeOK, IdNamesLabel
<1>3. /\ Asked(r) \in Rows
      /\ Asked(r).relabeled_by = call[r].actor
      /\ Asked(r).label = ClassNames[Asked(r).label_id + 1]
  BY <1>1, RowOfLabel DEF Asked
<1>4. "label_id" \in wrote[r] <=> "label" \in wrote[r]
  <2>1. Asked(r).label_id = seen[r].label_id <=> Asked(r).label = seen[r].label
    BY <1>1, <1>2, <1>3, ClassAssumption DEF Rows
  <2> QED
    BY <1>1, <2>1 DEF Changed, Columns
<1>5. /\ View(r).label_id = IF "label_id" \in wrote[r] THEN Asked(r).label_id ELSE row[p].label_id
      /\ View(r).label = IF "label" \in wrote[r] THEN Asked(r).label ELSE row[p].label
      /\ View(r).relabeled_by = IF "relabeled_by" \in wrote[r] THEN Asked(r).relabeled_by
                                ELSE row[p].relabeled_by
      /\ View(r) = [label_id |-> View(r).label_id, label |-> View(r).label,
                    relabeled_by |-> View(r).relabeled_by]
  BY DEF View
<1> HIDE DEF p
<1>6. View(r) \in Rows
  BY <1>2, <1>3, <1>5 DEF Rows
<1>7. View(r).label = ClassNames[View(r).label_id + 1]
  BY <1>2, <1>3, <1>4, <1>5
<1>8. ~Holds(r) => View(r) = row[p]
  BY <1>2, <1>5, <1>6 DEF Holds, Rows
<1>9. loadedAt[r] = version[p] => View(r) = Asked(r)
  <2> SUFFICES ASSUME seen[r] = row[p]  PROVE View(r) = Asked(r)
    BY <1>1
  <2>1. \A c \in Columns : c \notin wrote[r] => Asked(r)[c] = row[p][c]
    BY <1>1 DEF Changed
  <2>2. /\ "label_id" \notin wrote[r] => Asked(r).label_id = row[p].label_id
        /\ "label" \notin wrote[r] => Asked(r).label = row[p].label
        /\ "relabeled_by" \notin wrote[r] => Asked(r).relabeled_by = row[p].relabeled_by
    BY <2>1 DEF Columns
  <2>3. /\ View(r).label_id = Asked(r).label_id
        /\ View(r).label = Asked(r).label
        /\ View(r).relabeled_by = Asked(r).relabeled_by
    BY <1>5, <2>2
  <2> QED
    BY <2>3, <1>3, <1>6 DEF Rows
<1>10. View(r).relabeled_by # Nobody
  <2>1. call[r].actor # Nobody
    BY <1>1, ActorAssumption
  <2>2. CASE "relabeled_by" \in wrote[r]
    BY <2>1, <2>2, <1>3, <1>5
  <2>3. CASE "relabeled_by" \notin wrote[r]
    <3>1. Asked(r).relabeled_by = seen[r].relabeled_by
      BY <2>3, <1>1 DEF Changed, Columns
    <3> QED
      BY <2>1, <2>3, <3>1, <1>1, <1>3, <1>5
  <2> QED
    BY <2>2, <2>3
<1>11. <<View(r).label_id, View(r).label>> \in {<<Asked(r).label_id, Asked(r).label>>,
                                                <<row[p].label_id, row[p].label>>}
  BY <1>4, <1>5
<1> QED
  BY <1>1, <1>3, <1>5, <1>6, <1>7, <1>8, <1>9, <1>10, <1>11 DEF p

LEMMA InitIInv == Init => IInv
<1> SUFFICES ASSUME Init  PROVE IInv
  OBVIOUS
<1> USE BlankRow DEF Init
<1>1. TypeOK
  BY BoundAssumption DEF TypeOK, Calls, NoCall, Places
<1>2. SessionConsistent /\ OneHolder /\ SeenUntilChanged /\ ToldHolds
  BY DEF SessionConsistent, OneHolder, SeenUntilChanged, ToldHolds, Working, Holds
<1>3. \A p \in Predictions : row[p] = Blank /\ latest[p] = Blank /\ version[p] = 0 /\ audits[p] = 0
  OBVIOUS
<1>4. IdNamesLabel /\ ThresholdKept /\ ChangesAudited /\ CreditIsDue
  BY <1>3, PredictionAssumption DEF IdNamesLabel, ThresholdKept, ChangesAudited, CreditIsDue
<1> QED
  BY <1>1, <1>2, <1>4 DEF IInv

\* What the sessions of the other requests rest on stays as it is, when the
\* table and their own sessions do.
LEMMA EndsIInv ==
  ASSUME IInv, NEW r \in Requests, Ends(r),
         UNCHANGED <<tableVars, calls, version, latest, overlapped>>
  PROVE  IInv'
<1> USE DEF tableVars
<1>1. TypeOK'
  BY BlankRow DEF IInv, TypeOK, Ends, Places, Calls, NoCall
<1>2. /\ at'[r] = "idle" /\ wrote'[r] = {} /\ r \notin logged'
      /\ \A s \in Requests \ {r} :
            /\ at'[s] = at[s] /\ call'[s] = call[s] /\ seen'[s] = seen[s]
            /\ wrote'[s] = wrote[s] /\ told'[s] = told[s] /\ loadedAt'[s] = loadedAt[s]
            /\ s \in logged' <=> s \in logged
  BY DEF IInv, TypeOK, Ends
<1>3. SessionConsistent'
  BY <1>2 DEF IInv, SessionConsistent, Working, Target, MayRelabel, Changed, Asked
<1>4. OneHolder'
  BY <1>2 DEF IInv, OneHolder, Holds, Target
<1>5. SeenUntilChanged' /\ ToldHolds'
  BY <1>2 DEF IInv, SeenUntilChanged, ToldHolds, Working, Holds, Target, View, Asked
<1>6. IdNamesLabel' /\ ThresholdKept' /\ ChangesAudited' /\ CreditIsDue'
  BY DEF IInv, IdNamesLabel, ThresholdKept, ChangesAudited, CreditIsDue
<1> QED
  BY <1>1, <1>3, <1>4, <1>5, <1>6 DEF IInv

LEMMA BeginIInv ==
  ASSUME IInv, NEW r \in Requests, Begin(r)
  PROVE  IInv'
<1> USE DEF tableVars, historyVars
<1>1. /\ at[r] = "idle" /\ at' = [at EXCEPT ![r] = "begun"]
      /\ calls' \in 0..MaxCalls
      /\ call' \in [Requests -> Calls] /\ call'[r].actor \in Actors
      /\ \A s \in Requests \ {r} : call'[s] = call[s]
      /\ UNCHANGED <<row, audits, seen, wrote, logged, told, version, loadedAt, latest, overlapped>>
  BY BoundAssumption DEF IInv, TypeOK, Begin, GoesTo, Calls
<1>2. TypeOK'
  BY <1>1 DEF IInv, TypeOK, Places
<1>3. at'[r] = "begun" /\ wrote[r] = {} /\ \A s \in Requests \ {r} : at'[s] = at[s]
  BY <1>1 DEF IInv, TypeOK, SessionConsistent
<1>4. SessionConsistent'
  BY <1>1, <1>3 DEF IInv, SessionConsistent, Working, Target, MayRelabel, Changed, Asked
<1>5. OneHolder'
  BY <1>1, <1>3 DEF IInv, OneHolder, Holds, Target
<1>6. SeenUntilChanged' /\ ToldHolds'
  BY <1>1, <1>3 DEF IInv, SeenUntilChanged, ToldHolds, Working, Holds, Target, View, Asked
<1>7. IdNamesLabel' /\ ThresholdKept' /\ ChangesAudited' /\ CreditIsDue'
  BY <1>1 DEF IInv, IdNamesLabel, ThresholdKept, ChangesAudited, CreditIsDue
<1> QED
  BY <1>2, <1>4, <1>5, <1>6, <1>7 DEF IInv

LEMMA LoadIInv ==
  ASSUME IInv, NEW r \in Requests, Load(r)
  PROVE  IInv'
<1> USE DEF tableVars
<1>1. /\ at[r] = "begun" /\ at' = [at EXCEPT ![r] = "loaded"]
      /\ call[r].actor \in Actors /\ Target(r) \in Predictions /\ call[r].label \in Labels
      /\ MayRelabel(r)
      /\ seen' = [seen EXCEPT ![r] = row[Target(r)]]
      /\ loadedAt' = [loadedAt EXCEPT ![r] = version[Target(r)]]
      /\ UNCHANGED <<row, audits, calls, call, wrote, logged, told, version, latest, overlapped>>
  <2>1. at[r] = "begun" /\ Target(r) # Missing /\ call[r].label # Missing
    BY DEF Load, GoesTo
  <2>2. call[r].actor \in Actors
    BY <2>1 DEF IInv, SessionConsistent
  <2> QED
    BY <2>1, <2>2 DEF IInv, TypeOK, Calls, Target, Load, GoesTo
<1>2. TypeOK'
  BY <1>1 DEF IInv, TypeOK, Places
<1>3. /\ at'[r] = "loaded" /\ wrote[r] = {} /\ r \notin logged
      /\ seen'[r] = row[Target(r)] /\ loadedAt'[r] = version[Target(r)]
      /\ \A s \in Requests \ {r} :
            at'[s] = at[s] /\ seen'[s] = seen[s] /\ loadedAt'[s] = loadedAt[s]
  BY <1>1 DEF IInv, TypeOK, SessionConsistent
<1>4. SessionConsistent'
  BY <1>1, <1>3 DEF IInv, SessionConsistent, Working, Target, MayRelabel, Changed, Asked
<1>5. OneHolder'
  BY <1>1 DEF IInv, OneHolder, Holds, Target
<1>6. SeenUntilChanged'
  BY <1>1, <1>3 DEF IInv, TypeOK, SeenUntilChanged, IdNamesLabel, Working, Target
<1>7. ToldHolds'
  BY <1>1, <1>3 DEF IInv, ToldHolds, Holds, Target, View, Asked
<1>8. IdNamesLabel' /\ ThresholdKept' /\ ChangesAudited' /\ CreditIsDue'
  BY <1>1 DEF IInv, IdNamesLabel, ThresholdKept, ChangesAudited, CreditIsDue
<1> QED
  BY <1>2, <1>4, <1>5, <1>6, <1>7, <1>8 DEF IInv

\* The row is free, or nothing is sent: there is still one holder.
LEMMA FlushIInv ==
  ASSUME IInv, NEW r \in Requests, Flush(r)
  PROVE  IInv'
<1> USE DEF tableVars, historyVars
<1>1. /\ at[r] = "loaded" /\ at' = [at EXCEPT ![r] = "flushed"]
      /\ Changed(r) # {} => Free(r)
      /\ wrote' = [wrote EXCEPT ![r] = Changed(r)]
      /\ UNCHANGED <<row, audits, calls, call, seen, logged, told, version, loadedAt, latest, overlapped>>
  BY DEF Flush, GoesTo
<1>2. TypeOK'
  BY <1>1 DEF IInv, TypeOK, Places, Changed
<1>3. /\ at'[r] = "flushed" /\ r \notin logged /\ wrote'[r] = Changed(r)
      /\ \A s \in Requests \ {r} : at'[s] = at[s] /\ wrote'[s] = wrote[s]
  BY <1>1 DEF IInv, TypeOK, SessionConsistent
<1>4. SessionConsistent'
  BY <1>1, <1>3 DEF IInv, SessionConsistent, Working, Target, MayRelabel, Changed, Asked
<1>5. OneHolder'
  BY <1>1, <1>3 DEF IInv, OneHolder, Holds, Target, Free
<1>6. SeenUntilChanged' /\ ToldHolds'
  BY <1>1, <1>3 DEF IInv, SeenUntilChanged, ToldHolds, Working, Holds, Target, View, Asked
<1>7. IdNamesLabel' /\ ThresholdKept' /\ ChangesAudited' /\ CreditIsDue'
  BY <1>1 DEF IInv, IdNamesLabel, ThresholdKept, ChangesAudited, CreditIsDue
<1> QED
  BY <1>2, <1>4, <1>5, <1>6, <1>7 DEF IInv

LEMMA RefreshIInv ==
  ASSUME IInv, NEW r \in Requests, Refresh(r)
  PROVE  IInv'
<1> USE DEF tableVars, historyVars
<1>1. /\ at[r] = "flushed" /\ at' = [at EXCEPT ![r] = "refreshed"]
      /\ told' = [told EXCEPT ![r] = View(r)]
      /\ UNCHANGED <<row, audits, calls, call, seen, wrote, logged, version, loadedAt, latest, overlapped>>
  BY DEF Refresh, GoesTo
<1>2. TypeOK'
  BY <1>1, ViewOfRow DEF IInv, TypeOK, Places
<1>3. /\ at'[r] = "refreshed" /\ r \notin logged /\ told'[r] = View(r)
      /\ \A s \in Requests \ {r} : at'[s] = at[s] /\ told'[s] = told[s]
  BY <1>1 DEF IInv, TypeOK, SessionConsistent
<1>4. SessionConsistent'
  BY <1>1, <1>3 DEF IInv, SessionConsistent, Working, Target, MayRelabel, Changed, Asked
<1>5. OneHolder'
  BY <1>1 DEF IInv, OneHolder, Holds, Target
<1>6. SeenUntilChanged'
  BY <1>1, <1>3 DEF IInv, SeenUntilChanged, Working, Target
<1>7. ToldHolds'
  <2>1. \A s \in Requests : View(s)' = View(s) /\ Holds(s)' = Holds(s)
    BY <1>1 DEF View, Asked, Target, Holds
  <2> QED
    BY <2>1, <1>3 DEF IInv, ToldHolds
<1>8. IdNamesLabel' /\ ThresholdKept' /\ ChangesAudited' /\ CreditIsDue'
  BY <1>1 DEF IInv, IdNamesLabel, ThresholdKept, ChangesAudited, CreditIsDue
<1> QED
  BY <1>2, <1>4, <1>5, <1>6, <1>7, <1>8 DEF IInv

LEMMA LogRelabelIInv ==
  ASSUME IInv, NEW r \in Requests, LogRelabel(r)
  PROVE  IInv'
<1> USE DEF tableVars, historyVars
<1>1. /\ at[r] = "refreshed" /\ at' = [at EXCEPT ![r] = "logged"]
      /\ logged' = logged \cup {r}
      /\ UNCHANGED <<row, audits, calls, call, seen, wrote, told, version, loadedAt, latest, overlapped>>
  BY DEF LogRelabel, GoesTo
<1>2. TypeOK'
  BY <1>1 DEF IInv, TypeOK, Places
<1>3. at'[r] = "logged" /\ r \in logged' /\ \A s \in Requests \ {r} : at'[s] = at[s]
  BY <1>1 DEF IInv, TypeOK
<1>4. SessionConsistent'
  BY <1>1, <1>3 DEF IInv, SessionConsistent, Working, Target, MayRelabel, Changed, Asked
<1>5. OneHolder'
  BY <1>1 DEF IInv, OneHolder, Holds, Target
<1>6. SeenUntilChanged' /\ ToldHolds'
  BY <1>1, <1>3 DEF IInv, SeenUntilChanged, ToldHolds, Working, Holds, Target, View, Asked
<1>7. IdNamesLabel' /\ ThresholdKept' /\ ChangesAudited' /\ CreditIsDue'
  BY <1>1 DEF IInv, IdNamesLabel, ThresholdKept, ChangesAudited, CreditIsDue
<1> QED
  BY <1>2, <1>4, <1>5, <1>6, <1>7 DEF IInv

\* The row takes what the request reads in it.  Whoever else has loaded it
\* holds nothing of it, and has loaded it before this change, if it is one.
LEMMA CommitIInv ==
  ASSUME IInv, NEW r \in Requests, Commit(r)
  PROVE  IInv'
<1> DEFINE p == Target(r)
<1>1. /\ at[r] = "logged" /\ r \in logged
      /\ p \in Predictions /\ Asked(r) \in Rows /\ View(r) \in Rows
      /\ View(r).label = ClassNames[View(r).label_id + 1]
      /\ View(r).relabeled_by \in {call[r].actor, row[p].relabeled_by}
      /\ ~Holds(r) => View(r) = row[p]
      /\ loadedAt[r] = version[p] => View(r) = Asked(r)
      /\ MayRelabel(r) /\ call[r].actor \in Actors
  <2>1. at[r] = "logged"
    BY DEF Commit
  <2>2. r \in logged /\ MayRelabel(r) /\ call[r].actor \in Actors
    BY <2>1 DEF IInv, SessionConsistent, Working
  <2> QED
    BY <2>1, <2>2, ViewOfRow
<1>2. /\ row' = [row EXCEPT ![p] = View(r)]
      /\ audits' = [audits EXCEPT ![p] = @ + 1]
      /\ IF Holds(r)
         THEN /\ version' = [version EXCEPT ![p] = @ + 1]
              /\ latest' = [latest EXCEPT ![p] = Asked(r)]
              /\ overlapped' = IF loadedAt[r] = version[p] THEN overlapped
                               ELSE overlapped \cup {p}
         ELSE UNCHANGED <<version, latest, overlapped>>
      /\ calls' = calls
      /\ Ends(r)
  BY <1>1 DEF Commit
<1> HIDE DEF p
<1>3. /\ row' \in [Predictions -> Rows] /\ audits' \in [Predictions -> Nat]
      /\ version' \in [Predictions -> Nat] /\ latest' \in [Predictions -> Rows]
      /\ overlapped' \subseteq Predictions
  BY <1>1, <1>2 DEF IInv, TypeOK
<1>4. TypeOK'
  BY <1>2, <1>3, BlankRow DEF IInv, TypeOK, Ends, Places, Calls, NoCall
<1>5. /\ at'[r] = "idle" /\ wrote'[r] = {} /\ r \notin logged'
      /\ \A s \in Requests \ {r} :
            /\ at'[s] = at[s] /\ call'[s] = call[s] /\ seen'[s] = seen[s]
            /\ wrote'[s] = wrote[s] /\ told'[s] = told[s] /\ loadedAt'[s] = loadedAt[s]
            /\ s \in logged' <=> s \in logged
  BY <1>2 DEF IInv, TypeOK, Ends
<1>6. /\ row'[p] = View(r) /\ audits'[p] = audits[p] + 1
      /\ \A q \in Predictions \ {p} :
            /\ row'[q] = row[q] /\ audits'[q] = audits[q] /\ version'[q] = version[q]
            /\ latest'[q] = latest[q] /\ (q \in overlapped' <=> q \in overlapped)
      /\ Holds(r) => /\ version'[p] = version[p] + 1 /\ latest'[p] = Asked(r)
                     /\ p \in overlapped' \/ loadedAt[r] = version[p]
      /\ ~Holds(r) => /\ row'[p] = row[p] /\ version'[p] = version[p]
                      /\ latest'[p] = latest[p] /\ overlapped' = overlapped
  BY <1>1, <1>2 DEF IInv, TypeOK
<1>7. version[p] \in Nat /\ audits[p] \in Nat /\ \A s \in Requests : loadedAt[s] \in Nat
  BY <1>1 DEF IInv, TypeOK
<1>8. SessionConsistent'
  BY <1>5 DEF IInv, SessionConsistent, Working, Target, MayRelabel, Changed, Asked
<1>9. OneHolder'
  BY <1>5 DEF IInv, OneHolder, Holds, Target
<1>10. SeenUntilChanged'
  <2> SUFFICES ASSUME NEW s \in Requests, at'[s] \in Working
      PROVE  /\ seen'[s].label = ClassNames[seen'[s].label_id + 1]
             /\ loadedAt'[s] = version'[Target(s)'] => seen'[s] = row'[Target(s)']
             /\ loadedAt'[s] <= version'[Target(s)']
             /\ seen'[s].relabeled_by # Nobody => row'[Target(s)'].relabeled_by # Nobody
    BY DEF SeenUntilChanged, Working
  <2>1. /\ s # r /\ at[s] \in Working /\ Target(s)' = Target(s) /\ Target(s) \in Predictions
        /\ seen'[s] = seen[s] /\ loadedAt'[s] = loadedAt[s]
    BY <1>5 DEF IInv, SessionConsistent, Working, Target
  <2>2. /\ seen[s].label = ClassNames[seen[s].label_id + 1]
        /\ loadedAt[s] = version[Target(s)] => seen[s] = row[Target(s)]
        /\ loadedAt[s] <= version[Target(s)]
        /\ seen[s].relabeled_by # Nobody => row[Target(s)].relabeled_by # Nobody
    BY <2>1 DEF IInv, SeenUntilChanged
  <2>3. CASE Target(s) = p /\ Holds(r)
    <3>1. View(r).relabeled_by # Nobody
      BY <1>1, ViewOfRow
    <3> QED
      BY <2>1, <2>2, <2>3, <3>1, <1>6, <1>7
  <2>4. CASE Target(s) # p \/ ~Holds(r)
    <3>1. row'[Target(s)] = row[Target(s)] /\ version'[Target(s)] = version[Target(s)]
      BY <2>1, <2>4, <1>6
    <3> QED
      BY <2>1, <2>2, <3>1
  <2> QED
    BY <2>3, <2>4
<1>11. ToldHolds'
  <2> SUFFICES ASSUME NEW s \in Requests, at'[s] \in {"refreshed", "logged"}, Holds(s)'
      PROVE  told'[s] = View(s)'
    BY DEF ToldHolds
  <2>1. /\ s # r /\ at[s] \in {"refreshed", "logged"} /\ Holds(s) /\ Target(s)' = Target(s)
        /\ Asked(s)' = Asked(s) /\ wrote'[s] = wrote[s] /\ told'[s] = told[s]
        /\ Target(s) \in Predictions
    BY <1>5 DEF IInv, SessionConsistent, Working, Holds, Target, Asked
  <2>2. row'[Target(s)] = row[Target(s)]
    <3>1. Holds(r) => Target(s) # p
      BY <2>1 DEF IInv, OneHolder, p
    <3> QED
      BY <3>1, <2>1, <1>6
  <2> QED
    BY <2>1, <2>2 DEF IInv, ToldHolds, View
<1>12. IdNamesLabel' /\ ChangesAudited'
  <2>1. IdNamesLabel'
    BY <1>1, <1>6 DEF IInv, IdNamesLabel
  <2>2. ChangesAudited'
    BY <1>6, <1>7 DEF IInv, ChangesAudited
  <2> QED
    BY <2>1, <2>2
<1>13. ThresholdKept'
  <2>1. p \in Confident \cup Borderline => call[r].actor \in Admins
    BY <1>1 DEF MayRelabel, p
  <2> QED
    BY <2>1, <1>1, <1>6, PredictionAssumption DEF IInv, ThresholdKept
<1>14. CreditIsDue'
  <2>1. Holds(r) /\ p \notin overlapped' => row'[p] = latest'[p]
    BY <1>1, <1>6
  <2> QED
    BY <2>1, <1>6 DEF IInv, CreditIsDue
<1> QED
  BY <1>4, <1>8, <1>9, <1>10, <1>11, <1>12, <1>13, <1>14 DEF IInv

LEMMA NextIInv == IInv /\ [Next]_vars => IInv'
<1> SUFFICES ASSUME IInv, [Next]_vars  PROVE IInv'
  OBVIOUS
<1>1. ASSUME NEW r \in Requests, Begin(r)  PROVE IInv'
  BY <1>1, BeginIInv
<1>2. ASSUME NEW r \in Requests, Load(r)  PROVE IInv'
  BY <1>2, LoadIInv
<1>3. ASSUME NEW r \in Requests, Refuse(r) \/ Fail(r)  PROVE IInv'
  BY <1>3, EndsIInv DEF Refuse, Fail
<1>4. ASSUME NEW r \in Requests, Flush(r)  PROVE IInv'
  BY <1>4, FlushIInv
<1>5. ASSUME NEW r \in Requests, Refresh(r)  PROVE IInv'
  BY <1>5, RefreshIInv
<1>6. ASSUME NEW r \in Requests, LogRelabel(r)  PROVE IInv'
  BY <1>6, LogRelabelIInv
<1>7. ASSUME NEW r \in Requests, Commit(r)  PROVE IInv'
  BY <1>7, CommitIInv
<1>8. CASE UNCHANGED vars
  BY <1>8 DEF IInv, TypeOK, SessionConsistent, OneHolder, SeenUntilChanged, ToldHolds,
              IdNamesLabel, ThresholdKept, ChangesAudited, CreditIsDue, Holds, Target, Asked,
              View, Changed, MayRelabel, vars, tableVars, sessionVars, historyVars
<1> QED
  BY <1>1, <1>2, <1>3, <1>4, <1>5, <1>6, <1>7, <1>8 DEF Next

-----------------------------------------------------------------------------
\* The inductive invariant holds of every reachable state.
THEOREM Invariance == Spec => []IInv
  BY InitIInv, NextIInv, PTL DEF Spec

\* The variables keep their types.
THEOREM TypeCorrect == Spec => []TypeOK
<1>1. IInv => TypeOK
  BY DEF IInv
<1> QED
  BY Invariance, <1>1, PTL

\* Two relabels of one prediction, however they interleave, leave an id and
\* a label of the same class: the session sends both columns or neither
\* (update_label).
THEOREM IdsNameLabels == Spec => []IdNamesLabel
<1>1. IInv => IdNamesLabel
  BY DEF IInv
<1> QED
  BY Invariance, <1>1, PTL

\* A prediction at or above the threshold is corrected by administrators
\* only (relabel's check, which the later statements never repeat).
THEOREM ThresholdIsKept == Spec => []ThresholdKept
<1>1. IInv => ThresholdKept
  BY DEF IInv
<1> QED
  BY Invariance, <1>1, PTL

\* There are at least as many audit rows of a prediction as changes to it:
\* both go in one transaction.
THEOREM ChangesAreAudited == Spec => []ChangesAudited
<1>1. IInv => ChangesAudited
  BY DEF IInv
<1> QED
  BY Invariance, <1>1, PTL

\* A prediction whose relabels never overlapped says what the last of them
\* asked for, and who asked: a column that is not sent already says so.
THEOREM CreditIsGiven == Spec => []CreditIsDue
<1>1. IInv => CreditIsDue
  BY DEF IInv
<1> QED
  BY Invariance, <1>1, PTL

\* A request that commits a change answers with the row as it is then: the
\* flushed row is locked between the refresh and the commit.
THEOREM AnswersHold == Spec => AnswerHolds
<1>1. ASSUME IInv, [Next]_vars, NEW r \in Requests, at[r] = "logged", Holds(r),
             version'[Target(r)] # version[Target(r)]
      PROVE  row'[Target(r)] = told[r]
  <2>1. told[r] = View(r) /\ Target(r) \in Predictions
    BY <1>1 DEF IInv, ToldHolds, SessionConsistent, Working
  <2>2. PICK s \in Requests : Commit(s) /\ Holds(s) /\ Target(s) = Target(r)
    <3>1. ~UNCHANGED version
      BY <1>1
    <3>2. PICK s \in Requests : Commit(s) /\ Holds(s)
      BY <1>1, <3>1 DEF Next, Begin, Load, Refuse, Flush, Refresh, LogRelabel, Commit, Fail,
                        vars, historyVars
    <3>3. version' = [version EXCEPT ![Target(s)] = @ + 1]
      BY <3>2 DEF Commit
    <3> QED
      BY <1>1, <3>2, <3>3, <2>1 DEF IInv, TypeOK
  <2>3. s = r
    BY <1>1, <2>2 DEF IInv, OneHolder
  <2> QED
    BY <1>1, <2>1, <2>2, <2>3 DEF Commit, IInv, TypeOK
<1>2. IInv /\ [Next]_vars =>
        [\A r \in Requests :
            at[r] = "logged" /\ Holds(r) /\ version'[Target(r)] # version[Target(r)] =>
                row'[Target(r)] = told[r]]_vars
  BY <1>1
<1> QED
  BY Invariance, <1>2, PTL DEF Spec, AnswerHolds

-----------------------------------------------------------------------------
(* Relabel implements Labelling.                                           *)

Classes == {<<i, ClassNames[i + 1]>> : i \in ClassIds}
Allowed == {pair \in Actors \X Predictions :
              pair[1] \in Admins \/ pair[2] \notin Confident \cup Borderline}
ClassOf == [p \in Predictions |-> <<row[p].label_id, row[p].label>>]
By == [p \in Predictions |-> row[p].relabeled_by]

LEMMA InitPromise == Init => Promise!Init
<1> SUFFICES ASSUME Init PROVE Promise!Init
  OBVIOUS
<1>1. \A p \in Predictions : row[p] = Blank
  BY DEF Init
<1>2. <<Blank.label_id, Blank.label>> \in Classes
  BY BlankRow DEF Classes, Rows
<1>3. ClassOf \in [Predictions -> Classes]
  BY <1>1, <1>2 DEF ClassOf
<1>4. By = [p \in Predictions |-> Nobody]
  BY <1>1, BlankRow DEF By
<1> QED
  BY <1>3, <1>4 DEF Promise!Init, ClassOf, Classes, By, Init

\* A commit is the correction its request asked for, whatever of it had to
\* be sent.
LEMMA CommitPromise ==
  ASSUME IInv, NEW r \in Requests, Commit(r)
  PROVE  \E pair \in Allowed, c \in Classes : Promise!Correct(pair[2], pair[1], c)
<1>1. /\ at[r] = "logged" /\ r \in logged
      /\ Target(r) \in Predictions /\ call[r].actor \in Actors /\ MayRelabel(r)
      /\ call[r].label \in Labels
  BY DEF Commit, IInv, SessionConsistent, Working
<1>2. PICK p \in Predictions, u \in Actors, c \in Classes :
         p = Target(r) /\ u = call[r].actor /\ c = <<Asked(r).label_id, Asked(r).label>>
  <2>1. Asked(r) \in Rows /\ Asked(r).label = ClassNames[Asked(r).label_id + 1]
    BY <1>1, RowOfLabel DEF Asked
  <2>2. <<Asked(r).label_id, Asked(r).label>> \in Classes
    BY <2>1 DEF Rows, Classes
  <2> QED
    BY <1>1, <2>2
<1>3. <<u, p>> \in Allowed
  BY <1>1, <1>2 DEF Allowed, MayRelabel, Target
<1>4. /\ row' = [row EXCEPT ![p] = View(r)]
      /\ audits' = [audits EXCEPT ![p] = @ + 1]
  BY <1>1, <1>2 DEF Commit
<1>5. /\ <<View(r).label_id, View(r).label>> \in {ClassOf[p], c}
      /\ View(r).relabeled_by \in {By[p], u} \ {Nobody}
  BY <1>1, <1>2, ViewOfRow DEF ClassOf, By
<1>6. row'[p] = View(r) /\ \A q \in Predictions \ {p} : row'[q] = row[q]
  BY <1>4 DEF IInv, TypeOK
<1>7. \E k \in {ClassOf[p], c} : ClassOf' = [ClassOf EXCEPT ![p] = k]
  BY <1>5, <1>6 DEF ClassOf
<1>8. \E w \in {By[p], u} \ {Nobody} : By' = [By EXCEPT ![p] = w]
  BY <1>5, <1>6 DEF By
<1>9. Promise!Correct(p, u, c)
  BY <1>3, <1>4, <1>7, <1>8 DEF Promise!Correct, Allowed, ClassOf, By
<1>10. PICK pair \in Allowed : pair = <<u, p>>
  BY <1>3
<1>11. pair[1] = u /\ pair[2] = p
  BY <1>10
<1> QED
  BY <1>9, <1>11

\* For any number of requests at a time, any users and any labels, relabel
\* implements Labelling.
THEOREM Implementation == Spec => ImplementsLabelling
<1>1. IInv /\ [Next]_vars => [Promise!Next]_(Promise!vars)
  <2> SUFFICES ASSUME IInv, [Next]_vars PROVE [Promise!Next]_(Promise!vars)
    OBVIOUS
  <2>1. CASE \E r \in Requests : Commit(r)
    BY <2>1, CommitPromise DEF Promise!Next, Allowed, Classes
  <2>2. CASE UNCHANGED tableVars
    BY <2>2 DEF tableVars, Promise!vars
  <2>3. UNCHANGED tableVars \/ \E r \in Requests : Commit(r)
    BY DEF Next, Begin, Load, Refuse, Flush, Refresh, LogRelabel, Fail, vars
  <2> QED
    BY <2>1, <2>2, <2>3
<1> QED
  BY <1>1, InitPromise, Invariance, PTL DEF Spec, ImplementsLabelling, Promise!Spec

-----------------------------------------------------------------------------
(* Where requests come one at a time.                                      *)

\* What a request has loaded is what the row still says.
Serial ==
    /\ overlapped = {}
    /\ \A r \in Requests : at[r] \in Working => loadedAt[r] = version[Target(r)]

\* Every prediction says what was asked for last, and who asked.
LastAskedStands == \A p \in Predictions : row[p] = latest[p]

\* A single request at a time leaves no column of another's: what it does
\* not send the row says already.
THEOREM OneAtATime ==
  ASSUME \A r, s \in Requests : r = s
  PROVE  Spec => []LastAskedStands
<1>1. Init => Serial
  BY DEF Init, Serial, Working
<1>2. IInv /\ Serial /\ [Next]_vars => Serial'
  <2> SUFFICES ASSUME IInv, Serial, [Next]_vars PROVE Serial'
    OBVIOUS
  <2>1. ASSUME NEW r \in Requests, Load(r) PROVE Serial'
    BY <2>1 DEF IInv, TypeOK, Serial, Load, GoesTo, Target
  <2>2. ASSUME NEW r \in Requests, Begin(r) PROVE Serial'
    BY <2>2 DEF IInv, TypeOK, Serial, Begin, GoesTo, Working, historyVars
  <2>3. ASSUME NEW r \in Requests, Flush(r) \/ Refresh(r) \/ LogRelabel(r) PROVE Serial'
    <3>1. at[r] \in Working /\ UNCHANGED <<call, historyVars>>
      BY <2>3 DEF Flush, Refresh, LogRelabel, GoesTo, Working
    <3>2. \A s \in Requests : s = r
      OBVIOUS
    <3> QED
      BY <3>1, <3>2 DEF Serial, Target, historyVars
  <2>4. ASSUME NEW r \in Requests, Commit(r) \/ Refuse(r) \/ Fail(r) PROVE Serial'
    <3>1. \A s \in Requests : at'[s] = "idle"
      <4>1. at'[r] = "idle"
        BY <2>4 DEF Commit, Refuse, Fail, Ends, IInv, TypeOK
      <4> QED
        BY <4>1
    <3>2. Commit(r) => loadedAt[r] = version[Target(r)]
      BY DEF Commit, Serial, Working
    <3>3. overlapped' = {}
      BY <2>4, <3>2 DEF Commit, Refuse, Fail, Serial
    <3> QED
      BY <3>1, <3>3 DEF Serial, Working
  <2>5. CASE UNCHANGED vars
    BY <2>5 DEF Serial, vars, sessionVars, historyVars, Target
  <2> QED
    BY <2>1, <2>2, <2>3, <2>4, <2>5 DEF Next
<1>3. IInv /\ Serial => LastAskedStands
  BY DEF IInv, Serial, CreditIsDue, LastAskedStands
<1> QED
  BY <1>1, <1>2, <1>3, Invariance, PTL DEF Spec
=============================================================================
