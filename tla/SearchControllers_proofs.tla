---------------------- MODULE SearchControllers_proofs ----------------------
(***************************************************************************)
(* AnnotatedPodsCanStart and DeletionIsClean, for every list of stores,    *)
(* set of pods and bound.                                                  *)
(*                                                                         *)
(* Neither is inductive.  A pass works on what it read at its start, so    *)
(* the first needs to know what each step of a pass still has behind it    *)
(* when the search is edited meanwhile.  The second rests on the two       *)
(* finalizers: whoever is about to create something in the database holds  *)
(* one, and an object with a finalizer goes only between two passes.       *)
(***************************************************************************)
EXTENDS SearchControllers, TLAPS

SecretStates == {"none", "owned", "labelled", "foreign"}
SearchSteps == {"Idle", "Source", "Secret", "Config", "Annotate", "User", "Status", "Drop"}
IndexSteps == {"Idle", "List", "CreateIndex", "DropIndex"}

\* The fields of the records the actions update; only the Booleans are typed.
IsSearch(s) ==
    s \in [exists : BOOLEAN, deleting : BOOLEAN, fin : BOOLEAN, own : BOOLEAN, ref : BOOLEAN,
           phase : {s.phase}]
IsIdx(x) == x \in [exists : BOOLEAN, deleting : BOOLEAN, fin : BOOLEAN, phase : {x.phase}]
IsSource(s) == s \in [exists : BOOLEAN, running : BOOLEAN, annotated : {"no", "own", "auto"}]
IsSecret(s) == s \in [st : SecretStates, pw : {s.pw}]
IsSearchRun(r) == r \in [pc : SearchSteps, own : BOOLEAN, running : BOOLEAN]
IsIndexRun(r) == r \in [pc : IndexSteps]
IsHist(h) ==
    h \in [edits : {h.edits}, faults : {h.faults}, pw : {h.pw},
           secretLost : BOOLEAN, unref : BOOLEAN, blind : BOOLEAN]

Shapes ==
    /\ IsSearch(search) /\ IsIdx(idx) /\ IsSource(src) /\ IsSecret(secret)
    /\ IsSearchRun(srun) /\ IsIndexRun(irun) /\ IsHist(hist)

NoUser == \A i \in DOMAIN Stores : user[i] = 0

\* The Secret of the automatic user is there, or somebody deleted it.
SecretBehind == secret.st # "none" \/ hist.secretLost

\* What a pass has written before it annotates, and the annotation after it, stays as long as
\* the search does.
ConfigFirst ==
    search.exists =>
        /\ srun.pc = "Annotate" \/ src.annotated # "no" => config
        /\ srun.pc \in {"Config", "Annotate"} /\ ~srun.own => SecretBehind
        /\ src.annotated = "auto" => SecretBehind

\* A deletion only marks a search that has the finalizer.  A pass for the automatic user has
\* it set, and ends before the search goes; whoever has users has it.
SearchHeld ==
    /\ search.deleting /\ search.exists => search.fin
    /\ srun.pc # "Idle" /\ ~srun.own => search.fin /\ search.exists
    /\ ~NoUser => search.fin

\* The trace by which handleDeletion knows that there are users to drop.
UsersTraced ==
    /\ secret.pw # 0 => Traced
    /\ ~src.exists => NoUser
    /\ search.exists /\ ~hist.secretLost /\ ~NoUser => Traced

\* The same for the index.
IndexHeld ==
    /\ idx.deleting /\ idx.exists => idx.fin
    /\ irun.pc # "Idle" => idx.fin /\ idx.exists
    /\ index # "none" => idx.fin

SInv ==
    /\ Shapes /\ ConfigFirst /\ SearchHeld /\ UsersTraced /\ IndexHeld
    /\ NoUserLeft /\ NoIndexLeft

\* The same as ConfigFirst for the user's own Secret: a pass that goes on has seen it, and once
\* it was there it is at most deleted.
OwnFirst ==
    /\ given \in {"no", "yes", "deleted"}
    /\ srun.pc \in {"Config", "Annotate"} /\ srun.own => given # "no"
    /\ src.annotated = "own" => given # "no"

LEMMA InitShapes == Init => Shapes
<1> SUFFICES ASSUME Init PROVE Shapes
    OBVIOUS
<1>1. IsSearch(search) /\ IsIdx(idx) /\ IsSource(src)
    BY Zenon DEF Init, IsSearch, IsIdx, IsSource
<1>2. IsSecret(secret) /\ IsHist(hist)
    BY DEF Init, IsSecret, SecretStates, IsHist
<1>3. IsSearchRun(srun) /\ IsIndexRun(irun)
    BY DEF Init, IsSearchRun, IsIndexRun, SearchSteps, IndexSteps, IdleS, IdleI
<1> QED BY <1>1, <1>2, <1>3 DEF Shapes

\* The records the actions build.
LEMMA SearchUpdates ==
    ASSUME NEW s, IsSearch(s)
    PROVE  /\ \A ph : IsSearch([s EXCEPT !.phase = ph])
           /\ \A b \in BOOLEAN : /\ IsSearch([s EXCEPT !.exists = b])
                                /\ IsSearch([s EXCEPT !.fin = b])
                                /\ IsSearch([s EXCEPT !.own = b])
                                /\ IsSearch([s EXCEPT !.ref = b])
                                /\ IsSearch([s EXCEPT !.deleting = TRUE, !.exists = b])
BY Zenon DEF IsSearch

LEMMA IdxUpdates ==
    ASSUME NEW x, IsIdx(x)
    PROVE  /\ \A ph : IsIdx([x EXCEPT !.phase = ph])
           /\ \A b \in BOOLEAN : /\ IsIdx([x EXCEPT !.exists = b])
                                /\ IsIdx([x EXCEPT !.fin = b])
                                /\ IsIdx([x EXCEPT !.deleting = TRUE, !.exists = b])
BY Zenon DEF IsIdx

LEMMA SourceUpdates ==
    ASSUME NEW s, IsSource(s)
    PROVE  /\ \A b \in BOOLEAN : IsSource([s EXCEPT !.running = b])
           /\ IsSource([s EXCEPT !.annotated = SyncSecret])
           /\ IsSource([exists |-> FALSE, running |-> FALSE, annotated |-> "no"])
BY DEF IsSource, SyncSecret

LEMMA SecretUpdates ==
    ASSUME NEW s, IsSecret(s)
    PROVE  /\ \A n : IsSecret([st |-> "owned", pw |-> n]) /\ IsSecret([st |-> "none", pw |-> n])
           /\ IsSecret([s EXCEPT !.st = "labelled"])
BY DEF IsSecret, SecretStates

LEMMA RunUpdates ==
    ASSUME NEW r, IsSearchRun(r), NEW step \in SearchSteps
    PROVE  /\ IsSearchRun(IdleS) /\ IsSearchRun([r EXCEPT !.pc = step])
           /\ \A b \in BOOLEAN : /\ IsSearchRun([IdleS EXCEPT !.pc = step, !.own = b])
                                /\ IsSearchRun([r EXCEPT !.pc = step, !.running = b])
BY Zenon DEF IsSearchRun, IdleS, SearchSteps

LEMMA IndexRunUpdates ==
    ASSUME NEW r, IsIndexRun(r), NEW step \in IndexSteps
    PROVE  IsIndexRun(IdleI) /\ IsIndexRun([r EXCEPT !.pc = step])
<1>1. IsIndexRun(IdleI)
    BY DEF IsIndexRun, IdleI, IndexSteps
<1>2. IsIndexRun([r EXCEPT !.pc = step])
    BY DEF IsIndexRun
<1> QED BY <1>1, <1>2

LEMMA HistUpdates ==
    ASSUME NEW h, IsHist(h)
    PROVE  /\ \A n : /\ IsHist([h EXCEPT !.faults = n]) /\ IsHist([h EXCEPT !.edits = n])
                     /\ IsHist([h EXCEPT !.pw = n])
                     /\ IsHist([h EXCEPT !.faults = n, !.secretLost = TRUE])
           /\ \A b \in BOOLEAN : /\ IsHist([h EXCEPT !.unref = b]) /\ IsHist([h EXCEPT !.blind = b])
                                /\ \A n : IsHist([h EXCEPT !.faults = n, !.blind = b])
BY Zenon DEF IsHist

LEMMA FaultyHist == IsHist(hist) /\ Faulty => IsHist(hist')
<1> SUFFICES ASSUME IsHist(hist), Faulty PROVE IsHist(hist')
    OBVIOUS
<1>1. PICK n : hist' = [hist EXCEPT !.faults = n]
    BY Zenon DEF Faulty
<1> QED BY <1>1, HistUpdates, Zenon

LEMMA StepShapes == Shapes /\ [Next]_vars => Shapes'
<1> SUFFICES ASSUME Shapes, [Next]_vars PROVE Shapes'
    OBVIOUS
<1> USE DEF Shapes
<1>s. ASSUME NEW ph, SetSearchPhase(ph) PROVE IsSearch(search') /\ IsSearchRun(srun')
    BY <1>s, SearchUpdates, RunUpdates, Zenon DEF SetSearchPhase, SearchSteps
<1>i. ASSUME NEW ph, SetIndexPhase(ph) PROVE IsIdx(idx') /\ IsIndexRun(irun')
    BY <1>i, IdxUpdates, IndexRunUpdates, Zenon DEF SetIndexPhase, IndexSteps
<1>g. ASSUME NEW step \in SearchSteps, GotoS(step) PROVE IsSearchRun(srun')
    BY <1>g, RunUpdates, Zenon DEF GotoS
<1>h. ASSUME NEW step \in IndexSteps, GotoI(step) PROVE IsIndexRun(irun')
    BY <1>h, IndexRunUpdates DEF GotoI
<1>f. Faulty => IsHist(hist')
    BY FaultyHist
<1>e. IsSearchRun(IdleS) /\ IsIndexRun(IdleI)
    BY RunUpdates, IndexRunUpdates, Zenon DEF SearchSteps, IndexSteps
<1>b. /\ search.own \in BOOLEAN /\ search.fin \in BOOLEAN /\ search.ref \in BOOLEAN
      /\ idx.fin \in BOOLEAN /\ src.running \in BOOLEAN
    BY DEF IsSearch, IsIdx, IsSource
<1>0. CASE UNCHANGED vars
    BY <1>0 DEF vars
<1>1. CASE StartSearch
    <2>1. IsSearch(search') /\ IsSearchRun(srun')
        <3>1. CASE ~search.deleting /\ search.ref
            <4> DEFINE f == search.fin \/ ~search.own
            <4>1. search' = [search EXCEPT !.fin = f]
                BY <1>1, <3>1 DEF StartSearch
            <4>2. srun' = [IdleS EXCEPT !.pc = "Source", !.own = search.own]
                BY <1>1, <3>1 DEF StartSearch
            <4>3. f \in BOOLEAN /\ "Source" \in SearchSteps
                BY DEF SearchSteps
            <4> HIDE DEF f
            <4>4. IsSearch(search')
                BY <4>1, <4>3, SearchUpdates, Zenon
            <4>5. IsSearchRun(srun')
                BY <4>2, <4>3, <1>b, RunUpdates, Zenon
            <4> QED BY <4>4, <4>5
        <3>2. CASE search.deleting /\ ~search.ref
            <4>1. search' = [search EXCEPT !.exists = FALSE] /\ srun' = IdleS
                BY <1>1, <3>2 DEF StartSearch
            <4> QED BY <4>1, <1>e, SearchUpdates, Zenon
        <3>3. CASE search.deleting /\ search.ref
            BY <1>1, <3>3, <1>g DEF StartSearch, SearchSteps
        <3>4. CASE ~search.deleting /\ ~search.ref
            BY <1>1, <3>4, <1>s DEF StartSearch
        <3> QED BY <3>1, <3>2, <3>3, <3>4
    <2>3. IsHist(hist')
        <3>1. hist' = hist \/ \E b \in BOOLEAN : hist' = [hist EXCEPT !.unref = b]
            BY <1>1, Zenon DEF StartSearch
        <3> QED BY <3>1, HistUpdates, Zenon
    <2> QED BY <1>1, <2>1, <2>3 DEF StartSearch
<1>2. CASE GetSource
    <2>1. "Secret" \in SearchSteps
        BY DEF SearchSteps
    <2>2. CASE src.exists
        <3>1. srun' = [srun EXCEPT !.pc = "Secret", !.running = src.running] /\ search' = search
            BY <1>2, <2>2 DEF GetSource
        <3> QED BY <1>2, <3>1, <2>1, <1>b, RunUpdates, Zenon DEF GetSource
    <2> QED BY <1>2, <2>2, <1>s DEF GetSource
<1>3. CASE ensureSyncSecret
    <2>1. IsSearch(search') /\ IsSearchRun(srun')
        BY <1>3, <1>s, <1>g DEF ensureSyncSecret, SearchSteps
    <2>2. IsSecret(secret')
        BY <1>3, SecretUpdates, Zenon DEF ensureSyncSecret
    <2>3. hist' = hist \/ \E n : hist' = [hist EXCEPT !.pw = n]
        BY <1>3 DEF ensureSyncSecret
    <2>4. IsHist(hist')
        <3>1. ASSUME NEW n, hist' = [hist EXCEPT !.pw = n] PROVE IsHist(hist')
            BY <3>1, HistUpdates, Zenon
        <3> QED BY <2>3, <3>1
    <2> QED BY <1>3, <2>1, <2>2, <2>4 DEF ensureSyncSecret
<1>4. CASE applyConfigMap
    BY <1>4, <1>g DEF applyConfigMap, SearchSteps
<1>5. CASE annotateSource
    BY <1>5, <1>g, <1>e, SourceUpdates DEF annotateSource, SearchSteps
<1>6. CASE ensureSyncMongoUser
    BY <1>6, <1>f, <1>g DEF ensureSyncMongoUser, SearchSteps
<1>7. CASE updateSearchStatus
    BY <1>7, <1>s DEF updateSearchStatus
<1>8. CASE handleSearchDeletion
    BY <1>8, <1>e, <1>f, SearchUpdates, Zenon DEF handleSearchDeletion
<1>9. CASE StartIndex
    <2>1. IsIdx(idx') /\ IsIndexRun(irun')
        <3>1. CASE Resolved /\ ~idx.deleting /\ ~idx.fin
            <4>1. \/ idx' = [idx EXCEPT !.fin = TRUE] /\ irun' = irun
                  \/ \E ph : SetIndexPhase(ph)
                BY <1>9, <3>1 DEF StartIndex
            <4> QED BY <4>1, <1>i, IdxUpdates, Zenon
        <3>2. CASE idx.deleting
            <4>1. \/ idx' = [idx EXCEPT !.exists = FALSE] /\ irun' = IdleI
                  \/ idx' = [idx EXCEPT !.phase = "Deleting"] /\ GotoI("DropIndex")
                  \/ \E ph : SetIndexPhase(ph)
                BY <1>9, <3>2 DEF StartIndex
            <4>2. "DropIndex" \in IndexSteps
                BY DEF IndexSteps
            <4>3. IsIdx([idx EXCEPT !.exists = FALSE]) /\ IsIdx([idx EXCEPT !.phase = "Deleting"])
                BY IdxUpdates, Zenon
            <4> QED BY <4>1, <4>2, <4>3, <1>i, <1>h, <1>e, Zenon
        <3>3. CASE ~idx.deleting /\ ~(Resolved /\ ~idx.fin)
            BY <1>9, <3>3, <1>i, <1>h DEF StartIndex, IndexSteps
        <3> QED BY <3>1, <3>2, <3>3
    <2>2. IsHist(hist')
        BY <1>9, HistUpdates, Zenon DEF StartIndex, Unresolved
    <2> QED BY <1>9, <2>1, <2>2 DEF StartIndex
<1>10. CASE ListIndexes
    BY <1>10, <1>i, <1>h, <1>f DEF ListIndexes, Unreachable, IndexSteps
<1>11. CASE CreateIndex
    BY <1>11, <1>i, <1>f DEF CreateIndex, Unreachable
<1>12. CASE DropIndex
    BY <1>12, <1>e, <1>f, IdxUpdates, Zenon DEF DropIndex, Unreachable
<1>13. CASE Cluster /\ ~IndexBuilds
    BY <1>13, SourceUpdates, SecretUpdates, Zenon
       DEF Cluster, SourceRuns, Collect, RollPod, SidecarReady
<1>14. CASE SourceStops \/ SourceGone
    <2>1. IsSource(src')
        BY <1>14, SourceUpdates, Zenon DEF SourceStops, SourceGone
    <2>2. Faulty \/ \E n : hist' = [hist EXCEPT !.edits = n]
        BY <1>14 DEF SourceStops, SourceGone
    <2>3. IsHist(hist')
        <3>1. ASSUME NEW n, hist' = [hist EXCEPT !.edits = n] PROVE IsHist(hist')
            BY <3>1, HistUpdates, Zenon
        <3> QED BY <1>f, <2>2, <3>1
    <2> QED BY <1>14, <2>1, <2>3 DEF SourceStops, SourceGone
<1>15. CASE Edit
    <2>1. IsSearch(search')
        <3>1. \/ \E b \in BOOLEAN : \/ search' = [search EXCEPT !.own = b]
                                   \/ search' = [search EXCEPT !.ref = b]
                                   \/ search' = [search EXCEPT !.deleting = TRUE, !.exists = b]
              \/ search' = search
            BY <1>15, <1>b, Zenon DEF Edit
        <3> QED BY <3>1, SearchUpdates, Zenon
    <2>2. IsIdx(idx')
        BY <1>15, <1>b, IdxUpdates, Zenon DEF Edit
    <2> QED BY <1>15, <2>1, <2>2, HistUpdates, Zenon DEF Edit
<1>16. CASE SecretChanges
    <2>1. IsSecret(secret')
        BY <1>16, SecretUpdates, Zenon DEF SecretChanges
    <2>2. \E n : \/ hist' = [hist EXCEPT !.faults = n]
                \/ hist' = [hist EXCEPT !.faults = n, !.secretLost = TRUE]
        BY <1>16, Zenon DEF SecretChanges
    <2>3. IsHist(hist')
        <3>1. ASSUME NEW n, hist' = [hist EXCEPT !.faults = n] PROVE IsHist(hist')
            BY <3>1, HistUpdates, Zenon
        <3>2. ASSUME NEW n, hist' = [hist EXCEPT !.faults = n, !.secretLost = TRUE]
              PROVE  IsHist(hist')
            BY <3>2, HistUpdates, Zenon
        <3> QED BY <2>2, <3>1, <3>2, Zenon
    <2> QED BY <1>16, <2>1, <2>3 DEF SecretChanges
<1>17. CASE Crash
    BY <1>17, <1>e, <1>f DEF Crash
<1>18. CASE \E p \in Pods : PodRestarts(p)
    BY <1>18, <1>f DEF PodRestarts
<1>19. CASE IndexBuilds \/ GivenSecretChanges
    BY <1>19, <1>f DEF IndexBuilds, GivenSecretChanges
<1> QED
    BY <1>0, <1>1, <1>2, <1>3, <1>4, <1>5, <1>6, <1>7, <1>8, <1>9, <1>10, <1>11, <1>12, <1>13,
       <1>14, <1>15, <1>16, <1>17, <1>18, <1>19 DEF Next, Cluster, ReconcileSearch, ReconcileIndex

\* The fields the invariant speaks of, after an update of others.
LEMMA SearchFields ==
    ASSUME NEW s, IsSearch(s)
    PROVE  /\ \A ph : LET t == [s EXCEPT !.phase = ph]
                      IN  t.exists = s.exists /\ t.fin = s.fin /\ t.deleting = s.deleting
           /\ \A b : LET t == [s EXCEPT !.exists = b]
                     IN  t.exists = b /\ t.fin = s.fin /\ t.deleting = s.deleting
           /\ \A b : LET t == [s EXCEPT !.fin = b]
                     IN  t.exists = s.exists /\ t.fin = b /\ t.deleting = s.deleting
           /\ \A b : LET t == [s EXCEPT !.own = b]
                     IN  t.exists = s.exists /\ t.fin = s.fin /\ t.deleting = s.deleting
           /\ \A b : LET t == [s EXCEPT !.ref = b]
                     IN  t.exists = s.exists /\ t.fin = s.fin /\ t.deleting = s.deleting
BY Zenon DEF IsSearch

LEMMA IdxFields ==
    ASSUME NEW x, IsIdx(x)
    PROVE  /\ \A ph : LET t == [x EXCEPT !.phase = ph]
                      IN  t.exists = x.exists /\ t.fin = x.fin /\ t.deleting = x.deleting
           /\ \A b : LET t == [x EXCEPT !.exists = b]
                     IN  t.exists = b /\ t.fin = x.fin /\ t.deleting = x.deleting
           /\ \A b : LET t == [x EXCEPT !.fin = b]
                     IN  t.exists = x.exists /\ t.fin = b /\ t.deleting = x.deleting
BY Zenon DEF IsIdx

LEMMA RunFields ==
    ASSUME NEW r, IsSearchRun(r)
    PROVE  /\ IdleS.pc = "Idle"
           /\ \A step : LET t == [r EXCEPT !.pc = step] IN t.pc = step /\ t.own = r.own
           /\ \A b : LET t == [r EXCEPT !.pc = "Secret", !.running = b]
                     IN  t.pc = "Secret" /\ t.own = r.own
           /\ \A b : LET t == [IdleS EXCEPT !.pc = "Source", !.own = b]
                     IN  t.pc = "Source" /\ t.own = b
BY Zenon DEF IsSearchRun, IdleS

LEMMA IndexRunFields ==
    ASSUME NEW r, IsIndexRun(r)
    PROVE  IdleI.pc = "Idle" /\ \A step : [r EXCEPT !.pc = step].pc = step
BY DEF IsIndexRun, IdleI

LEMMA HistFields ==
    ASSUME NEW h, IsHist(h)
    PROVE  /\ \A n : LET t == [h EXCEPT !.faults = n]
                     IN  t.secretLost = h.secretLost /\ t.unref = h.unref /\ t.blind = h.blind
           /\ \A n : LET t == [h EXCEPT !.edits = n]
                     IN  t.secretLost = h.secretLost /\ t.unref = h.unref /\ t.blind = h.blind
           /\ \A n : LET t == [h EXCEPT !.pw = n]
                     IN  t.secretLost = h.secretLost /\ t.unref = h.unref /\ t.blind = h.blind
           /\ \A n : LET t == [h EXCEPT !.faults = n, !.secretLost = TRUE]
                     IN  t.secretLost = TRUE /\ t.unref = h.unref /\ t.blind = h.blind
           /\ \A b : LET t == [h EXCEPT !.unref = b]
                     IN  t.secretLost = h.secretLost /\ t.unref = b /\ t.blind = h.blind
           /\ \A b : LET t == [h EXCEPT !.blind = b]
                     IN  t.secretLost = h.secretLost /\ t.unref = h.unref /\ t.blind = b
           /\ \A n, b : LET t == [h EXCEPT !.faults = n, !.blind = b]
                        IN  t.secretLost = h.secretLost /\ t.unref = h.unref /\ t.blind = b
BY Zenon DEF IsHist

LEMMA SourceFields ==
    ASSUME NEW s, IsSource(s)
    PROVE  /\ \A b : LET t == [s EXCEPT !.running = b]
                     IN  t.exists = s.exists /\ t.annotated = s.annotated
           /\ \A a : LET t == [s EXCEPT !.annotated = a] IN t.exists = s.exists /\ t.annotated = a
BY Zenon DEF IsSource

LEMMA InitInv == Init => SInv
<1> SUFFICES ASSUME Init PROVE SInv
    OBVIOUS
<1>1. /\ search.exists /\ ~search.deleting /\ src.annotated = "no" /\ src.exists
      /\ srun.pc = "Idle" /\ irun.pc = "Idle" /\ NoUser /\ secret.pw = 0
      /\ idx.exists /\ ~idx.deleting /\ index = "none"
    BY Zenon DEF Init, NoUser, IdleS, IdleI
<1> QED
    BY <1>1, InitShapes
    DEF SInv, ConfigFirst, SearchHeld, UsersTraced, IndexHeld, NoUserLeft, NoIndexLeft, NoUser

\* The part of the invariant about the index, and the part about the search.
SearchInv == Shapes /\ ConfigFirst /\ SearchHeld /\ UsersTraced /\ NoUserLeft
IndexInv == Shapes /\ IndexHeld /\ NoIndexLeft

\* Steps that leave the index controller and its objects alone.
LEMMA IndexFrame ==
    ASSUME IndexInv, UNCHANGED <<idx, index, irun>>, Shapes', hist.blind => hist'.blind
    PROVE  IndexInv'
BY DEF IndexInv, IndexHeld, NoIndexLeft

\* Steps that at most take the annotation or the users away, or lose the Secret.
LEMMA SearchFrame ==
    ASSUME SearchInv, Shapes', UNCHANGED <<search, srun, config, secret>>,
           src' = src \/ src'.annotated = "no" \/ src'.annotated = src.annotated,
           src'.exists => src.exists, ~src'.exists => NoUser',
           NoUser' \/ user' = user,
           hist'.secretLost = hist.secretLost, hist'.unref = hist.unref
    PROVE  SearchInv'
<1>1. NoUser => NoUser'
    BY DEF NoUser
<1> QED
    BY <1>1 DEF SearchInv, ConfigFirst, SecretBehind, SearchHeld, UsersTraced, Traced, NoUserLeft,
                NoUser

LEMMA IndexActions ==
    ASSUME IndexInv, Shapes', StartIndex \/ ListIndexes \/ CreateIndex \/ DropIndex
    PROVE  IndexInv' /\ hist'.secretLost = hist.secretLost /\ hist'.unref = hist.unref
<1> USE DEF IndexInv, IndexHeld, NoIndexLeft
<1>s. IsIdx(idx) /\ IsIndexRun(irun) /\ IsHist(hist)
    BY DEF Shapes
<1>p. ASSUME NEW ph, SetIndexPhase(ph)
      PROVE  /\ idx'.exists = idx.exists /\ idx'.fin = idx.fin /\ idx'.deleting = idx.deleting
             /\ irun'.pc = "Idle"
    BY <1>p, <1>s, IdxFields, IndexRunFields DEF SetIndexPhase
<1>f. Faulty => /\ hist'.secretLost = hist.secretLost /\ hist'.unref = hist.unref
                /\ hist'.blind = hist.blind
    BY <1>s, HistFields DEF Faulty
<1>g. \A step : GotoI(step) => irun'.pc = step
    BY <1>s, IndexRunFields DEF GotoI
<1>i. IdleI.pc = "Idle"
    BY DEF IdleI
<1>1. CASE StartIndex
    <2>1. index' = index /\ irun.pc = "Idle" /\ idx.exists
        BY <1>1 DEF StartIndex
    <2>2. Unresolved =>
              /\ hist'.blind <=> hist.blind \/ (idx.deleting /\ index # "none")
              /\ hist'.secretLost = hist.secretLost /\ hist'.unref = hist.unref
        <3> DEFINE b == hist.blind \/ (idx.deleting /\ index # "none")
        <3>1. Unresolved => \/ hist' = [hist EXCEPT !.blind = b]
                            \/ \E n : hist' = [hist EXCEPT !.faults = n, !.blind = b]
            BY Zenon DEF Unresolved
        <3> HIDE DEF b
        <3>2. Unresolved => hist'.blind = b /\ hist'.secretLost = hist.secretLost
                            /\ hist'.unref = hist.unref
            <4>1. CASE hist' = [hist EXCEPT !.blind = b]
                BY <4>1, <1>s, HistFields
            <4>2. ASSUME NEW n, hist' = [hist EXCEPT !.faults = n, !.blind = b]
                  PROVE  hist'.blind = b /\ hist'.secretLost = hist.secretLost
                         /\ hist'.unref = hist.unref
                BY <4>2, <1>s, HistFields
            <4> QED BY <3>1, <4>1, <4>2, Zenon
        <3> QED BY <3>2, Zenon DEF b
    <2>3. \/ Unresolved /\ idx.deleting /\ idx' = [idx EXCEPT !.exists = FALSE] /\ irun' = IdleI
          \/ (Unresolved \/ hist' = hist) /\ \E ph : SetIndexPhase(ph)
          \/ /\ hist' = hist /\ idx.deleting /\ idx' = [idx EXCEPT !.phase = "Deleting"]
             /\ GotoI("DropIndex")
          \/ hist' = hist /\ idx' = [idx EXCEPT !.fin = TRUE] /\ irun' = irun
          \/ hist' = hist /\ idx' = idx /\ idx.fin /\ GotoI("List")
        BY <1>1 DEF StartIndex
    <2>4. CASE Unresolved /\ idx.deleting /\ idx' = [idx EXCEPT !.exists = FALSE] /\ irun' = IdleI
        <3>1. ~idx'.exists /\ idx'.fin = idx.fin /\ irun'.pc = "Idle"
            BY <2>4, <1>s, <1>i, IdxFields
        <3> QED BY <2>1, <2>2, <2>4, <3>1
    <2>5. CASE (Unresolved \/ hist' = hist) /\ \E ph : SetIndexPhase(ph)
        <3>1. PICK ph : SetIndexPhase(ph)
            BY <2>5
        <3>2. /\ idx'.exists = idx.exists /\ idx'.fin = idx.fin /\ idx'.deleting = idx.deleting
              /\ irun'.pc = "Idle"
            BY <3>1, <1>p
        <3> QED BY <2>1, <2>2, <2>5, <3>2
    <2>6. CASE /\ hist' = hist /\ idx.deleting /\ idx' = [idx EXCEPT !.phase = "Deleting"]
               /\ GotoI("DropIndex")
        <3>1. PICK ph : idx' = [idx EXCEPT !.phase = ph]
            BY <2>6, Zenon
        <3>2. idx'.exists = idx.exists /\ idx'.fin = idx.fin /\ idx'.deleting = idx.deleting
            BY <3>1, <1>s, IdxFields
        <3> QED BY <2>1, <2>6, <3>2, <1>g
    <2>7. CASE hist' = hist /\ idx' = [idx EXCEPT !.fin = TRUE] /\ irun' = irun
        <3>1. idx'.exists /\ idx'.fin
            BY <2>1, <2>7, <1>s, IdxFields
        <3> QED BY <2>1, <2>7, <3>1
    <2>8. CASE hist' = hist /\ idx' = idx /\ idx.fin /\ GotoI("List")
        BY <2>1, <2>8
    <2> QED BY <2>3, <2>4, <2>5, <2>6, <2>7, <2>8
<1>2. CASE ListIndexes
    <2>1. index' = index /\ irun.pc # "Idle"
        BY <1>2 DEF ListIndexes
    <2>2. /\ hist' = hist \/ Faulty
          /\ idx' = idx \/ \E ph : SetIndexPhase(ph)
        BY <1>2 DEF ListIndexes, Unreachable
    <2> QED BY <2>1, <2>2, <1>p, <1>f
<1>3. CASE CreateIndex
    <2>1. irun.pc # "Idle"
        BY <1>3 DEF CreateIndex
    <2>2. (hist' = hist \/ Faulty) /\ \E ph : SetIndexPhase(ph)
        BY <1>3 DEF CreateIndex, Unreachable
    <2> QED BY <2>1, <2>2, <1>p, <1>f
<1>4. CASE DropIndex
    <2>1. irun.pc # "Idle" /\ irun'.pc = "Idle"
        BY <1>4, <1>i DEF DropIndex
    <2>2. CASE index' = "none" /\ idx' = [idx EXCEPT !.exists = FALSE] /\ hist' = hist
        <3>1. ~idx'.exists
            BY <2>2, <1>s, IdxFields
        <3> QED BY <2>1, <2>2, <3>1
    <2>3. CASE Unreachable /\ UNCHANGED <<index, idx>>
        BY <2>1, <2>3, <1>f DEF Unreachable
    <2> QED BY <1>4, <2>2, <2>3 DEF DropIndex
<1> QED BY <1>1, <1>2, <1>3, <1>4

\* The end of a pass by a phase, or by nothing at all.
LEMMA SearchPassEnds ==
    ASSUME SearchInv, Shapes', UNCHANGED <<secret, config, src, user, hist>>, srun' = IdleS,
           search' = search \/ \E ph : search' = [search EXCEPT !.phase = ph]
    PROVE  SearchInv'
<1>1. /\ search'.exists = search.exists /\ search'.fin = search.fin
      /\ search'.deleting = search.deleting
    <2>1. ASSUME NEW ph, search' = [search EXCEPT !.phase = ph]
          PROVE  /\ search'.exists = search.exists /\ search'.fin = search.fin
                 /\ search'.deleting = search.deleting
        BY <2>1, SearchFields DEF SearchInv, Shapes
    <2> QED BY <2>1
<1>2. srun'.pc = "Idle"
    BY DEF IdleS
<1>3. NoUser' = NoUser
    BY DEF NoUser
<1> QED
    BY <1>1, <1>2, <1>3
    DEF SearchInv, ConfigFirst, SecretBehind, SearchHeld, UsersTraced, Traced, NoUserLeft, NoUser

\* The steps of a pass before the users.
LEMMA SearchWrites ==
    ASSUME SearchInv, Shapes',
           StartSearch \/ GetSource \/ ensureSyncSecret \/ applyConfigMap \/ annotateSource
    PROVE  SearchInv' /\ hist'.blind = hist.blind
<1> USE DEF SearchInv, ConfigFirst, SecretBehind, SearchHeld, UsersTraced, Traced
<1>s. IsSearch(search) /\ IsSearchRun(srun) /\ IsHist(hist) /\ IsSource(src)
    BY DEF Shapes
<1>u. user' = user
    BY DEF StartSearch, GetSource, ensureSyncSecret, applyConfigMap, annotateSource
<1>n. NoUser' = NoUser /\ NoUserLeft = (~search.exists /\ ~hist.secretLost /\ ~hist.unref => NoUser)
      /\ NoUserLeft' = (~search'.exists /\ ~hist'.secretLost /\ ~hist'.unref => NoUser)
    BY <1>u DEF NoUser, NoUserLeft
<1>g. \A step : GotoS(step) => srun'.pc = step /\ srun'.own = srun.own
    BY <1>s, RunFields DEF GotoS
<1>p. ASSUME NEW ph, SetSearchPhase(ph), UNCHANGED <<secret, config, src, user, hist>>
      PROVE  SearchInv' /\ hist'.blind = hist.blind
    <2>1. srun' = IdleS /\ (search' = search \/ \E z : search' = [search EXCEPT !.phase = z])
        BY <1>p DEF SetSearchPhase
    <2> QED BY <1>p, <2>1, SearchPassEnds
<1>1. CASE StartSearch
    <2>1. srun.pc = "Idle" /\ search.exists /\ UNCHANGED <<secret, config, src>>
        BY <1>1 DEF StartSearch
    <2>2. CASE search.deleting /\ search.ref
        BY <1>1, <2>1, <2>2, <1>g, <1>n DEF StartSearch
    <2>3. CASE search.deleting /\ ~search.ref
        <3> DEFINE b == \E i \in DOMAIN Stores : user[i] # 0
        <3>1. /\ search' = [search EXCEPT !.exists = FALSE] /\ hist' = [hist EXCEPT !.unref = b]
              /\ srun' = IdleS
            BY <1>1, <2>3 DEF StartSearch
        <3>2. ~b => NoUser
            BY DEF NoUser
        <3> HIDE DEF b
        <3>3. ~search'.exists /\ search'.fin = search.fin
            BY <3>1, <1>s, SearchFields
        <3>4. /\ hist'.unref = b /\ hist'.secretLost = hist.secretLost
              /\ hist'.blind = hist.blind
            BY <3>1, <1>s, HistFields
        <3>5. srun'.pc = "Idle"
            BY <3>1 DEF IdleS
        <3> QED BY <2>1, <3>2, <3>3, <3>4, <3>5, <1>n
    <2>4. CASE ~search.deleting /\ ~search.ref
        BY <1>1, <2>1, <2>4, <1>u, <1>p DEF StartSearch
    <2>5. CASE ~search.deleting /\ search.ref
        <3> DEFINE f == search.fin \/ ~search.own
        <3>1. /\ search' = [search EXCEPT !.fin = f] /\ hist' = hist
              /\ srun' = [IdleS EXCEPT !.pc = "Source", !.own = search.own]
            BY <1>1, <2>5 DEF StartSearch
        <3>2. (search.fin => f) /\ (~search.own => f)
            OBVIOUS
        <3> HIDE DEF f
        <3>3. search'.exists = search.exists /\ search'.fin = f /\ search'.deleting = search.deleting
            BY <3>1, <1>s, SearchFields
        <3>4. srun'.pc = "Source" /\ srun'.own = search.own
            BY <3>1, <1>s, RunFields
        <3> QED BY <2>1, <2>5, <3>1, <3>2, <3>3, <3>4, <1>n
    <2> QED BY <2>2, <2>3, <2>4, <2>5
<1>2. CASE GetSource
    <2>1. srun.pc = "Source" /\ UNCHANGED <<secret, config, src, user, hist>>
        BY <1>2 DEF GetSource
    <2>2. CASE src.exists
        <3>1. /\ srun' = [srun EXCEPT !.pc = "Secret", !.running = src.running]
              /\ search' = search
            BY <1>2, <2>2 DEF GetSource
        <3>2. srun'.pc = "Secret" /\ srun'.own = srun.own
            BY <3>1, <1>s, RunFields
        <3> QED BY <2>1, <3>1, <3>2, <1>n
    <2>3. CASE ~src.exists
        BY <1>2, <2>1, <2>3, <1>p DEF GetSource
    <2> QED BY <2>2, <2>3
<1>3. CASE ensureSyncSecret
    <2>1. srun.pc = "Secret" /\ UNCHANGED <<config, src>>
        BY <1>3 DEF ensureSyncSecret
    <2>2. CASE /\ srun.own \/ secret.st = "owned"
               /\ GotoS("Config") /\ UNCHANGED <<secret, search, hist>>
        BY <2>1, <2>2, <1>g, <1>n
    <2>3. CASE /\ hist' = [hist EXCEPT !.pw = @ + 1]
               /\ secret' = [st |-> "owned", pw |-> hist.pw + 1]
               /\ GotoS("Config") /\ search' = search
        <3>1. PICK n : hist' = [hist EXCEPT !.pw = n]
            BY <2>3, Zenon
        <3>2. /\ hist'.unref = hist.unref /\ hist'.secretLost = hist.secretLost
              /\ hist'.blind = hist.blind
            BY <3>1, <1>s, HistFields
        <3>3. secret'.st = "owned"
            BY <2>3
        <3> QED BY <2>1, <2>3, <3>2, <3>3, <1>g, <1>n
    <2>4. CASE SetSearchPhase("Failed") /\ UNCHANGED <<secret, hist>>
        BY <2>1, <2>4, <1>u, <1>p
    <2> QED BY <1>3, <2>2, <2>3, <2>4 DEF ensureSyncSecret
<1>4. CASE applyConfigMap
    BY <1>4, <1>g, <1>n DEF applyConfigMap
<1>5. CASE annotateSource
    <2>1. srun.pc = "Annotate" /\ UNCHANGED <<search, secret, config, hist>>
        BY <1>5 DEF annotateSource
    <2>2. CASE src.exists
        <3>1. src' = [src EXCEPT !.annotated = SyncSecret] /\ GotoS("User")
            BY <1>5, <2>2 DEF annotateSource
        <3>2. src'.exists = src.exists /\ src'.annotated = SyncSecret
            BY <3>1, <1>s, SourceFields
        <3> QED BY <2>1, <3>1, <3>2, <1>g, <1>n DEF SyncSecret
    <2>3. CASE ~src.exists
        BY <1>5, <2>1, <2>3, SearchPassEnds DEF annotateSource
    <2> QED BY <2>2, <2>3
<1> QED BY <1>1, <1>2, <1>3, <1>4, <1>5

\* The users are created, and dropped.
LEMMA SearchUsers ==
    ASSUME SearchInv, Shapes', ensureSyncMongoUser \/ updateSearchStatus \/ handleSearchDeletion
    PROVE  SearchInv' /\ hist'.blind = hist.blind
<1> USE DEF SearchInv, ConfigFirst, SecretBehind, SearchHeld, UsersTraced, Traced
<1>s. IsSearch(search) /\ IsSearchRun(srun) /\ IsHist(hist)
    BY DEF Shapes
<1>n. /\ NoUserLeft = (~search.exists /\ ~hist.secretLost /\ ~hist.unref => NoUser)
      /\ NoUserLeft' = (~search'.exists /\ ~hist'.secretLost /\ ~hist'.unref => NoUser')
      /\ user' = user => NoUser' = NoUser
    BY DEF NoUser, NoUserLeft
<1>f. Faulty => /\ hist'.secretLost = hist.secretLost /\ hist'.unref = hist.unref
                /\ hist'.blind = hist.blind
    BY <1>s, HistFields DEF Faulty
<1>u. UNCHANGED <<secret, config, src>>
    BY DEF ensureSyncMongoUser, updateSearchStatus, handleSearchDeletion
<1>1. CASE ensureSyncMongoUser
    <2>1. srun.pc = "User" /\ search' = search
        BY <1>1 DEF ensureSyncMongoUser
    <2>2. srun'.pc = "Status" /\ srun'.own = srun.own
        BY <1>1, <1>s, RunFields DEF ensureSyncMongoUser, GotoS
    <2>3. \/ UNCHANGED <<user, hist>>
          \/ ~srun.own /\ secret.pw # 0 /\ src.exists /\ (hist' = hist \/ Faulty)
        BY <1>1 DEF ensureSyncMongoUser
    <2> QED BY <2>1, <2>2, <2>3, <1>n, <1>f, <1>u
<1>2. CASE updateSearchStatus
    <2>1. \E ph : SetSearchPhase(ph)
        BY <1>2 DEF updateSearchStatus
    <2>2. srun' = IdleS /\ (search' = search \/ \E z : search' = [search EXCEPT !.phase = z])
        BY <2>1 DEF SetSearchPhase
    <2> QED BY <1>2, <2>2, <1>u, SearchPassEnds DEF updateSearchStatus
<1>3. CASE handleSearchDeletion
    <2>1. srun' = IdleS /\ srun'.pc = "Idle"
        BY <1>3 DEF handleSearchDeletion, IdleS
    <2>2. CASE mayFinish /\ search' = [search EXCEPT !.exists = FALSE] /\ UNCHANGED <<user, hist>>
        <3>1. ~search'.exists /\ search'.fin = search.fin
            BY <2>2, <1>s, SearchFields
        <3> QED BY <2>1, <2>2, <3>1, <1>n, <1>u DEF mayFinish
    <2>3. CASE /\ user' = [i \in DOMAIN Stores |-> 0]
               /\ search' = [search EXCEPT !.exists = FALSE] /\ hist' = hist
        <3>1. ~search'.exists /\ search'.fin = search.fin
            BY <2>3, <1>s, SearchFields
        <3>2. NoUser'
            BY <2>3 DEF NoUser
        <3> QED BY <2>1, <2>3, <3>1, <3>2, <1>n, <1>u, Zenon
    <2>4. CASE /\ Faulty /\ search' = search
               /\ \E i \in DOMAIN Stores :
                    user' = [j \in DOMAIN Stores |-> IF i = j THEN user[j] ELSE 0]
        <3>1. NoUser => NoUser'
            BY <2>4 DEF NoUser
        <3> QED BY <2>1, <2>4, <3>1, <1>n, <1>u, <1>f, Zenon
    <2>5. CASE UNCHANGED <<search, user, hist>>
        BY <2>1, <2>5, <1>u, SearchPassEnds
    <2> QED BY <1>3, <2>2, <2>3, <2>4, <2>5 DEF handleSearchDeletion
<1> QED BY <1>1, <1>2, <1>3

\* The cluster, the users and the faults.
LEMMA SurroundingsInv ==
    ASSUME SearchInv, IndexInv, Shapes',
           \/ Cluster \/ SourceStops \/ SourceGone \/ Edit \/ SecretChanges
           \/ GivenSecretChanges \/ Crash
           \/ \E p \in Pods : PodRestarts(p)
    PROVE  SearchInv' /\ IndexInv'
<1>s. IsSearch(search) /\ IsIdx(idx) /\ IsHist(hist) /\ IsSource(src) /\ IsSecret(secret)
    BY DEF SearchInv, Shapes
<1>f. Faulty => /\ hist'.secretLost = hist.secretLost /\ hist'.unref = hist.unref
                /\ hist'.blind = hist.blind
    BY <1>s, HistFields DEF Faulty
<1>e. hist' = [hist EXCEPT !.edits = @ + 1]
          => /\ hist'.secretLost = hist.secretLost /\ hist'.unref = hist.unref
             /\ hist'.blind = hist.blind
    BY <1>s, HistFields
<1>n. /\ NoUserLeft = (~search.exists /\ ~hist.secretLost /\ ~hist.unref => NoUser)
      /\ NoUserLeft' = (~search'.exists /\ ~hist'.secretLost /\ ~hist'.unref => NoUser')
      /\ user' = user => NoUser' = NoUser
    BY DEF NoUser, NoUserLeft
<1>m. ~src.exists => NoUser
    BY DEF SearchInv, UsersTraced
<1>1. CASE SourceRuns \/ SourceStops
    <2>1. src'.exists = src.exists /\ src'.annotated = src.annotated
        <3>1. \E b : src' = [src EXCEPT !.running = b]
            BY <1>1, Zenon DEF SourceRuns, SourceStops
        <3> QED BY <3>1, <1>s, SourceFields
    <2>2. UNCHANGED <<search, srun, config, secret, user, idx, index, irun>>
        BY <1>1 DEF SourceRuns, SourceStops
    <2>3. hist' = hist \/ Faulty
        BY <1>1 DEF SourceRuns, SourceStops
    <2> QED BY <2>1, <2>2, <2>3, <1>f, <1>n, <1>m, SearchFrame, IndexFrame
<1>2. CASE IndexBuilds
    <2>0. /\ UNCHANGED <<search, srun, config, secret, src, user, idx, irun>>
          /\ index = "building" /\ (hist' = hist \/ Faulty)
        BY <1>2 DEF IndexBuilds
    <2>1. SearchInv'
        BY <2>0, <1>n, <1>m, <1>f, SearchFrame
    <2>2. IndexInv'
        BY <2>0, <1>f DEF IndexInv, IndexHeld, NoIndexLeft
    <2> QED BY <2>1, <2>2
<1>3. CASE Collect
    <2>1. ~search.exists /\ UNCHANGED <<search, src, user, srun, hist>>
        BY <1>3 DEF Collect
    <2>2. secret' = secret \/ secret'.pw = 0
        BY <1>3 DEF Collect
    <2>3. SearchInv'
        BY <2>1, <2>2, <1>n
        DEF SearchInv, ConfigFirst, SearchHeld, UsersTraced, Traced
    <2>4. IndexInv'
        BY <1>3, IndexFrame DEF Collect
    <2> QED BY <2>3, <2>4
<1>4. CASE \E p \in Pods : RollPod(p) \/ SidecarReady(p) \/ PodRestarts(p)
    <2>1. UNCHANGED <<search, secret, config, src, user, idx, index, srun, irun>>
        BY <1>4 DEF RollPod, SidecarReady, PodRestarts
    <2>2. hist' = hist \/ Faulty
        BY <1>4 DEF RollPod, SidecarReady, PodRestarts
    <2> QED BY <2>1, <2>2, <1>f, <1>n, <1>m, SearchFrame, IndexFrame
<1>5. CASE SourceGone
    <2>1. UNCHANGED <<search, secret, config, idx, srun, irun>> /\ index' = "none"
        BY <1>5 DEF SourceGone
    <2>2. ~src'.exists /\ src'.annotated = "no"
        BY <1>5 DEF SourceGone
    <2>3. NoUser'
        BY <1>5 DEF SourceGone, NoUser
    <2>4. /\ hist'.secretLost = hist.secretLost /\ hist'.unref = hist.unref
          /\ hist'.blind = hist.blind
        BY <1>5, <1>e DEF SourceGone
    <2>5. SearchInv'
        BY <2>1, <2>2, <2>3, <2>4, SearchFrame
    <2>6. IndexInv'
        BY <2>1, <2>4 DEF IndexInv, IndexHeld, NoIndexLeft
    <2> QED BY <2>5, <2>6
<1>6. CASE Edit
    <2>1. /\ UNCHANGED <<secret, config, src, user, index, srun, irun>>
          /\ hist' = [hist EXCEPT !.edits = @ + 1]
        BY <1>6 DEF Edit
    <2>2. /\ hist'.secretLost = hist.secretLost /\ hist'.unref = hist.unref
          /\ hist'.blind = hist.blind
        BY <2>1, <1>e
    <2>3. \/ search' = search
          \/ /\ search.exists /\ search'.exists = search.exists /\ search'.fin = search.fin
             /\ search'.deleting = search.deleting
          \/ search.exists /\ search'.exists = search.fin /\ search'.fin = search.fin
        <3> DEFINE own == ~search.own
                   ref == ~search.ref
                   fin == search.fin
        <3>1. \/ search' = search
              \/ search.exists /\ search' = [search EXCEPT !.own = own]
              \/ search.exists /\ search' = [search EXCEPT !.ref = ref]
              \/ search.exists /\ search' = [search EXCEPT !.deleting = TRUE, !.exists = fin]
            BY <1>6 DEF Edit
        <3>2. fin = search.fin
            OBVIOUS
        <3> HIDE DEF own, ref, fin
        <3>3. CASE search' = [search EXCEPT !.own = own]
            BY <3>1, <3>3, <1>s, Zenon DEF IsSearch
        <3>4. CASE search' = [search EXCEPT !.ref = ref]
            BY <3>1, <3>4, <1>s, Zenon DEF IsSearch
        <3>5. CASE search' = [search EXCEPT !.deleting = TRUE, !.exists = fin]
            BY <3>1, <3>2, <3>5, <1>s, Zenon DEF IsSearch
        <3> QED BY <3>1, <3>3, <3>4, <3>5
    <2>4. idx' = idx \/ (idx.exists /\ idx'.exists = idx.fin /\ idx'.fin = idx.fin)
        <3> DEFINE fin == idx.fin
        <3>1. \/ idx' = idx
              \/ idx.exists /\ idx' = [idx EXCEPT !.deleting = TRUE, !.exists = fin]
            BY <1>6 DEF Edit
        <3>2. fin = idx.fin
            OBVIOUS
        <3> HIDE DEF fin
        <3>3. ASSUME idx' = [idx EXCEPT !.deleting = TRUE, !.exists = fin]
              PROVE  idx'.exists = fin /\ idx'.fin = idx.fin
            BY <3>3, <1>s, Zenon DEF IsIdx
        <3> QED BY <3>1, <3>2, <3>3
    <2>5. SearchInv'
        BY <2>1, <2>2, <2>3, <1>n
        DEF SearchInv, ConfigFirst, SecretBehind, SearchHeld, UsersTraced, Traced
    <2>6. IndexInv'
        BY <2>1, <2>2, <2>4 DEF IndexInv, IndexHeld, NoIndexLeft
    <2> QED BY <2>5, <2>6
<1>7. CASE SecretChanges
    <2>1. UNCHANGED <<search, config, src, user, idx, index, srun, irun>>
        BY <1>7 DEF SecretChanges
    <2>2. CASE /\ secret.st = "owned" /\ secret' = [secret EXCEPT !.st = "labelled"]
               /\ hist' = [hist EXCEPT !.faults = @ + 1]
        <3>1. /\ hist'.secretLost = hist.secretLost /\ hist'.unref = hist.unref
              /\ hist'.blind = hist.blind
            BY <2>2, <1>s, HistFields
        <3>2. secret'.st = "labelled"
            BY <2>2, <1>s DEF IsSecret
        <3>3. SearchInv'
            BY <2>1, <2>2, <3>1, <3>2, <1>n
            DEF SearchInv, ConfigFirst, SecretBehind, SearchHeld, UsersTraced, Traced
        <3> QED BY <2>1, <3>1, <3>3, IndexFrame
    <2>3. CASE /\ secret' = [st |-> "none", pw |-> 0]
               /\ hist' = [hist EXCEPT !.faults = @ + 1, !.secretLost = TRUE]
        <3>1. hist'.secretLost /\ hist'.unref = hist.unref /\ hist'.blind = hist.blind
            BY <2>3, <1>s, HistFields
        <3>2. secret'.pw = 0
            BY <2>3
        <3>3. SearchInv'
            BY <2>1, <3>1, <3>2, <1>n, Zenon
            DEF SearchInv, ConfigFirst, SecretBehind, SearchHeld, UsersTraced, Traced
        <3> QED BY <2>1, <3>1, <3>3, IndexFrame
    <2> QED BY <1>7, <2>2, <2>3 DEF SecretChanges
<1>8. CASE Crash
    <2>1. UNCHANGED <<search, secret, config, src, user, idx, index>> /\ Faulty
        BY <1>8 DEF Crash
    <2>2. /\ srun' = srun \/ srun'.pc = "Idle"
          /\ irun' = irun \/ (irun'.pc = "Idle" /\ irun.pc # "Idle")
        BY <1>8 DEF Crash, IdleS, IdleI
    <2>3. SearchInv'
        BY <2>1, <2>2, <1>f, <1>n
        DEF SearchInv, ConfigFirst, SecretBehind, SearchHeld, UsersTraced, Traced
    <2>4. IndexInv'
        BY <2>1, <2>2, <1>f DEF IndexInv, IndexHeld, NoIndexLeft
    <2> QED BY <2>3, <2>4
<1>9. CASE GivenSecretChanges
    <2>1. /\ UNCHANGED <<search, secret, config, src, user, idx, index, srun, irun>>
          /\ hist' = hist \/ Faulty
        BY <1>9 DEF GivenSecretChanges
    <2> QED BY <2>1, <1>f, <1>n, <1>m, SearchFrame, IndexFrame
<1> QED BY <1>1, <1>2, <1>3, <1>4, <1>5, <1>6, <1>7, <1>8, <1>9 DEF Cluster

LEMMA StepInv == SInv /\ [Next]_vars => SInv'
<1> SUFFICES ASSUME SInv, [Next]_vars PROVE SInv'
    OBVIOUS
<1>0. SearchInv /\ IndexInv /\ Shapes'
    BY StepShapes DEF SInv, SearchInv, IndexInv
<1>g. SearchInv' /\ IndexInv' => SInv'
    BY DEF SInv, SearchInv, IndexInv
<1>1. CASE ReconcileSearch
    <2>1. SearchInv' /\ hist'.blind = hist.blind
        BY <1>0, <1>1, SearchWrites, SearchUsers DEF ReconcileSearch
    <2>2. UNCHANGED <<idx, index, irun>>
        BY <1>1 DEF ReconcileSearch, StartSearch, GetSource, ensureSyncSecret, applyConfigMap,
                    annotateSource, ensureSyncMongoUser, updateSearchStatus, handleSearchDeletion
    <2> QED BY <1>0, <1>g, <2>1, <2>2, IndexFrame
<1>2. CASE ReconcileIndex
    <2>1. IndexInv' /\ hist'.secretLost = hist.secretLost /\ hist'.unref = hist.unref
        BY <1>0, <1>2, IndexActions DEF ReconcileIndex
    <2>2. UNCHANGED <<search, secret, config, src, user, srun>>
        BY <1>2 DEF ReconcileIndex, StartIndex, ListIndexes, CreateIndex, DropIndex
    <2>3. (~src'.exists => NoUser') /\ (src'.exists => src.exists)
        BY <1>0, <2>2 DEF SearchInv, UsersTraced, NoUser
    <2> QED BY <1>0, <1>g, <2>1, <2>2, <2>3, SearchFrame
<1>3. CASE \/ Cluster \/ SourceStops \/ SourceGone \/ Edit \/ SecretChanges
           \/ GivenSecretChanges \/ Crash
           \/ \E p \in Pods : PodRestarts(p)
    BY <1>0, <1>3, <1>g, SurroundingsInv
<1>4. CASE UNCHANGED vars
    BY <1>4 DEF vars, SInv, Shapes, ConfigFirst, SecretBehind, SearchHeld, UsersTraced, Traced,
                IndexHeld, NoUserLeft, NoIndexLeft, NoUser
<1> QED BY <1>1, <1>2, <1>3, <1>4 DEF Next

\* Only the Secret step lets a pass for the user's own Secret go on, and only annotateSource
\* names it.
LEMMA StepOwn == Shapes /\ OwnFirst /\ [Next]_vars => OwnFirst'
<1> SUFFICES ASSUME Shapes, OwnFirst, [Next]_vars PROVE OwnFirst'
    OBVIOUS
<1>s. IsSearchRun(srun) /\ IsSource(src)
    BY DEF Shapes
<1>g. \A step : GotoS(step) => srun'.pc = step /\ srun'.own = srun.own
    BY <1>s, RunFields DEF GotoS
<1>p. \A ph : SetSearchPhase(ph) => srun'.pc = "Idle"
    BY DEF SetSearchPhase, IdleS
<1>1. ASSUME UNCHANGED <<given, src>>, srun' = srun \/ srun'.pc \notin {"Config", "Annotate"}
      PROVE  OwnFirst'
    BY <1>1 DEF OwnFirst
<1>2. CASE StartSearch
    <2>1. srun'.pc \in {"Drop", "Idle", "Source"}
        <3>1. CASE ~search.deleting /\ search.ref
            <4>1. srun' = [IdleS EXCEPT !.pc = "Source", !.own = search.own]
                BY <1>2, <3>1 DEF StartSearch
            <4> QED BY <4>1, <1>s, RunFields
        <3>2. CASE ~search.deleting /\ ~search.ref
            BY <1>2, <3>2, <1>p DEF StartSearch
        <3>3. CASE search.deleting
            BY <1>2, <3>3, <1>g DEF StartSearch, IdleS
        <3> QED BY <3>1, <3>2, <3>3
    <2> QED BY <1>1, <1>2, <2>1 DEF StartSearch
<1>3. CASE GetSource
    <2>1. srun'.pc \in {"Secret", "Idle"}
        <3>1. CASE src.exists
            <4>1. srun' = [srun EXCEPT !.pc = "Secret", !.running = src.running]
                BY <1>3, <3>1 DEF GetSource
            <4> QED BY <4>1, <1>s, RunFields
        <3>2. CASE ~src.exists
            BY <1>3, <3>2, <1>p DEF GetSource
        <3> QED BY <3>1, <3>2
    <2> QED BY <1>1, <1>3, <2>1 DEF GetSource
<1>4. CASE ensureSyncSecret
    BY <1>4, <1>g, <1>p DEF ensureSyncSecret, OwnFirst
<1>5. CASE applyConfigMap
    BY <1>5, <1>g DEF applyConfigMap, OwnFirst
<1>6. CASE annotateSource
    <2>1. CASE src.exists
        <3>1. src' = [src EXCEPT !.annotated = SyncSecret] /\ GotoS("User")
            BY <1>6, <2>1 DEF annotateSource
        <3>2. src'.annotated = SyncSecret
            BY <3>1, <1>s, SourceFields
        <3> QED BY <1>6, <3>1, <3>2, <1>g DEF annotateSource, SyncSecret, OwnFirst
    <2>2. CASE ~src.exists
        BY <1>1, <1>6, <2>2 DEF annotateSource, IdleS
    <2> QED BY <2>1, <2>2
<1>7. CASE ensureSyncMongoUser \/ updateSearchStatus \/ handleSearchDeletion
    <2>1. UNCHANGED <<given, src>> /\ srun'.pc \in {"Status", "Idle"}
        BY <1>7, <1>g, <1>p DEF ensureSyncMongoUser, updateSearchStatus, handleSearchDeletion, IdleS
    <2> QED BY <1>1, <2>1
<1>8. CASE ReconcileIndex
    BY <1>1, <1>8 DEF ReconcileIndex, StartIndex, ListIndexes, CreateIndex, DropIndex
<1>9. CASE SourceRuns \/ SourceStops \/ SourceGone
    <2>1. UNCHANGED <<given, srun>>
        BY <1>9 DEF SourceRuns, SourceStops, SourceGone
    <2>2. src'.annotated \in {src.annotated, "no"}
        <3>1. CASE SourceGone
            BY <3>1 DEF SourceGone
        <3>2. CASE SourceRuns \/ SourceStops
            <4>1. PICK b : src' = [src EXCEPT !.running = b]
                BY <3>2, Zenon DEF SourceRuns, SourceStops
            <4> QED BY <4>1, <1>s, SourceFields
        <3> QED BY <1>9, <3>1, <3>2
    <2> QED BY <2>1, <2>2 DEF OwnFirst
<1>10. CASE \/ IndexBuilds \/ Collect \/ Edit \/ SecretChanges \/ Crash \/ UNCHANGED vars
            \/ \E p \in Pods : RollPod(p) \/ SidecarReady(p)
            \/ \E p \in Pods : PodRestarts(p)
    BY <1>1, <1>10
    DEF IndexBuilds, Collect, Edit, SecretChanges, Crash, RollPod, SidecarReady, PodRestarts, vars,
        IdleS
<1>11. CASE GivenSecretChanges
    BY <1>11 DEF GivenSecretChanges, OwnFirst
<1> QED
    BY <1>2, <1>3, <1>4, <1>5, <1>6, <1>7, <1>8, <1>9, <1>10, <1>11
    DEF Next, ReconcileSearch, Cluster

LEMMA Invariant == Spec => [](SInv /\ OwnFirst)
<1>1. Init => OwnFirst
    <2> SUFFICES ASSUME Init PROVE OwnFirst
        OBVIOUS
    <2>1. srun.pc = "Idle" /\ src.annotated = "no" /\ given \in {"no", "yes"}
        BY Zenon DEF Init, IdleS
    <2> QED BY <2>1 DEF OwnFirst
<1>2. SInv /\ OwnFirst /\ [Next]_vars => OwnFirst'
    BY StepOwn DEF SInv
<1> QED BY InitInv, StepInv, <1>1, <1>2, PTL DEF Spec

\* While a search exists, the source's annotation never names configuration that is not there,
\* whatever is edited or fails in between (reconcile writes the Secret and the ConfigMap before
\* annotateSource, and resolveSyncUser stops a pass whose user's own Secret is missing).
THEOREM SidecarsCanStart == Spec => []AnnotatedPodsCanStart
<1>1. SInv /\ OwnFirst => AnnotatedPodsCanStart
    BY DEF SInv, Shapes, IsSource, ConfigFirst, SecretBehind, OwnFirst, AnnotatedPodsCanStart,
           Mountable, SecretLost
<1> QED BY <1>1, Invariant, PTL

\* The finalizers keep their promise: no sync user and no index outlives its object, for any
\* number of stores and any number of faults (both handleDeletions).
THEOREM DeletionsAreClean == Spec => []DeletionIsClean
<1>1. SInv => DeletionIsClean
    BY DEF SInv, DeletionIsClean
<1> QED BY <1>1, Invariant, PTL
=============================================================================
