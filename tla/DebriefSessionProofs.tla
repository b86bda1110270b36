------------------------ MODULE DebriefSessionProofs ------------------------
(***************************************************************************)
(* Proofs about DebriefSession, for any files, KPIs, ads and bounds.  The  *)
(* queue is told apart from the rest of the session (QueueInv): removing   *)
(* the entry with an id cuts one place out of it because no two have one.  *)
(***************************************************************************)
EXTENDS DebriefSession, ListsProofs, TLAPS

(* The types of what the session is about.                                 *)
SessionTypes ==
    /\ kpi \in Kpis
    /\ file \in Files \cup {None}
    /\ formats \in Files \cup {None}
    /\ groups \in Files \cup {None}
    /\ memo \in Run \cup {None}
    /\ runs \subseteq Run
    /\ sent \in 0 .. MaxRuns

(* The types of what is on screen and of what numbers the queue.           *)
ScreenTypes ==
    /\ page \in {"generator", "elsewhere"}
    /\ status \in {"idle", "processing", "ready"}
    /\ unused \in 1 .. MaxRuns \cup {None}
    /\ nextId \in 1 .. MaxEntries + 1
    /\ manual \in BOOLEAN /\ checked \in BOOLEAN
    /\ pulling \in BOOLEAN /\ added \in BOOLEAN
    /\ orphans \in Nat

(* What is entered about the ads is about those of the loaded file: the    *)
(* strengthening that makes OwnInputs inductive, since a run captures it.  *)
InputsInv ==
    /\ {formats, groups} \subseteq {None, file}
    /\ OwnInputs

(* No two ads share an object URL, so that replacing the image of one      *)
(* never revokes the other's.                                              *)
ImagesInv ==
    /\ images \in [Ads -> Urls \cup {None, Sample}]
    /\ live \subseteq Urls
    /\ \A a, b \in Ads : a # b /\ images[a] \in Urls => images[a] # images[b]
    /\ ImagesLive

(* Every entry of the queue has an id of its own, of those handed out.     *)
QueueInv ==
    /\ IsList(queue)
    /\ IdsDiffer(queue)
    /\ \A i \in 1 .. Len(queue) : queue[i].id \in 1 .. nextId - 1

(* Every step keeps the types.                                             *)
LEMMA TypesStep ==
    ASSUME SessionTypes, [Next]_vars
    PROVE  SessionTypes'
<1> USE DEF SessionTypes, Run
<1>1. ASSUME NEW f \in Files \cup {None}, PickFile(f)
        PROVE  SessionTypes'
  BY <1>1, SessionAssumption
     DEF PickFile, SetFile, inputs, answer, portfolio, requests
<1>2. ASSUME NEW f \in Files \cup {None}, ConfirmFormats(f)
        PROVE  SessionTypes'
  BY <1>2, SessionAssumption
     DEF ConfirmFormats, TableShown, inputs, answer, portfolio, requests
<1>3. ASSUME NEW f \in Files \cup {None}, AssignGroups(f)
        PROVE  SessionTypes'
  BY <1>3, SessionAssumption
     DEF AssignGroups, TableShown, inputs, answer, portfolio, requests
<1>4. ASSUME LoadSample
        PROVE  SessionTypes'
  BY <1>4, SessionAssumption
     DEF LoadSample, SetFile, inputs, answer, portfolio, requests
<1>5. ASSUME FileRead
        PROVE  SessionTypes'
  BY <1>5, SessionAssumption
     DEF FileRead, AutoKpi, inputs, answer, portfolio, requests
<1>6. ASSUME Generate
        PROVE  SessionTypes'
  BY <1>6, SessionAssumption
     DEF Generate, StartRun, FormShown, PanelShown, inputs, answer, portfolio, requests
<1>7. ASSUME NEW k \in Kpis, ChooseKpi(k)
        PROVE  SessionTypes'
  BY <1>7, SessionAssumption
     DEF ChooseKpi, inputs, answer, portfolio, requests
<1>8. ASSUME NEW k \in Kpis, SwitchKpi(k)
        PROVE  SessionTypes'
  BY <1>8, SessionAssumption
     DEF SwitchKpi, StartRun, ReportShown, inputs, answer, portfolio, requests
<1>9. ASSUME NEW a \in Ads, RemoveImage(a)
        PROVE  SessionTypes'
  BY <1>9, SessionAssumption
     DEF RemoveImage, TableShown, inputs, answer, portfolio, requests
<1>10. ASSUME NEW a \in Ads, NEW u \in Urls, AttachImage(a, u)
        PROVE  SessionTypes'
  BY <1>10, SessionAssumption
     DEF AttachImage, TableShown, inputs, answer, portfolio, requests
<1>11. ASSUME NEW r \in runs, Refuse(r)
        PROVE  SessionTypes'
  BY <1>11, SessionAssumption
     DEF Refuse, inputs, answer, portfolio, requests
<1>12. ASSUME NEW r \in runs, NEW c \in {None, r.id}, Answer(r, c)
        PROVE  SessionTypes'
  BY <1>12, SessionAssumption
     DEF Answer, inputs, answer, portfolio, requests
<1>13. ASSUME NEW typed \in BOOLEAN, AddToQueue(typed)
        PROVE  SessionTypes'
  BY <1>13, SessionAssumption
     DEF AddToQueue, inputs, answer, portfolio, requests
<1>14. ASSUME NEW id \in 1 .. MaxEntries, RemoveFromQueue(id)
        PROVE  SessionTypes'
  BY <1>14, SessionAssumption
     DEF RemoveFromQueue, inputs, answer, portfolio, requests
<1>15. ASSUME NewDebrief
        PROVE  SessionTypes'
  BY <1>15, SessionAssumption
     DEF NewDebrief, ResetSession, SetFile, inputs, answer, portfolio, requests, ReportShown
<1>16. ASSUME AddAnother
        PROVE  SessionTypes'
  BY <1>16, SessionAssumption
     DEF AddAnother, ResetSession, SetFile, inputs, answer, portfolio, requests
<1>17. ASSUME Navigate
        PROVE  SessionTypes'
  BY <1>17, SessionAssumption
     DEF Navigate, inputs, answer, portfolio, requests
<1>18. ASSUME Leave
        PROVE  SessionTypes'
  BY <1>18, SessionAssumption
     DEF Leave, ResetSession, SetFile, inputs, answer, portfolio, requests
<1>19. ASSUME StartPull
        PROVE  SessionTypes'
  BY <1>19, SessionAssumption
     DEF StartPull, inputs, answer, portfolio, requests
<1>20. ASSUME PullFails
        PROVE  SessionTypes'
  BY <1>20, SessionAssumption
     DEF PullFails, inputs, answer, portfolio, requests
<1>21. ASSUME NEW f \in Files, PullArrives(f)
        PROVE  SessionTypes'
  BY <1>21, SessionAssumption
     DEF PullArrives, SetFile, inputs, answer, portfolio, requests
<1>22. CASE UNCHANGED vars
  BY <1>22 DEF vars, inputs, answer, portfolio, requests
<1>23. QED BY <1>1, <1>2, <1>3, <1>4, <1>5, <1>6, <1>7, <1>8, <1>9, <1>10,
           <1>11, <1>12, <1>13, <1>14, <1>15, <1>16, <1>17, <1>18, <1>19,
           <1>20, <1>21, <1>22 DEF Next

(* What a render leaves mounted has its types, whichever it is.            *)
LEMMA RenderTypes ==
    ASSUME NEW isManual, NEW isChecked, NEW isAdded, NEW isPulling, NEW others \in Nat,
           Render(isManual, isChecked, isAdded, isPulling, others)
    PROVE  /\ manual' \in BOOLEAN /\ checked' \in BOOLEAN
           /\ pulling' \in BOOLEAN /\ added' \in BOOLEAN
           /\ orphans' \in Nat
<1>1. manual' \in BOOLEAN /\ checked' \in BOOLEAN /\ added' \in BOOLEAN
  BY Zenon DEF Render
<1>2. pulling' \in BOOLEAN
  BY Zenon DEF Render
<1>3. orphans' \in Nat
  BY DEF Render
<1>4. QED BY <1>1, <1>2, <1>3

(* A pull that ends leaves at most as many others as there were.           *)
LEMMA PullTypes ==
    ASSUME orphans \in Nat, NEW readAgain, PullEnds(readAgain)
    PROVE  /\ manual' \in BOOLEAN /\ checked' \in BOOLEAN
           /\ pulling' \in BOOLEAN /\ added' \in BOOLEAN
           /\ orphans' \in Nat
<1>1. CASE Render(manual, checked /\ ~readAgain, added, FALSE, orphans)
  BY <1>1, RenderTypes
<1>2. CASE orphans > 0 /\ Render(manual, checked /\ ~readAgain, added, pulling, orphans - 1)
  <2>1. orphans - 1 \in Nat
    BY <1>2
  <2>2. QED BY <1>2, <2>1, RenderTypes
<1>3. QED BY <1>1, <1>2 DEF PullEnds

(* Every step keeps the types of what is on screen.                        *)
LEMMA ScreenStep ==
    ASSUME SessionTypes, ScreenTypes, [Next]_vars
    PROVE  ScreenTypes'
<1> USE DEF ScreenTypes
<1>1. ASSUME NEW f \in Files \cup {None}, PickFile(f)
        PROVE  ScreenTypes'
  BY <1>1, RenderTypes, SessionAssumption
     DEF PickFile, answer, portfolio
<1>2. ASSUME NEW f \in Files \cup {None}, ConfirmFormats(f)
        PROVE  ScreenTypes'
  BY <1>2, RenderTypes, SessionAssumption
     DEF ConfirmFormats, Keep, answer, portfolio
<1>3. ASSUME NEW f \in Files \cup {None}, AssignGroups(f)
        PROVE  ScreenTypes'
  BY <1>3, RenderTypes, SessionAssumption
     DEF AssignGroups, Keep, answer, portfolio
<1>4. ASSUME LoadSample
        PROVE  ScreenTypes'
  BY <1>4, RenderTypes, SessionAssumption
     DEF LoadSample, answer, portfolio
<1>5. ASSUME FileRead
        PROVE  ScreenTypes'
  BY <1>5, RenderTypes, SessionAssumption
     DEF FileRead, answer, portfolio
<1>6. ASSUME Generate
        PROVE  ScreenTypes'
  BY <1>6, RenderTypes, SessionAssumption
     DEF Generate, StartRun, Keep, answer, portfolio
<1>7. ASSUME NEW k \in Kpis, ChooseKpi(k)
        PROVE  ScreenTypes'
  BY <1>7, RenderTypes, SessionAssumption
     DEF ChooseKpi, answer, portfolio
<1>8. ASSUME NEW k \in Kpis, SwitchKpi(k)
        PROVE  ScreenTypes'
  BY <1>8, RenderTypes, SessionAssumption
     DEF SwitchKpi, StartRun, Keep, answer, portfolio
<1>9. ASSUME NEW a \in Ads, RemoveImage(a)
        PROVE  ScreenTypes'
  BY <1>9, RenderTypes, SessionAssumption
     DEF RemoveImage, Keep, answer, portfolio
<1>10. ASSUME NEW a \in Ads, NEW u \in Urls, AttachImage(a, u)
        PROVE  ScreenTypes'
  BY <1>10, RenderTypes, SessionAssumption
     DEF AttachImage, Keep, answer, portfolio
<1>11. ASSUME NEW r \in runs, Refuse(r)
        PROVE  ScreenTypes'
  BY <1>11, RenderTypes, SessionAssumption
     DEF Refuse, Keep, answer, portfolio
<1>12. ASSUME NEW r \in runs, NEW c \in {None, r.id}, Answer(r, c)
        PROVE  ScreenTypes'
  BY <1>12, RenderTypes, SessionAssumption
     DEF Answer, Keep, answer, portfolio, SessionTypes, Run
<1>13. ASSUME NEW typed \in BOOLEAN, AddToQueue(typed)
        PROVE  ScreenTypes'
  <2>1. /\ manual' \in BOOLEAN /\ checked' \in BOOLEAN
        /\ pulling' \in BOOLEAN /\ added' \in BOOLEAN
        /\ orphans' \in Nat
    BY <1>13, RenderTypes DEF AddToQueue
  <2>2. nextId' \in 1 .. MaxEntries + 1
    BY <1>13, SessionAssumption DEF AddToQueue
  <2>3. UNCHANGED <<page, status, unused>>
    BY <1>13 DEF AddToQueue, answer
  <2>4. QED BY <2>1, <2>2, <2>3
<1>14. ASSUME NEW id \in 1 .. MaxEntries, RemoveFromQueue(id)
        PROVE  ScreenTypes'
  BY <1>14, RenderTypes, SessionAssumption
     DEF RemoveFromQueue, Keep, answer, portfolio
<1>15. ASSUME NewDebrief
        PROVE  ScreenTypes'
  BY <1>15, RenderTypes, SessionAssumption
     DEF NewDebrief, ResetSession, answer, portfolio
<1>16. ASSUME AddAnother
        PROVE  ScreenTypes'
  BY <1>16, RenderTypes, SessionAssumption
     DEF AddAnother, ResetSession, answer, portfolio
<1>17. ASSUME Navigate
        PROVE  ScreenTypes'
  BY <1>17, RenderTypes, SessionAssumption
     DEF Navigate, Keep, answer, portfolio
<1>18. ASSUME Leave
        PROVE  ScreenTypes'
  <2>1. /\ manual' \in BOOLEAN /\ checked' \in BOOLEAN
        /\ pulling' \in BOOLEAN /\ added' \in BOOLEAN
    BY <1>18, Zenon DEF Leave
  <2>2. nextId' \in 1 .. MaxEntries + 1 /\ orphans' \in Nat
    BY <1>18, SessionAssumption DEF Leave
  <2>3. page' = "generator" /\ status' = "idle" /\ unused' = None
    BY <1>18 DEF Leave, ResetSession
  <2>4. QED BY <2>1, <2>2, <2>3
<1>19. ASSUME StartPull
        PROVE  ScreenTypes'
  BY <1>19, RenderTypes, SessionAssumption
     DEF StartPull, answer, portfolio
<1>20. ASSUME PullFails
        PROVE  ScreenTypes'
  BY <1>20, PullTypes DEF PullFails, answer, portfolio
<1>21. ASSUME NEW f \in Files, PullArrives(f)
        PROVE  ScreenTypes'
  BY <1>21, PullTypes DEF PullArrives, answer, portfolio
<1>22. CASE UNCHANGED vars
  BY <1>22 DEF vars, answer, portfolio, mounted
<1>23. QED BY <1>1, <1>2, <1>3, <1>4, <1>5, <1>6, <1>7, <1>8, <1>9, <1>10,
           <1>11, <1>12, <1>13, <1>14, <1>15, <1>16, <1>17, <1>18, <1>19,
           <1>20, <1>21, <1>22 DEF Next

(* No page starts a run, or resets the session, while one is in flight.    *)
LEMMA OneRunStep ==
    ASSUME OneRunAtATime, [Next]_vars
    PROVE  OneRunAtATime'
<1> USE DEF OneRunAtATime
<1>1. ASSUME NEW f \in Files \cup {None}, PickFile(f)
        PROVE  OneRunAtATime'
  BY <1>1
     DEF PickFile, SetFile, inputs, answer, portfolio, requests
<1>2. ASSUME NEW f \in Files \cup {None}, ConfirmFormats(f)
        PROVE  OneRunAtATime'
  BY <1>2
     DEF ConfirmFormats, TableShown, inputs, answer, portfolio, requests
<1>3. ASSUME NEW f \in Files \cup {None}, AssignGroups(f)
        PROVE  OneRunAtATime'
  BY <1>3
     DEF AssignGroups, TableShown, inputs, answer, portfolio, requests
<1>4. ASSUME LoadSample
        PROVE  OneRunAtATime'
  BY <1>4
     DEF LoadSample, SetFile, inputs, answer, portfolio, requests
<1>5. ASSUME FileRead
        PROVE  OneRunAtATime'
  BY <1>5
     DEF FileRead, AutoKpi, inputs, answer, portfolio, requests
<1>6. ASSUME Generate
        PROVE  OneRunAtATime'
  BY <1>6
     DEF Generate, StartRun, FormShown, PanelShown, inputs, answer, portfolio, requests
<1>7. ASSUME NEW k \in Kpis, ChooseKpi(k)
        PROVE  OneRunAtATime'
  BY <1>7
     DEF ChooseKpi, inputs, answer, portfolio, requests
<1>8. ASSUME NEW k \in Kpis, SwitchKpi(k)
        PROVE  OneRunAtATime'
  BY <1>8
     DEF SwitchKpi, StartRun, ReportShown, inputs, answer, portfolio, requests
<1>9. ASSUME NEW a \in Ads, RemoveImage(a)
        PROVE  OneRunAtATime'
  BY <1>9
     DEF RemoveImage, TableShown, inputs, answer, portfolio, requests
<1>10. ASSUME NEW a \in Ads, NEW u \in Urls, AttachImage(a, u)
        PROVE  OneRunAtATime'
  BY <1>10
     DEF AttachImage, TableShown, inputs, answer, portfolio, requests
<1>11. ASSUME NEW r \in runs, Refuse(r)
        PROVE  OneRunAtATime'
  BY <1>11
     DEF Refuse, inputs, answer, portfolio, requests
<1>12. ASSUME NEW r \in runs, NEW c \in {None, r.id}, Answer(r, c)
        PROVE  OneRunAtATime'
  BY <1>12
     DEF Answer, inputs, answer, portfolio, requests
<1>13. ASSUME NEW typed \in BOOLEAN, AddToQueue(typed)
        PROVE  OneRunAtATime'
  BY <1>13
     DEF AddToQueue, inputs, answer, portfolio, requests
<1>14. ASSUME NEW id \in 1 .. MaxEntries, RemoveFromQueue(id)
        PROVE  OneRunAtATime'
  BY <1>14
     DEF RemoveFromQueue, inputs, answer, portfolio, requests
<1>15. ASSUME NewDebrief
        PROVE  OneRunAtATime'
  BY <1>15
     DEF NewDebrief, ResetSession, SetFile, inputs, answer, portfolio, requests, ReportShown
<1>16. ASSUME AddAnother
        PROVE  OneRunAtATime'
  BY <1>16
     DEF AddAnother, ResetSession, SetFile, inputs, answer, portfolio, requests
<1>17. ASSUME Navigate
        PROVE  OneRunAtATime'
  BY <1>17
     DEF Navigate, inputs, answer, portfolio, requests
<1>18. ASSUME Leave
        PROVE  OneRunAtATime'
  BY <1>18
     DEF Leave, ResetSession, SetFile, inputs, answer, portfolio, requests
<1>19. ASSUME StartPull
        PROVE  OneRunAtATime'
  BY <1>19
     DEF StartPull, inputs, answer, portfolio, requests
<1>20. ASSUME PullFails
        PROVE  OneRunAtATime'
  BY <1>20
     DEF PullFails, inputs, answer, portfolio, requests
<1>21. ASSUME NEW f \in Files, PullArrives(f)
        PROVE  OneRunAtATime'
  BY <1>21
     DEF PullArrives, SetFile, inputs, answer, portfolio, requests
<1>22. CASE UNCHANGED vars
  BY <1>22 DEF vars, inputs, answer, portfolio, requests
<1>23. QED BY <1>1, <1>2, <1>3, <1>4, <1>5, <1>6, <1>7, <1>8, <1>9, <1>10,
           <1>11, <1>12, <1>13, <1>14, <1>15, <1>16, <1>17, <1>18, <1>19,
           <1>20, <1>21, <1>22 DEF Next

(* Every step keeps what is entered with the file it was entered for.      *)
LEMMA InputsStep ==
    ASSUME InputsInv, [Next]_vars
    PROVE  InputsInv'
<1> USE DEF InputsInv, OwnInputs
<1>1. ASSUME NEW f \in Files \cup {None}, PickFile(f)
        PROVE  InputsInv'
  BY <1>1
     DEF PickFile, SetFile, inputs, answer, portfolio, requests
<1>2. ASSUME NEW f \in Files \cup {None}, ConfirmFormats(f)
        PROVE  InputsInv'
  BY <1>2
     DEF ConfirmFormats, TableShown, inputs, answer, portfolio, requests
<1>3. ASSUME NEW f \in Files \cup {None}, AssignGroups(f)
        PROVE  InputsInv'
  BY <1>3
     DEF AssignGroups, TableShown, inputs, answer, portfolio, requests
<1>4. ASSUME LoadSample
        PROVE  InputsInv'
  BY <1>4
     DEF LoadSample, SetFile, inputs, answer, portfolio, requests
<1>5. ASSUME FileRead
        PROVE  InputsInv'
  BY <1>5
     DEF FileRead, AutoKpi, inputs, answer, portfolio, requests
<1>6. ASSUME Generate
        PROVE  InputsInv'
  BY <1>6
     DEF Generate, StartRun, FormShown, PanelShown, inputs, answer, portfolio, requests
<1>7. ASSUME NEW k \in Kpis, ChooseKpi(k)
        PROVE  InputsInv'
  BY <1>7
     DEF ChooseKpi, inputs, answer, portfolio, requests
<1>8. ASSUME NEW k \in Kpis, SwitchKpi(k)
        PROVE  InputsInv'
  BY <1>8
     DEF SwitchKpi, StartRun, ReportShown, inputs, answer, portfolio, requests
<1>9. ASSUME NEW a \in Ads, RemoveImage(a)
        PROVE  InputsInv'
  BY <1>9
     DEF RemoveImage, TableShown, inputs, answer, portfolio, requests
<1>10. ASSUME NEW a \in Ads, NEW u \in Urls, AttachImage(a, u)
        PROVE  InputsInv'
  BY <1>10
     DEF AttachImage, TableShown, inputs, answer, portfolio, requests
<1>11. ASSUME NEW r \in runs, Refuse(r)
        PROVE  InputsInv'
  BY <1>11
     DEF Refuse, inputs, answer, portfolio, requests
<1>12. ASSUME NEW r \in runs, NEW c \in {None, r.id}, Answer(r, c)
        PROVE  InputsInv'
  BY <1>12
     DEF Answer, inputs, answer, portfolio, requests
<1>13. ASSUME NEW typed \in BOOLEAN, AddToQueue(typed)
        PROVE  InputsInv'
  BY <1>13
     DEF AddToQueue, inputs, answer, portfolio, requests
<1>14. ASSUME NEW id \in 1 .. MaxEntries, RemoveFromQueue(id)
        PROVE  InputsInv'
  BY <1>14
     DEF RemoveFromQueue, inputs, answer, portfolio, requests
<1>15. ASSUME NewDebrief
        PROVE  InputsInv'
  BY <1>15
     DEF NewDebrief, ResetSession, SetFile, inputs, answer, portfolio, requests, ReportShown
<1>16. ASSUME AddAnother
        PROVE  InputsInv'
  BY <1>16
     DEF AddAnother, ResetSession, SetFile, inputs, answer, portfolio, requests
<1>17. ASSUME Navigate
        PROVE  InputsInv'
  BY <1>17
     DEF Navigate, inputs, answer, portfolio, requests
<1>18. ASSUME Leave
        PROVE  InputsInv'
  BY <1>18
     DEF Leave, ResetSession, SetFile, inputs, answer, portfolio, requests
<1>19. ASSUME StartPull
        PROVE  InputsInv'
  BY <1>19
     DEF StartPull, inputs, answer, portfolio, requests
<1>20. ASSUME PullFails
        PROVE  InputsInv'
  BY <1>20
     DEF PullFails, inputs, answer, portfolio, requests
<1>21. ASSUME NEW f \in Files, PullArrives(f)
        PROVE  InputsInv'
  BY <1>21
     DEF PullArrives, SetFile, inputs, answer, portfolio, requests
<1>22. CASE UNCHANGED vars
  BY <1>22 DEF vars, inputs, answer, portfolio, requests
<1>23. QED BY <1>1, <1>2, <1>3, <1>4, <1>5, <1>6, <1>7, <1>8, <1>9, <1>10,
           <1>11, <1>12, <1>13, <1>14, <1>15, <1>16, <1>17, <1>18, <1>19,
           <1>20, <1>21, <1>22 DEF Next

(* Every step that drops an image revokes its URL, and no other.           *)
LEMMA ImagesStep ==
    ASSUME ImagesInv, [Next]_vars
    PROVE  ImagesInv'
<1> USE DEF ImagesInv, ImagesLive, Blobs, NoImages
<1>1. ASSUME NEW f \in Files \cup {None}, PickFile(f)
        PROVE  ImagesInv'
  BY <1>1, SessionAssumption
     DEF PickFile, SetFile, inputs, answer, portfolio, requests
<1>2. ASSUME NEW f \in Files \cup {None}, ConfirmFormats(f)
        PROVE  ImagesInv'
  BY <1>2, SessionAssumption
     DEF ConfirmFormats, TableShown, inputs, answer, portfolio, requests
<1>3. ASSUME NEW f \in Files \cup {None}, AssignGroups(f)
        PROVE  ImagesInv'
  BY <1>3, SessionAssumption
     DEF AssignGroups, TableShown, inputs, answer, portfolio, requests
<1>4. ASSUME LoadSample
        PROVE  ImagesInv'
  BY <1>4, SessionAssumption
     DEF LoadSample, SetFile, inputs, answer, portfolio, requests
<1>5. ASSUME FileRead
        PROVE  ImagesInv'
  BY <1>5, SessionAssumption
     DEF FileRead, AutoKpi, inputs, answer, portfolio, requests
<1>6. ASSUME Generate
        PROVE  ImagesInv'
  BY <1>6, SessionAssumption
     DEF Generate, StartRun, FormShown, PanelShown, inputs, answer, portfolio, requests
<1>7. ASSUME NEW k \in Kpis, ChooseKpi(k)
        PROVE  ImagesInv'
  BY <1>7, SessionAssumption
     DEF ChooseKpi, inputs, answer, portfolio, requests
<1>8. ASSUME NEW k \in Kpis, SwitchKpi(k)
        PROVE  ImagesInv'
  BY <1>8, SessionAssumption
     DEF SwitchKpi, StartRun, ReportShown, inputs, answer, portfolio, requests
<1>9. ASSUME NEW a \in Ads, RemoveImage(a)
        PROVE  ImagesInv'
  BY <1>9, SessionAssumption
     DEF RemoveImage, TableShown, inputs, answer, portfolio, requests
<1>10. ASSUME NEW a \in Ads, NEW u \in Urls, AttachImage(a, u)
        PROVE  ImagesInv'
  BY <1>10, SessionAssumption
     DEF AttachImage, TableShown, inputs, answer, portfolio, requests
<1>11. ASSUME NEW r \in runs, Refuse(r)
        PROVE  ImagesInv'
  BY <1>11, SessionAssumption
     DEF Refuse, inputs, answer, portfolio, requests
<1>12. ASSUME NEW r \in runs, NEW c \in {None, r.id}, Answer(r, c)
        PROVE  ImagesInv'
  BY <1>12, SessionAssumption
     DEF Answer, inputs, answer, portfolio, requests
<1>13. ASSUME NEW typed \in BOOLEAN, AddToQueue(typed)
        PROVE  ImagesInv'
  BY <1>13, SessionAssumption
     DEF AddToQueue, inputs, answer, portfolio, requests
<1>14. ASSUME NEW id \in 1 .. MaxEntries, RemoveFromQueue(id)
        PROVE  ImagesInv'
  BY <1>14, SessionAssumption
     DEF RemoveFromQueue, inputs, answer, portfolio, requests
<1>15. ASSUME NewDebrief
        PROVE  ImagesInv'
  BY <1>15, SessionAssumption
     DEF NewDebrief, ResetSession, SetFile, inputs, answer, portfolio, requests, ReportShown
<1>16. ASSUME AddAnother
        PROVE  ImagesInv'
  BY <1>16, SessionAssumption
     DEF AddAnother, ResetSession, SetFile, inputs, answer, portfolio, requests
<1>17. ASSUME Navigate
        PROVE  ImagesInv'
  BY <1>17, SessionAssumption
     DEF Navigate, inputs, answer, portfolio, requests
<1>18. ASSUME Leave
        PROVE  ImagesInv'
  BY <1>18, SessionAssumption
     DEF Leave, ResetSession, SetFile, inputs, answer, portfolio, requests
<1>19. ASSUME StartPull
        PROVE  ImagesInv'
  BY <1>19, SessionAssumption
     DEF StartPull, inputs, answer, portfolio, requests
<1>20. ASSUME PullFails
        PROVE  ImagesInv'
  BY <1>20, SessionAssumption
     DEF PullFails, inputs, answer, portfolio, requests
<1>21. ASSUME NEW f \in Files, PullArrives(f)
        PROVE  ImagesInv'
  BY <1>21, SessionAssumption
     DEF PullArrives, SetFile, inputs, answer, portfolio, requests
<1>22. CASE UNCHANGED vars
  BY <1>22 DEF vars, inputs, answer, portfolio, requests
<1>23. QED BY <1>1, <1>2, <1>3, <1>4, <1>5, <1>6, <1>7, <1>8, <1>9, <1>10,
           <1>11, <1>12, <1>13, <1>14, <1>15, <1>16, <1>17, <1>18, <1>19,
           <1>20, <1>21, <1>22 DEF Next

(* Every step keeps the report and its unused columns together.            *)
LEMMA ReportStep ==
    ASSUME SessionTypes, OneRunAtATime, ReportIsOneAnswer, [Next]_vars
    PROVE  ReportIsOneAnswer'
<1> USE DEF ReportIsOneAnswer
<1>1. ASSUME NEW f \in Files \cup {None}, PickFile(f)
        PROVE  ReportIsOneAnswer'
  BY <1>1
     DEF PickFile, SetFile, inputs, answer, portfolio, requests
<1>2. ASSUME NEW f \in Files \cup {None}, ConfirmFormats(f)
        PROVE  ReportIsOneAnswer'
  BY <1>2
     DEF ConfirmFormats, TableShown, inputs, answer, portfolio, requests
<1>3. ASSUME NEW f \in Files \cup {None}, AssignGroups(f)
        PROVE  ReportIsOneAnswer'
  BY <1>3
     DEF AssignGroups, TableShown, inputs, answer, portfolio, requests
<1>4. ASSUME LoadSample
        PROVE  ReportIsOneAnswer'
  BY <1>4
     DEF LoadSample, SetFile, inputs, answer, portfolio, requests
<1>5. ASSUME FileRead
        PROVE  ReportIsOneAnswer'
  BY <1>5
     DEF FileRead, AutoKpi, inputs, answer, portfolio, requests
<1>6. ASSUME Generate
        PROVE  ReportIsOneAnswer'
  BY <1>6
     DEF Generate, StartRun, FormShown, PanelShown, inputs, answer, portfolio, requests
<1>7. ASSUME NEW k \in Kpis, ChooseKpi(k)
        PROVE  ReportIsOneAnswer'
  BY <1>7
     DEF ChooseKpi, inputs, answer, portfolio, requests
<1>8. ASSUME NEW k \in Kpis, SwitchKpi(k)
        PROVE  ReportIsOneAnswer'
  BY <1>8
     DEF SwitchKpi, StartRun, ReportShown, inputs, answer, portfolio, requests
<1>9. ASSUME NEW a \in Ads, RemoveImage(a)
        PROVE  ReportIsOneAnswer'
  BY <1>9
     DEF RemoveImage, TableShown, inputs, answer, portfolio, requests
<1>10. ASSUME NEW a \in Ads, NEW u \in Urls, AttachImage(a, u)
        PROVE  ReportIsOneAnswer'
  BY <1>10
     DEF AttachImage, TableShown, inputs, answer, portfolio, requests
<1>11. ASSUME NEW r \in runs, Refuse(r)
        PROVE  ReportIsOneAnswer'
  BY <1>11
     DEF Refuse, inputs, answer, portfolio, requests
<1>12. ASSUME NEW r \in runs, NEW c \in {None, r.id}, Answer(r, c)
        PROVE  ReportIsOneAnswer'
  BY <1>12, SessionAssumption
     DEF Answer, inputs, answer, portfolio, requests, SessionTypes
<1>13. ASSUME NEW typed \in BOOLEAN, AddToQueue(typed)
        PROVE  ReportIsOneAnswer'
  BY <1>13
     DEF AddToQueue, inputs, answer, portfolio, requests
<1>14. ASSUME NEW id \in 1 .. MaxEntries, RemoveFromQueue(id)
        PROVE  ReportIsOneAnswer'
  BY <1>14
     DEF RemoveFromQueue, inputs, answer, portfolio, requests
<1>15. ASSUME NewDebrief
        PROVE  ReportIsOneAnswer'
  BY <1>15
     DEF NewDebrief, ResetSession, SetFile, inputs, answer, portfolio, requests, ReportShown
<1>16. ASSUME AddAnother
        PROVE  ReportIsOneAnswer'
  BY <1>16
     DEF AddAnother, ResetSession, SetFile, inputs, answer, portfolio, requests
<1>17. ASSUME Navigate
        PROVE  ReportIsOneAnswer'
  BY <1>17
     DEF Navigate, inputs, answer, portfolio, requests
<1>18. ASSUME Leave
        PROVE  ReportIsOneAnswer'
  BY <1>18
     DEF Leave, ResetSession, SetFile, inputs, answer, portfolio, requests
<1>19. ASSUME StartPull
        PROVE  ReportIsOneAnswer'
  BY <1>19
     DEF StartPull, inputs, answer, portfolio, requests
<1>20. ASSUME PullFails
        PROVE  ReportIsOneAnswer'
  BY <1>20
     DEF PullFails, inputs, answer, portfolio, requests
<1>21. ASSUME NEW f \in Files, PullArrives(f)
        PROVE  ReportIsOneAnswer'
  BY <1>21
     DEF PullArrives, SetFile, inputs, answer, portfolio, requests
<1>22. CASE UNCHANGED vars
  BY <1>22 DEF vars, inputs, answer, portfolio, requests
<1>23. QED BY <1>1, <1>2, <1>3, <1>4, <1>5, <1>6, <1>7, <1>8, <1>9, <1>10,
           <1>11, <1>12, <1>13, <1>14, <1>15, <1>16, <1>17, <1>18, <1>19,
           <1>20, <1>21, <1>22 DEF Next

(* Only these touch the queue.                                             *)
LEMMA QueueTouched ==
    ASSUME [Next]_vars
    PROVE  \/ queue' = queue /\ nextId' = nextId
           \/ \E typed \in BOOLEAN : AddToQueue(typed)
           \/ \E id \in 1 .. MaxEntries : RemoveFromQueue(id)
           \/ Leave
<1> DEFINE Kept == queue' = queue /\ nextId' = nextId
<1>1. ASSUME NEW f \in Files \cup {None}, PickFile(f) \/ ConfirmFormats(f) \/ AssignGroups(f)
      PROVE  Kept
  BY <1>1 DEF PickFile, ConfirmFormats, AssignGroups, portfolio
<1>2. ASSUME LoadSample \/ FileRead \/ Generate PROVE Kept
  BY <1>2 DEF LoadSample, FileRead, Generate, portfolio
<1>3. ASSUME NEW k \in Kpis, ChooseKpi(k) \/ SwitchKpi(k) PROVE Kept
  BY <1>3 DEF ChooseKpi, SwitchKpi, portfolio
<1>4. ASSUME NEW a \in Ads, RemoveImage(a) \/ \E u \in Urls : AttachImage(a, u) PROVE Kept
  BY <1>4 DEF RemoveImage, AttachImage, portfolio
<1>5. ASSUME NEW r \in runs, Refuse(r) \/ \E c \in {None, r.id} : Answer(r, c) PROVE Kept
  BY <1>5 DEF Refuse, Answer, portfolio
<1>6. ASSUME NewDebrief \/ AddAnother \/ Navigate PROVE Kept
  BY <1>6 DEF NewDebrief, AddAnother, Navigate, portfolio
<1>7. ASSUME StartPull \/ PullFails \/ \E f \in Files : PullArrives(f) PROVE Kept
  BY <1>7 DEF StartPull, PullFails, PullArrives, portfolio
<1>8. CASE UNCHANGED vars
  BY <1>8 DEF vars, portfolio
<1> HIDE DEF Kept
<1>9. QED BY <1>1, <1>2, <1>3, <1>4, <1>5, <1>6, <1>7, <1>8 DEF Next, Kept

(* An entry more: its id is above those handed out.                        *)
LEMMA AddStep ==
    ASSUME SessionTypes, ScreenTypes, QueueInv, NEW typed \in BOOLEAN, AddToQueue(typed)
    PROVE  QueueInv' /\ QueueEdited
<1> DEFINE S == Members(queue)
           n == Len(queue)
           e == [id |-> nextId, memo |-> memo, label |-> IF typed THEN Typed ELSE file]
           q == Append(queue, e)
           T == S \cup {e}
<1>1. queue' = q /\ nextId' = nextId + 1 /\ e.id = nextId /\ nextId \in Nat \ {0}
  BY SessionAssumption DEF AddToQueue, ScreenTypes
<1>2. queue \in Seq(T) /\ n \in Nat /\ e \in T
  BY ListIsSeq DEF QueueInv
<1>3. \A i \in 1 .. n : queue[i].id \in 1 .. nextId - 1
  BY DEF QueueInv
<1>4. \A i, j \in 1 .. n : queue[i].id = queue[j].id => i = j
  BY DEF QueueInv, IdsDiffer
<1>5. \E label \in Files \cup {None, Typed} :
          e = [id |-> nextId, memo |-> memo, label |-> label]
  BY DEF SessionTypes
<1>6. DOMAIN queue = 1 .. n
  BY ListIsSeq DEF QueueInv
<1> HIDE DEF e, T
<1>7. /\ q \in Seq(T) /\ Len(q) = n + 1 /\ q[n + 1] = e
      /\ \A i \in 1 .. n : q[i] = queue[i]
  BY <1>2, AppendProperties
<1> HIDE DEF q, n
<1>8. \A i \in 1 .. n + 1 : i = n + 1 \/ i \in 1 .. n
  BY <1>2
<1>9. \A i \in 1 .. n + 1 : q[i].id \in 1 .. nextId
  BY <1>1, <1>3, <1>7, <1>8
<1>10. ASSUME NEW i \in 1 .. n + 1, NEW j \in 1 .. n + 1, q[i].id = q[j].id PROVE i = j
  BY <1>1, <1>3, <1>4, <1>7, <1>8, <1>10
<1>11. QueueInv'
  <2>1. IsList(q)
    BY <1>7, SeqIsList
  <2>2. nextId' - 1 = nextId
    BY <1>1
  <2>3. QED BY <1>1, <1>7, <1>9, <1>10, <2>1, <2>2 DEF QueueInv, IdsDiffer
<1>12. QueueEdited
  <2>1. \A i \in DOMAIN queue : queue[i].id # nextId
    BY <1>1, <1>3, <1>6
  <2>2. QED BY <1>1, <1>5, <2>1 DEF QueueEdited, q
<1>13. QED BY <1>11, <1>12

(* One entry less, or none when nothing has the id.                        *)
LEMMA RemoveStep ==
    ASSUME QueueInv, NEW id, RemoveFromQueue(id)
    PROVE  QueueInv' /\ QueueEdited
<1> DEFINE n == Len(queue)
           places == {i \in DOMAIN queue : queue[i].id # id}
           p == Picked(queue, places)
<1>1. queue' = p /\ nextId' = nextId
  BY DEF RemoveFromQueue
<1>2. IsList(queue) /\ DOMAIN queue = 1 .. n /\ n \in Nat
  BY ListIsSeq DEF QueueInv
<1>3. QueueInv'
  <2> HIDE DEF places
  <2>1. IsList(p) /\ IdsDiffer(p) /\ Members(p) \subseteq Members(queue)
    BY PickedIdsDiffer, PickedWithin DEF QueueInv
  <2>2. \A e \in Members(queue) : e.id \in 1 .. nextId - 1
    BY DEF QueueInv, Members
  <2>3. \A i \in 1 .. Len(p) : p[i] \in Members(p)
    BY DEF Members
  <2> HIDE DEF p
  <2>4. \A i \in 1 .. Len(p) : p[i].id \in 1 .. nextId - 1
    BY <2>1, <2>2, <2>3
  <2>5. QED BY <1>1, <2>1, <2>4 DEF QueueInv
<1>4. IsList(p)
  BY <1>2, PickedProperties
<1>5. CASE \E k \in 1 .. n : queue[k].id = id
  <2>1. PICK k \in 1 .. n : queue[k].id = id
    BY <1>5
  <2>2. \A i \in 1 .. n : i \in places <=> i # k
    BY <1>2, <2>1 DEF QueueInv, IdsDiffer
  <2> HIDE DEF places
  <2>3. CutOf(queue, k, n, p)
    BY <1>2, <2>2, PickedButOne
  <2>4. p = SubSeq(queue, 1, k - 1) \o SubSeq(queue, k + 1, n)
    BY <1>2, <1>4, <2>3, CutIsTwoParts
  <2>5. QED BY <1>1, <1>2, <1>3, <2>4 DEF QueueEdited
<1>6. CASE ~\E k \in 1 .. n : queue[k].id = id
  <2>1. n + 1 \in Nat \ {0} /\ \A i \in 1 .. n : i \in places <=> i # n + 1
    BY <1>2, <1>6
  <2> HIDE DEF places
  <2>2. CutOf(queue, n + 1, n, p)
    BY <1>2, <2>1, PickedButOne
  <2>3. Len(p) = n /\ \A i \in 1 .. n : p[i] = queue[i]
    <3> HIDE DEF p, n
    <3>1. Len(p) = n /\ \A i \in 1 .. n : i < n + 1
      BY <1>2, <2>2 DEF CutOf
    <3>2. QED BY <2>2, <3>1 DEF CutOf
  <2>4. p = queue
    BY <1>2, <1>4, <2>3 DEF IsList
  <2>5. QED BY <1>1, <1>3, <2>4 DEF QueueEdited
<1>7. QED BY <1>5, <1>6

(* Every step keeps the ids of the queue apart, and is one of its edits.   *)
LEMMA QueueStep ==
    ASSUME SessionTypes, ScreenTypes, QueueInv, [Next]_vars
    PROVE  QueueInv' /\ QueueEdited
<1>1. CASE queue' = queue /\ nextId' = nextId
  BY <1>1 DEF QueueInv, QueueEdited
<1>2. ASSUME NEW typed \in BOOLEAN, AddToQueue(typed) PROVE QueueInv' /\ QueueEdited
  BY <1>2, AddStep
<1>3. ASSUME NEW id, RemoveFromQueue(id) PROVE QueueInv' /\ QueueEdited
  BY <1>3, RemoveStep
<1>4. CASE Leave
  <2>1. queue' = <<>> /\ runs' = {} /\ memo' = None
    BY <1>4 DEF Leave, ResetSession
  <2>2. Len(<<>>) = 0 /\ <<>> \in Seq({})
    OBVIOUS
  <2>3. IsList(<<>>)
    BY <2>2, SeqIsList
  <2>4. QED BY <2>1, <2>2, <2>3 DEF QueueInv, QueueEdited, IdsDiffer
<1>5. QED BY <1>1, <1>2, <1>3, <1>4, QueueTouched

-----------------------------------------------------------------------------
(* The types hold initially.                                               *)
LEMMA TypesInitially == Init => SessionTypes /\ ScreenTypes
<1> SUFFICES ASSUME Init PROVE SessionTypes /\ ScreenTypes
  OBVIOUS
<1>1. SessionTypes
  BY SessionAssumption DEF Init, SessionTypes
<1>2. /\ manual \in BOOLEAN /\ checked \in BOOLEAN
      /\ pulling \in BOOLEAN /\ added \in BOOLEAN
  BY Zenon DEF Init
<1>3. nextId \in 1 .. MaxEntries + 1 /\ orphans \in Nat
  BY SessionAssumption DEF Init
<1>4. page = "generator" /\ status = "idle" /\ unused = None
  BY DEF Init
<1>5. ScreenTypes
  BY <1>2, <1>3, <1>4 DEF ScreenTypes
<1>6. QED BY <1>1, <1>5

(* TypeOK: the session, its images and what is mounted keep their types.   *)
THEOREM TypesAlways == Spec => []TypeOK
<1> DEFINE Inv == SessionTypes /\ ScreenTypes /\ ImagesInv
<1>1. Init => Inv
  <2>1. Init => SessionTypes /\ ScreenTypes
    BY TypesInitially
  <2>2. Init => ImagesInv
    BY SessionAssumption DEF Init, ImagesInv, ImagesLive, Blobs, NoImages
  <2>3. QED BY <2>1, <2>2
<1>2. Inv /\ [Next]_vars => Inv'
  BY TypesStep, ScreenStep, ImagesStep
<1>3. Inv => TypeOK
  BY DEF SessionTypes, ScreenTypes, ImagesInv, TypeOK
<1>4. QED
  <2> HIDE DEF Inv
  <2>1. QED BY <1>1, <1>2, <1>3, PTL DEF Spec

(* OneRunAtATime, for any number of runs and pulls: an answer is always    *)
(* that of the only run in flight, although generate does not check.       *)
THEOREM OneRunAlways == Spec => []OneRunAtATime
<1>1. Init => OneRunAtATime
  BY DEF Init, OneRunAtATime
<1>2. OneRunAtATime /\ [Next]_vars => OneRunAtATime'
  BY OneRunStep
<1>3. QED BY <1>1, <1>2, PTL DEF Spec

(* OwnInputs: no run and no report has format overrides or groups that     *)
(* were entered for another file, whenever pulls arrive.                   *)
THEOREM OwnInputsAlways == Spec => []OwnInputs
<1>1. Init => InputsInv
  BY DEF Init, InputsInv, OwnInputs
<1>2. InputsInv /\ [Next]_vars => InputsInv'
  BY InputsStep
<1>3. InputsInv => OwnInputs
  BY DEF InputsInv
<1>4. QED BY <1>1, <1>2, <1>3, PTL DEF Spec

(* ImagesLive: no object URL leaks and no attached image is broken, for    *)
(* any ads and images.                                                     *)
THEOREM ImagesAlwaysLive == Spec => []ImagesLive
<1>1. Init => ImagesInv
  BY SessionAssumption DEF Init, ImagesInv, ImagesLive, Blobs, NoImages
<1>2. ImagesInv /\ [Next]_vars => ImagesInv'
  BY ImagesStep
<1>3. ImagesInv => ImagesLive
  BY DEF ImagesInv
<1>4. QED BY <1>1, <1>2, <1>3, PTL DEF Spec

(* ReportIsOneAnswer: a report is there when the status says so, with the  *)
(* unused columns of its own run.                                          *)
THEOREM ReportAlwaysOneAnswer == Spec => []ReportIsOneAnswer
<1> DEFINE Inv == SessionTypes /\ OneRunAtATime /\ ReportIsOneAnswer
<1>1. Init => Inv
  BY SessionAssumption
     DEF Init, SessionTypes, OneRunAtATime, ReportIsOneAnswer
<1>2. Inv /\ [Next]_vars => Inv'
  BY TypesStep, OneRunStep, ReportStep
<1>3. Inv => ReportIsOneAnswer
  OBVIOUS
<1>4. QED
  <2> HIDE DEF Inv
  <2>1. QED BY <1>1, <1>2, <1>3, PTL DEF Spec

(* QueueOnlyEdited: entries are added under an id that no other has, and   *)
(* removing one takes out that one alone, whatever was queued before.      *)
THEOREM QueueAlwaysOnlyEdited == Spec => QueueOnlyEdited
<1> DEFINE Inv == SessionTypes /\ ScreenTypes /\ QueueInv
<1>1. Init => Inv
  <2>1. Init => SessionTypes /\ ScreenTypes
    BY TypesInitially
  <2>2. Len(<<>>) = 0 /\ <<>> \in Seq({})
    OBVIOUS
  <2>3. IsList(<<>>)
    BY <2>2, SeqIsList
  <2>4. Init => QueueInv
    BY <2>2, <2>3 DEF Init, QueueInv, IdsDiffer
  <2>5. QED BY <2>1, <2>4
<1>2. Inv /\ [Next]_vars => Inv' /\ QueueEdited
  BY TypesStep, ScreenStep, QueueStep
<1>3. QED
  <2> HIDE DEF Inv
  <2>1. QED BY <1>1, <1>2, PTL DEF Spec, QueueOnlyEdited

=============================================================================
