---------------------------- MODULE SDLiteProofs ----------------------------
(***************************************************************************)
(* Proofs about SDLite, for every set of users, schedules and ids, every   *)
(* limit of cycles and every number of faults:                             *)
(*   - Inv is inductive, and TypeOK, ConfigSound, RefusedNeverEdits and    *)
(*     AnswerTellsOutcome are parts of it;                                 *)
(*   - OnlyOwnFile, NoIdReuse, LostStaysLost and LossesAreCounted follow   *)
(*     from Inv and from what one step can do to Stored;                   *)
(*   - SDLite implements CycleStore under that mapping.                    *)
(***************************************************************************)
EXTENDS SDLite, CycleConfigProofs, FiniteSetTheorems

\* What the handlers write back is a sound document under a counter that did not
\* go back, and its new ids exceed the old counter.
LEMMA EditedSound ==
  ASSUME request \in Requests, configDoc \in Documents, WellFormed(configDoc),
         Accepted, request.op \in Changes,
         request.op \in {"POST", "PUT"} => request.body \in Bodies
  PROVE  /\ Edited(request, configDoc) \in Documents
         /\ WellFormed(Edited(request, configDoc))
         /\ Edited(request, configDoc).counter >= configDoc.counter
         /\ \A id \in IdsOf(Edited(request, configDoc)) \ IdsOf(configDoc) :
              id > configDoc.counter
<1>0. configDoc.counter \in Nat
  BY DEF Documents
<1>1. CASE request.op = "POST"
  <2>1. Edited(request, configDoc) = Added(configDoc, request.body)
    BY <1>1 DEF Edited
  <2> QED
    BY <1>0, <1>1, <2>1, AddedSound DEF Accepted
<1>2. CASE request.op = "PUT"
  <2>1. Edited(request, configDoc) = Updated(configDoc, request.id, request.body)
    BY <1>2 DEF Edited
  <2> QED
    BY <1>0, <1>2, <2>1, UpdatedSound DEF Accepted
<1>3. CASE request.op = "DELETE"
  <2>1. Edited(request, configDoc) = Removed(configDoc, request.id)
    BY <1>3 DEF Edited
  <2> QED
    BY <1>0, <1>3, <2>1, RemovedSound DEF Accepted
<1> QED
  BY <1>1, <1>2, <1>3 DEF Accepted

\* No cycle of a document has the id of a request without one.
LEMMA IdsAreNumbers ==
  ASSUME NEW doc \in Documents
  PROVE  IdsOf(doc) \subseteq Nat
<1>1. \A i \in DOMAIN doc.cycles : doc.cycles[i] \in Cycle
  BY DEF Documents
<1> QED
  BY <1>1 DEF IdsOf, Cycle

\* The handlers answer with nothing sent yet, or after the 400 of a DELETE without
\* an id.
LEMMA AnswerSent ==
  ASSUME answers \in {<<>>, << 400 >>}, NEW status \in Statuses, Answer(status)
  PROVE  /\ answers' \in AnswerLists
         /\ Last(answers') = status
         /\ \A i \in DOMAIN answers' : answers'[i] \in {400, status}
         /\ answers = <<>> => answers' = <<status>>
         /\ phase' = "answered"
<1>1. phase' = "answered"
  BY DEF Answer
<1>2. CASE answers = <<>>
  <2>1. answers' = <<status>>
    BY <1>2 DEF Answer
  <2>2. answers' \in AnswerLists
    BY <2>1 DEF AnswerLists
  <2>3. Last(answers') = status /\ \A i \in DOMAIN answers' : answers'[i] \in {400, status}
    BY <2>1 DEF Last
  <2> QED
    BY <1>1, <2>1, <2>2, <2>3
<1>3. CASE answers = <<400>>
  <2>1. answers' = <<400, status>>
    <3> DEFINE sent == Append(<<400>>, status)
    <3>1. <<400>> \in Seq(Statuses) /\ Len(<<400>>) = 1 /\ <<400>>[1] = 400
      BY DEF Statuses
    <3>2. sent \in Seq(Statuses) /\ Len(sent) = 2 /\ sent[1] = 400 /\ sent[2] = status
      BY <3>1, AppendProperties
    <3>3. <<400, status>> \in Seq(Statuses)
      BY DEF Statuses
    <3>4. \A i \in 1 .. Len(sent) : sent[i] = <<400, status>>[i]
      BY <3>2
    <3>5. Len(sent) = Len(<<400, status>>)
      BY <3>2
    <3> HIDE DEF sent
    <3>6. sent = <<400, status>>
      BY <3>2, <3>3, <3>4, <3>5, SeqEqual
    <3> QED
      BY <1>3, <3>6 DEF Answer, sent
  <2>2. answers' \in AnswerLists
    BY <2>1 DEF AnswerLists
  <2>3. Last(answers') = status /\ \A i \in DOMAIN answers' : answers'[i] \in {400, status}
    BY <2>1 DEF Last
  <2> QED
    BY <1>1, <1>3, <2>1, <2>2, <2>3
<1> QED
  BY <1>2, <1>3

\* Every step keeps the types: the one that writes is CloseFile.
LEMMA TypeStep == Inv /\ [Next]_vars => TypeOK'
<1> SUFFICES ASSUME Inv, [Next]_vars PROVE TypeOK'
  OBVIOUS
<1> USE SDLiteAssumption DEF Inv
<1>1. CASE Boot
  BY <1>1 DEF Boot, handler, TypeOK
<1>2. CASE BootHalts
  BY <1>2 DEF BootHalts, Fault, handler, TypeOK
<1>3. CASE PowerCycle
  BY <1>3 DEF PowerCycle, handler, TypeOK
<1>4. CASE PowerLoss
  BY <1>4 DEF PowerLoss, Fault, HandlerGone, TypeOK, Requested, AnswerLists
<1>5. CASE Arrive
  BY <1>5 DEF Arrive, TypeOK, Requested
<1>6. CASE AuthenticateFromFile
  BY <1>6, AnswerSent DEF AuthenticateFromFile, Same, TypeOK, AnswersInv, Statuses
<1>7. CASE AuthenticateFromGarbage
  BY <1>7, AnswerSent DEF AuthenticateFromGarbage, Same, Fault, TypeOK, AnswersInv, Statuses
<1>8. CASE AuthenticateNobody
  BY <1>8, AnswerSent DEF AuthenticateNobody, Same, TypeOK, AnswersInv, Statuses
<1>9. CASE RefuseBody
  BY <1>9 DEF RefuseBody, Same, TypeOK, Statuses, AnswerLists
<1>10. CASE Check
  BY <1>10 DEF Check, Same, TypeOK, Statuses, AnswerLists
<1>11. CASE ServeConfig \/ ServePage
  BY <1>11, AnswerSent DEF ServeConfig, ServePage, Same, TypeOK, AnswersInv, Statuses
<1>12. CASE Load
  BY <1>12 DEF Load, Same, TypeOK, Readable
<1>13. CASE LoadFails
  BY <1>13, AnswerSent DEF LoadFails, Same, Fault, TypeOK, AnswersInv, Statuses
<1>14. CASE Refuse
  BY <1>14, AnswerSent DEF Refuse, Same, TypeOK, AnswersInv, Statuses
<1>15. CASE AbortOnId
  BY <1>15 DEF AbortOnId, HandlerGone, TypeOK, Requested, AnswerLists
<1>16. CASE OpenForWrite
  BY <1>16 DEF OpenForWrite, Same, TypeOK, ServedInv, CardFiles
<1>17. CASE OpenFails
  BY <1>17, AnswerSent DEF OpenFails, Same, Fault, TypeOK, AnswersInv, Statuses
<1>18. CASE PrintFile
  BY <1>18 DEF PrintFile, Same, Fault, TypeOK
<1>19. CASE CloseFile
  BY <1>19, EditedSound DEF CloseFile, Same, TypeOK, ServedInv, CardFiles
<1>20. CASE Respond
  BY <1>20, AnswerSent DEF Respond, Same, TypeOK, AnswersInv, Statuses
<1>21. CASE Rest
  BY <1>21 DEF Rest, HandlerGone, TypeOK, Requested, AnswerLists
<1>22. CASE UNCHANGED vars
  BY <1>22 DEF vars, handler, TypeOK
<1> QED
  BY <1>1, <1>2, <1>3, <1>4, <1>5, <1>6, <1>7, <1>8, <1>9, <1>10, <1>11, <1>12,
     <1>13, <1>14, <1>15, <1>16, <1>17, <1>18, <1>19, <1>20, <1>21, <1>22
     DEF Next, HandlerStep

\* Every step keeps the readable configurations well formed.
LEMMA ConfigStep == Inv /\ [Next]_vars => ConfigSound'
<1> SUFFICES ASSUME Inv, [Next]_vars PROVE ConfigSound'
  OBVIOUS
<1> USE SDLiteAssumption DEF Inv, ConfigSound, Readable
<1>1. CASE Boot
  BY <1>1 DEF Boot, handler
<1>2. CASE BootHalts
  BY <1>2 DEF BootHalts, Fault, handler
<1>3. CASE PowerCycle
  BY <1>3 DEF PowerCycle, handler
<1>4. CASE PowerLoss
  BY <1>4 DEF PowerLoss, Fault, HandlerGone
<1>5. CASE Arrive
  BY <1>5 DEF Arrive
<1>6. CASE AuthenticateFromFile
  BY <1>6 DEF AuthenticateFromFile, Same
<1>7. CASE AuthenticateFromGarbage
  BY <1>7 DEF AuthenticateFromGarbage, Same, Fault
<1>8. CASE AuthenticateNobody
  BY <1>8 DEF AuthenticateNobody, Same
<1>9. CASE RefuseBody
  BY <1>9 DEF RefuseBody, Same
<1>10. CASE Check
  BY <1>10 DEF Check, Same
<1>11. CASE ServeConfig \/ ServePage
  BY <1>11 DEF ServeConfig, ServePage, Same
<1>12. CASE Load
  BY <1>12 DEF Load, Same
<1>13. CASE LoadFails
  BY <1>13 DEF LoadFails, Same, Fault
<1>14. CASE Refuse
  BY <1>14 DEF Refuse, Same
<1>15. CASE AbortOnId
  BY <1>15 DEF AbortOnId, HandlerGone
<1>16. CASE OpenForWrite
  BY <1>16 DEF OpenForWrite, Same, TypeOK, CardFiles
<1>17. CASE OpenFails
  BY <1>17 DEF OpenFails, Same, Fault
<1>18. CASE PrintFile
  BY <1>18 DEF PrintFile, Same, Fault
<1>19. CASE CloseFile
  BY <1>19, EditedSound DEF CloseFile, Same, ServedInv, TypeOK, CardFiles
<1>20. CASE Respond
  BY <1>20 DEF Respond, Same
<1>21. CASE Rest
  BY <1>21 DEF Rest, HandlerGone
<1>22. CASE UNCHANGED vars
  BY <1>22 DEF vars, handler
<1> QED
  BY <1>1, <1>2, <1>3, <1>4, <1>5, <1>6, <1>7, <1>8, <1>9, <1>10, <1>11, <1>12,
     <1>13, <1>14, <1>15, <1>16, <1>17, <1>18, <1>19, <1>20, <1>21, <1>22
     DEF Next, HandlerStep

\* Every step keeps what the checks of the handler have established.
LEMMA ServedStep == Inv /\ [Next]_vars => ServedInv'
<1> SUFFICES ASSUME Inv, [Next]_vars PROVE ServedInv'
  OBVIOUS
<1> USE SDLiteAssumption DEF Inv
<1>1. CASE Boot
  BY <1>1 DEF Boot, handler, ServedInv
<1>2. CASE BootHalts
  BY <1>2 DEF BootHalts, Fault, handler, ServedInv
<1>3. CASE PowerCycle
  BY <1>3 DEF PowerCycle, handler, ServedInv
<1>4. CASE PowerLoss
  BY <1>4 DEF PowerLoss, Fault, HandlerGone, ServedInv
<1>5. CASE Arrive
  BY <1>5 DEF Arrive, ServedInv, TypeOK
<1>6. CASE AuthenticateFromFile
  BY <1>6, AnswerSent DEF AuthenticateFromFile, Same, ServedInv, AnswersInv, Statuses
<1>7. CASE AuthenticateFromGarbage
  BY <1>7, AnswerSent DEF AuthenticateFromGarbage, Same, Fault, ServedInv, AnswersInv, Statuses
<1>8. CASE AuthenticateNobody
  BY <1>8, AnswerSent DEF AuthenticateNobody, Same, ServedInv, AnswersInv, Statuses
<1>9. CASE RefuseBody
  BY <1>9 DEF RefuseBody, Same, ServedInv
<1>10. CASE Check
  BY <1>10 DEF Check, Same, ServedInv
<1>11. CASE ServeConfig \/ ServePage
  BY <1>11, AnswerSent DEF ServeConfig, ServePage, Same, ServedInv, AnswersInv, Statuses
<1>12. CASE Load
  BY <1>12 DEF Load, Same, ServedInv, ConfigSound, Readable
<1>13. CASE LoadFails
  BY <1>13, AnswerSent DEF LoadFails, Same, Fault, ServedInv, AnswersInv, Statuses
<1>14. CASE Refuse
  BY <1>14, AnswerSent DEF Refuse, Same, ServedInv, AnswersInv, Statuses
<1>15. CASE AbortOnId
  BY <1>15 DEF AbortOnId, HandlerGone, ServedInv
<1>16. CASE OpenForWrite
  <2>1. Accepted'
    BY <1>16 DEF OpenForWrite, Same, Accepted
  <2>2. /\ UNCHANGED <<boot, request, before, www_username, configDoc, wrote>>
        /\ phase = "edit" /\ phase' = "opened"
    BY <1>16 DEF OpenForWrite, Same
  <2> QED
    BY <2>1, <2>2 DEF ServedInv
<1>17. CASE OpenFails
  BY <1>17, AnswerSent DEF OpenFails, Same, Fault, ServedInv, AnswersInv, Statuses
<1>18. CASE PrintFile
  BY <1>18 DEF PrintFile, Same, Fault, ServedInv, Accepted
<1>19. CASE CloseFile
  BY <1>19 DEF CloseFile, Same, ServedInv, Accepted
<1>20. CASE Respond
  BY <1>20, AnswerSent DEF Respond, Same, ServedInv, AnswersInv, Statuses
<1>21. CASE Rest
  BY <1>21 DEF Rest, HandlerGone, ServedInv
<1>22. CASE UNCHANGED vars
  BY <1>22 DEF vars, handler, ServedInv, Accepted
<1> QED
  BY <1>1, <1>2, <1>3, <1>4, <1>5, <1>6, <1>7, <1>8, <1>9, <1>10, <1>11, <1>12,
     <1>13, <1>14, <1>15, <1>16, <1>17, <1>18, <1>19, <1>20, <1>21, <1>22
     DEF Next, HandlerStep

\* Every step keeps the relation of the card to the card the request found.
LEMMA CardStep == Inv /\ [Next]_vars => CardInv'
<1> SUFFICES ASSUME Inv, [Next]_vars PROVE CardInv'
  OBVIOUS
<1> USE SDLiteAssumption DEF Inv
<1>1. CASE Boot
  BY <1>1 DEF Boot, handler, CardInv
<1>2. CASE BootHalts
  BY <1>2 DEF BootHalts, Fault, handler, CardInv
<1>3. CASE PowerCycle
  BY <1>3 DEF PowerCycle, handler, CardInv
<1>4. CASE PowerLoss
  BY <1>4 DEF PowerLoss, Fault, HandlerGone, CardInv
<1>5. CASE Arrive
  BY <1>5 DEF Arrive, CardInv
<1>6. CASE AuthenticateFromFile
  BY <1>6, AnswerSent DEF AuthenticateFromFile, Same, CardInv, AnswersInv, Statuses
<1>7. CASE AuthenticateFromGarbage
  BY <1>7, AnswerSent DEF AuthenticateFromGarbage, Same, Fault, CardInv, AnswersInv, Statuses
<1>8. CASE AuthenticateNobody
  BY <1>8, AnswerSent DEF AuthenticateNobody, Same, CardInv, AnswersInv, Statuses
<1>9. CASE RefuseBody
  BY <1>9 DEF RefuseBody, Same, CardInv
<1>10. CASE Check
  BY <1>10 DEF Check, Same, CardInv
<1>11. CASE ServeConfig \/ ServePage
  BY <1>11, AnswerSent DEF ServeConfig, ServePage, Same, CardInv, AnswersInv, Statuses
<1>12. CASE Load
  BY <1>12 DEF Load, Same, CardInv, ServedInv
<1>13. CASE LoadFails
  BY <1>13, AnswerSent DEF LoadFails, Same, Fault, CardInv, AnswersInv, Statuses
<1>14. CASE Refuse
  BY <1>14, AnswerSent DEF Refuse, Same, CardInv, AnswersInv, Statuses
<1>15. CASE AbortOnId
  BY <1>15 DEF AbortOnId, HandlerGone, CardInv
<1>16. CASE OpenForWrite
  BY <1>16 DEF OpenForWrite, Same, CardInv, ServedInv, TypeOK, CardFiles
<1>17. CASE OpenFails
  BY <1>17, AnswerSent DEF OpenFails, Same, Fault, CardInv, AnswersInv, Statuses
<1>18. CASE PrintFile
  BY <1>18 DEF PrintFile, Same, Fault, CardInv
<1>19. CASE CloseFile
  <2>1. /\ card = [before EXCEPT ![request.user] = Torn]
        /\ www_username = request.user
        /\ before \in CardFiles
        /\ before[request.user] = configDoc
    BY <1>19 DEF CloseFile, CardInv, ServedInv
  <2>2. UNCHANGED <<request, before, configDoc, wrote>> /\ phase' = "closed"
    BY <1>19 DEF CloseFile, Same
  <2>3. Edited(request, configDoc)' = Edited(request, configDoc)
    BY <2>2 DEF Edited
  <2>4. card' = [before EXCEPT ![request.user] =
                   IF wrote = "all" THEN Edited(request, configDoc) ELSE Torn]
    BY <1>19, <2>1 DEF CloseFile, CardFiles
  <2> QED
    BY <2>1, <2>2, <2>3, <2>4 DEF CardInv
<1>20. CASE Respond
  BY <1>20, AnswerSent DEF Respond, Same, CardInv, AnswersInv, Statuses
<1>21. CASE Rest
  BY <1>21 DEF Rest, HandlerGone, CardInv
<1>22. CASE UNCHANGED vars
  BY <1>22 DEF vars, handler, CardInv, Edited
<1> QED
  BY <1>1, <1>2, <1>3, <1>4, <1>5, <1>6, <1>7, <1>8, <1>9, <1>10, <1>11, <1>12,
     <1>13, <1>14, <1>15, <1>16, <1>17, <1>18, <1>19, <1>20, <1>21, <1>22
     DEF Next, HandlerStep

\* Every step keeps what may have been sent before the handler ends.
LEMMA AnswersStep == Inv /\ [Next]_vars => AnswersInv'
<1> SUFFICES ASSUME Inv, [Next]_vars PROVE AnswersInv'
  OBVIOUS
<1> USE SDLiteAssumption DEF Inv
<1>1. CASE Boot
  BY <1>1 DEF Boot, handler, AnswersInv
<1>2. CASE BootHalts
  BY <1>2 DEF BootHalts, Fault, handler, AnswersInv
<1>3. CASE PowerCycle
  BY <1>3 DEF PowerCycle, handler, AnswersInv
<1>4. CASE PowerLoss
  BY <1>4 DEF PowerLoss, Fault, HandlerGone, AnswersInv
<1>5. CASE Arrive
  BY <1>5 DEF Arrive, AnswersInv
<1>6. CASE AuthenticateFromFile
  BY <1>6, AnswerSent DEF AuthenticateFromFile, Same, AnswersInv, Statuses
<1>7. CASE AuthenticateFromGarbage
  BY <1>7, AnswerSent DEF AuthenticateFromGarbage, Same, Fault, AnswersInv, Statuses
<1>8. CASE AuthenticateNobody
  BY <1>8, AnswerSent DEF AuthenticateNobody, Same, AnswersInv, Statuses
<1>9. CASE RefuseBody
  BY <1>9 DEF RefuseBody, Same, AnswersInv
<1>10. CASE Check
  BY <1>10 DEF Check, Same, AnswersInv
<1>11. CASE ServeConfig \/ ServePage
  BY <1>11, AnswerSent DEF ServeConfig, ServePage, Same, AnswersInv, Statuses
<1>12. CASE Load
  BY <1>12 DEF Load, Same, AnswersInv
<1>13. CASE LoadFails
  BY <1>13, AnswerSent DEF LoadFails, Same, Fault, AnswersInv, Statuses
<1>14. CASE Refuse
  BY <1>14, AnswerSent DEF Refuse, Same, AnswersInv, Statuses
<1>15. CASE AbortOnId
  BY <1>15 DEF AbortOnId, HandlerGone, AnswersInv
<1>16. CASE OpenForWrite
  BY <1>16, IdsAreNumbers DEF OpenForWrite, Same, AnswersInv, ServedInv, Accepted
<1>17. CASE OpenFails
  BY <1>17, AnswerSent DEF OpenFails, Same, Fault, AnswersInv, Statuses
<1>18. CASE PrintFile
  BY <1>18 DEF PrintFile, Same, Fault, AnswersInv
<1>19. CASE CloseFile
  BY <1>19 DEF CloseFile, Same, AnswersInv
<1>20. CASE Respond
  BY <1>20, AnswerSent DEF Respond, Same, AnswersInv, Statuses
<1>21. CASE Rest
  BY <1>21 DEF Rest, HandlerGone, AnswersInv
<1>22. CASE UNCHANGED vars
  BY <1>22 DEF vars, handler, AnswersInv
<1> QED
  BY <1>1, <1>2, <1>3, <1>4, <1>5, <1>6, <1>7, <1>8, <1>9, <1>10, <1>11, <1>12,
     <1>13, <1>14, <1>15, <1>16, <1>17, <1>18, <1>19, <1>20, <1>21, <1>22
     DEF Next, HandlerStep

\* No step touches the card of a refused request: a handler that opens a file has
\* answered nothing, by AnswersInv.
LEMMA RefusedStep == Inv /\ [Next]_vars => RefusedNeverEdits'
<1> SUFFICES ASSUME Inv, [Next]_vars PROVE RefusedNeverEdits'
  OBVIOUS
<1> USE SDLiteAssumption DEF Inv
<1>1. CASE Boot
  BY <1>1 DEF Boot, handler, RefusedNeverEdits
<1>2. CASE BootHalts
  BY <1>2 DEF BootHalts, Fault, handler, RefusedNeverEdits
<1>3. CASE PowerCycle
  BY <1>3 DEF PowerCycle, handler, RefusedNeverEdits
<1>4. CASE PowerLoss
  BY <1>4 DEF PowerLoss, HandlerGone, RefusedNeverEdits
<1>5. CASE Arrive
  BY <1>5 DEF Arrive, RefusedNeverEdits, AnswersInv
<1>6. CASE AuthenticateFromFile
  BY <1>6, AnswerSent
     DEF AuthenticateFromFile, Same, RefusedNeverEdits, CardInv, AnswersInv, Statuses
<1>7. CASE AuthenticateFromGarbage
  BY <1>7, AnswerSent
     DEF AuthenticateFromGarbage, Same, RefusedNeverEdits, CardInv, AnswersInv, Statuses
<1>8. CASE AuthenticateNobody
  BY <1>8, AnswerSent DEF AuthenticateNobody, Same, RefusedNeverEdits, CardInv, AnswersInv, Statuses
<1>9. CASE RefuseBody
  BY <1>9 DEF RefuseBody, Same, RefusedNeverEdits, CardInv
<1>10. CASE Check
  BY <1>10 DEF Check, Same, RefusedNeverEdits, CardInv
<1>11. CASE ServeConfig \/ ServePage
  BY <1>11, AnswerSent DEF ServeConfig, ServePage, Same, RefusedNeverEdits, CardInv, AnswersInv, Statuses
<1>12. CASE Load
  BY <1>12 DEF Load, Same, RefusedNeverEdits, AnswersInv
<1>13. CASE LoadFails
  BY <1>13, AnswerSent DEF LoadFails, Same, RefusedNeverEdits, CardInv, AnswersInv, Statuses
<1>14. CASE Refuse
  BY <1>14, AnswerSent DEF Refuse, Same, RefusedNeverEdits, CardInv, AnswersInv, Statuses
<1>15. CASE AbortOnId
  BY <1>15 DEF AbortOnId, HandlerGone, RefusedNeverEdits
<1>16. CASE OpenForWrite
  BY <1>16, AnswersStep DEF OpenForWrite, RefusedNeverEdits, AnswersInv
<1>17. CASE OpenFails
  BY <1>17, AnswerSent DEF OpenFails, Same, RefusedNeverEdits, CardInv, AnswersInv, Statuses
<1>18. CASE PrintFile
  BY <1>18 DEF PrintFile, Same, RefusedNeverEdits, AnswersInv
<1>19. CASE CloseFile
  BY <1>19 DEF CloseFile, Same, RefusedNeverEdits, AnswersInv
<1>20. CASE Respond
  BY <1>20, AnswerSent DEF Respond, Same, RefusedNeverEdits, CardInv, AnswersInv, Statuses
<1>21. CASE Rest
  BY <1>21 DEF Rest, HandlerGone, RefusedNeverEdits
<1>22. CASE UNCHANGED vars
  BY <1>22 DEF vars, handler, RefusedNeverEdits, Edited
<1> QED
  BY <1>1, <1>2, <1>3, <1>4, <1>5, <1>6, <1>7, <1>8, <1>9, <1>10, <1>11, <1>12,
     <1>13, <1>14, <1>15, <1>16, <1>17, <1>18, <1>19, <1>20, <1>21, <1>22
     DEF Next, HandlerStep

\* The final status is sent for the reason it claims.
LEMMA OutcomeStep == Inv /\ [Next]_vars => AnswerTellsOutcome'
<1> SUFFICES ASSUME Inv, [Next]_vars PROVE AnswerTellsOutcome'
  OBVIOUS
<1> USE SDLiteAssumption DEF Inv
<1>1. CASE Boot
  BY <1>1 DEF Boot, handler, AnswerTellsOutcome
<1>2. CASE BootHalts
  BY <1>2 DEF BootHalts, Fault, handler, AnswerTellsOutcome
<1>3. CASE PowerCycle
  BY <1>3 DEF PowerCycle, handler, AnswerTellsOutcome
<1>4. CASE PowerLoss
  BY <1>4 DEF PowerLoss, HandlerGone, AnswerTellsOutcome
<1>5. CASE Arrive
  BY <1>5 DEF Arrive, AnswerTellsOutcome
<1>6. CASE AuthenticateFromFile
  BY <1>6, AnswerSent
     DEF AuthenticateFromFile, Same, AnswerTellsOutcome, CardInv, AnswersInv, ServedInv, Statuses
<1>7. CASE AuthenticateFromGarbage
  BY <1>7, AnswerSent
     DEF AuthenticateFromGarbage, Same, AnswerTellsOutcome, CardInv, AnswersInv, ServedInv, Statuses
<1>8. CASE AuthenticateNobody
  BY <1>8, AnswerSent
     DEF AuthenticateNobody, Same, AnswerTellsOutcome, CardInv, AnswersInv, ServedInv, Statuses
<1>9. CASE RefuseBody
  BY <1>9 DEF RefuseBody, Same, AnswerTellsOutcome, CardInv, Last
<1>10. CASE Check
  BY <1>10 DEF Check, Same, AnswerTellsOutcome
<1>11. CASE ServeConfig \/ ServePage
  BY <1>11, AnswerSent
     DEF ServeConfig, ServePage, Changes, Same, AnswerTellsOutcome, CardInv, AnswersInv, ServedInv, Statuses
<1>12. CASE Load
  BY <1>12 DEF Load, Same, AnswerTellsOutcome
<1>13. CASE LoadFails
  BY <1>13, AnswerSent
     DEF LoadFails, Same, AnswerTellsOutcome, CardInv, AnswersInv, ServedInv, Statuses
<1>14. CASE Refuse
  BY <1>14, AnswerSent
     DEF Refuse, Same, AnswerTellsOutcome, CardInv, AnswersInv, ServedInv, Statuses
<1>15. CASE AbortOnId
  BY <1>15 DEF AbortOnId, HandlerGone, AnswerTellsOutcome
<1>16. CASE OpenForWrite
  BY <1>16 DEF OpenForWrite, Same, AnswerTellsOutcome
<1>17. CASE OpenFails
  BY <1>17, AnswerSent
     DEF OpenFails, Same, AnswerTellsOutcome, CardInv, AnswersInv, ServedInv, Statuses
<1>18. CASE PrintFile
  BY <1>18 DEF PrintFile, Same, AnswerTellsOutcome
<1>19. CASE CloseFile
  BY <1>19 DEF CloseFile, Same, AnswerTellsOutcome
<1>20. CASE Respond
  <2>1. /\ UNCHANGED <<card, request, before, wrote>>
        /\ Answer(IF wrote = "none" THEN 500 ELSE 200)
        /\ phase = "closed" /\ wrote \in {"all", "part", "none"}
    BY <1>20 DEF Respond, Same, TypeOK, ServedInv
  <2>2. Last(answers') = IF wrote = "none" THEN 500 ELSE 200
    BY <2>1, AnswerSent DEF AnswersInv, Statuses
  <2>3. /\ before[request.user] = configDoc
        /\ card = [before EXCEPT ![request.user] =
                     IF wrote = "all" THEN Edited(request, configDoc) ELSE Torn]
    BY <2>1 DEF CardInv
  <2>4. CASE wrote = "all"
    BY <2>1, <2>2, <2>3, <2>4 DEF AnswerTellsOutcome, Edited
  <2>5. CASE wrote = "part"
    BY <2>1, <2>2, <2>3, <2>5 DEF AnswerTellsOutcome
  <2>6. CASE wrote = "none"
    BY <2>1, <2>2, <2>3, <2>6 DEF AnswerTellsOutcome
  <2> QED
    BY <2>1, <2>4, <2>5, <2>6
<1>21. CASE Rest
  BY <1>21 DEF Rest, HandlerGone, AnswerTellsOutcome
<1>22. CASE UNCHANGED vars
  BY <1>22 DEF vars, handler, AnswerTellsOutcome, Edited
<1> QED
  BY <1>1, <1>2, <1>3, <1>4, <1>5, <1>6, <1>7, <1>8, <1>9, <1>10, <1>11, <1>12,
     <1>13, <1>14, <1>15, <1>16, <1>17, <1>18, <1>19, <1>20, <1>21, <1>22
     DEF Next, HandlerStep

\* A board that has not booted yet satisfies the invariant.
LEMMA InitInv == Init => Inv
<1> SUFFICES ASSUME Init PROVE Inv
  OBVIOUS
<1> USE SDLiteAssumption DEF Init
<1>1. TypeOK
  BY DEF TypeOK, CardFiles, Requested, AnswerLists
<1>2. ConfigSound
  BY DEF ConfigSound, Readable
<1>3. ServedInv /\ CardInv /\ AnswersInv
  BY DEF ServedInv, CardInv, AnswersInv
<1>4. RefusedNeverEdits /\ AnswerTellsOutcome
  BY DEF RefusedNeverEdits, AnswerTellsOutcome
<1> QED
  BY <1>1, <1>2, <1>3, <1>4 DEF Inv

\* Inv is inductive.
LEMMA InvStep == Inv /\ [Next]_vars => Inv'
BY TypeStep, ConfigStep, ServedStep, CardStep, AnswersStep, RefusedStep, OutcomeStep
   DEF Inv

\* The inductive invariant, from which the others are read off.
THEOREM Invariance == Spec => []Inv
BY InitInv, InvStep, PTL DEF Spec

\* Type correctness of the request server, the at most two answers included.
THEOREM TypeCorrect == Spec => []TypeOK
<1>1. Inv => TypeOK
  BY DEF Inv
<1> QED
  BY <1>1, Invariance, PTL

\* Every readable configuration is well formed, whatever was asked, torn or
\* restarted: the limit holds and no two cycles share an id.
THEOREM ConfigsStaySound == Spec => []ConfigSound
<1>1. Inv => ConfigSound
  BY DEF Inv
<1> QED
  BY <1>1, Invariance, PTL

\* A request refused with 400, 401 or 404 leaves the card alone, to its end.
THEOREM RefusalsAreHarmless == Spec => []RefusedNeverEdits
<1>1. Inv => RefusedNeverEdits
  BY DEF Inv
<1> QED
  BY <1>1, Invariance, PTL

\* The status a client gets tells what became of the card.
THEOREM AnswersAreTrue == Spec => []AnswerTellsOutcome
<1>1. Inv => AnswerTellsOutcome
  BY DEF Inv
<1> QED
  BY <1>1, Invariance, PTL

-----------------------------------------------------------------------------

\* Only OpenForWrite and CloseFile touch the card, at www_username, which by then
\* is the user of the request.
LEMMA OwnFileStep ==
  Inv /\ [Next]_vars => \A u \in Users : card'[u] # card[u] => u = request.user
<1> SUFFICES ASSUME Inv, [Next]_vars, UNCHANGED card \/ OpenForWrite \/ CloseFile
             PROVE  \A u \in Users : card'[u] # card[u] => u = request.user
  BY DEF Next, HandlerStep, vars, Boot, BootHalts, PowerCycle, PowerLoss, Arrive,
         AuthenticateFromFile, AuthenticateFromGarbage, AuthenticateNobody, RefuseBody,
         Check, ServeConfig, ServePage, Load, LoadFails, Refuse, AbortOnId, OpenFails, PrintFile,
         Respond, Rest, Same
<1>1. CASE UNCHANGED card
  BY <1>1
<1>2. CASE OpenForWrite
  BY <1>2 DEF OpenForWrite, Inv, TypeOK, CardFiles, ServedInv
<1>3. CASE CloseFile
  BY <1>3 DEF CloseFile, Inv, TypeOK, CardFiles, ServedInv
<1> QED
  BY <1>1, <1>2, <1>3

\* A request changes no file but its user's.
THEOREM FilesStayApart == Spec => OnlyOwnFile
<1>1. Inv /\ [Next]_vars => [\A u \in Users : card'[u] # card[u] => u = request.user]_vars
  BY OwnFileStep
<1> QED
  BY <1>1, Invariance, PTL DEF Spec, OnlyOwnFile

-----------------------------------------------------------------------------

\* A rewrite of this user's file is under way and can still succeed.
Window(u) ==
  /\ u = www_username
  /\ phase = "opened" \/ (phase = "printed" /\ wrote = "all")

\* The three things a step can do to what the card amounts to.
StoredStays ==
  /\ Stored' = Stored
  /\ faults' = faults \/ faults' = faults + 1

StoredEdited ==
  /\ request.user \in Users
  /\ Stored[request.user] = configDoc
  /\ Stored' = [Stored EXCEPT ![request.user] = Edited(request, configDoc)]
  /\ faults' = faults
  /\ configDoc \in Documents /\ WellFormed(configDoc)
  /\ request \in Requests /\ request.op \in Changes /\ Accepted
  /\ request.op \in {"POST", "PUT"} => request.body \in Bodies

StoredLost ==
  /\ faults' = faults + 1
  /\ \E u \in Users : Stored[u] \in Documents /\ Stored' = [Stored EXCEPT ![u] = Torn]

\* Inside the window the file is torn, and what is stored is the parsed document.
LEMMA StoredInside ==
  ASSUME Inv, Window(www_username)
  PROVE  /\ www_username \in Users /\ request.user = www_username
         /\ Stored = [card EXCEPT ![www_username] = configDoc]
         /\ card[www_username] = Torn
         /\ configDoc \in Documents
<1>1. /\ phase \in {"opened", "printed"}
      /\ www_username \in Users /\ request.user = www_username
      /\ configDoc \in Documents
  BY DEF Window, Inv, ServedInv
<1>2. card \in CardFiles /\ before \in CardFiles
  BY <1>1 DEF Inv, TypeOK, ServedInv
<1>3. card[www_username] = Torn
  BY <1>1, <1>2 DEF Inv, CardInv, CardFiles
<1>4. Stored = [card EXCEPT ![www_username] = configDoc]
  BY <1>1, <1>2 DEF Stored, Window, CardFiles
<1> QED
  BY <1>1, <1>3, <1>4

\* The power going away, or a write cut short, while the window is open.
LEMMA StoredLosing ==
  ASSUME Inv, Window(www_username), ~ Window(www_username)', UNCHANGED card, UNCHANGED www_username,
         faults' = faults + 1
  PROVE  StoredLost
<1>1. /\ www_username \in Users
      /\ Stored = [card EXCEPT ![www_username] = configDoc]
      /\ card[www_username] = Torn
      /\ configDoc \in Documents
  BY StoredInside
<1>2. card \in CardFiles
  BY DEF Inv, TypeOK
<1>3. Stored' = [u \in Users |-> card[u]]
  BY DEF Stored, Window
<1>4. Stored' = [Stored EXCEPT ![www_username] = Torn] /\ Stored[www_username] \in Documents
  BY <1>1, <1>2, <1>3 DEF CardFiles
<1> QED
  BY <1>1, <1>4 DEF StoredLost

\* Each step keeps, edits or loses what is stored; nothing else can happen to it.
LEMMA StoredStep == Inv /\ [Next]_vars => StoredStays \/ StoredEdited \/ StoredLost
<1> SUFFICES ASSUME Inv, [Next]_vars
             PROVE  StoredStays \/ StoredEdited \/ StoredLost
  OBVIOUS
<1>0. card \in CardFiles /\ faults \in Nat
  BY SDLiteAssumption DEF Inv, TypeOK
<1>1. CASE PowerLoss
  <2>1. CASE Window(www_username)
    <3>1. /\ UNCHANGED card /\ UNCHANGED www_username /\ faults' = faults + 1
          /\ phase' = "idle"
      BY <1>1 DEF PowerLoss, HandlerGone, Fault
    <3> QED
      BY <2>1, <3>1, StoredLosing DEF Window
  <2>2. CASE ~ Window(www_username)
    BY <1>1, <2>2 DEF PowerLoss, HandlerGone, Fault, Window, Stored, StoredStays
  <2> QED
    BY <2>1, <2>2
<1>2. CASE OpenForWrite
  <2>1. /\ phase = "edit" /\ phase' = "opened"
        /\ card' = [card EXCEPT ![www_username] = Torn]
        /\ UNCHANGED <<www_username, configDoc, faults>>
    BY <1>2 DEF OpenForWrite, Same
  <2>2. www_username \in Users /\ card[www_username] = configDoc
    BY <2>1 DEF Inv, ServedInv, CardInv
  <2> QED
    BY <1>0, <2>1, <2>2 DEF Stored, StoredStays, CardFiles
<1>3. CASE PrintFile
  <2>1. /\ phase = "opened" /\ phase' = "printed"
        /\ UNCHANGED card /\ UNCHANGED www_username /\ UNCHANGED configDoc
        /\ \/ wrote' = "all" /\ UNCHANGED faults
           \/ wrote' \in {"part", "none"} /\ faults' = faults + 1
    BY <1>3 DEF PrintFile, Same, Fault
  <2>2. CASE wrote' = "all"
    BY <2>1, <2>2 DEF Stored, StoredStays
  <2>3. CASE wrote' # "all"
    <3>1. Window(www_username) /\ ~ Window(www_username)' /\ faults' = faults + 1
      BY <2>1, <2>3 DEF Window
    <3> QED
      BY <2>1, <3>1, StoredLosing
  <2> QED
    BY <2>2, <2>3
<1>4. CASE CloseFile
  <2>1. /\ phase = "printed" /\ phase' = "closed"
        /\ UNCHANGED <<www_username, configDoc, request, wrote, faults>>
    BY <1>4 DEF CloseFile, Same
  <2>2. Stored' = [u \in Users |-> card'[u]]
    BY <2>1 DEF Stored
  <2>3. CASE wrote = "all"
    <3>1. Window(www_username)
      BY <2>1, <2>3 DEF Window
    <3>2. /\ www_username \in Users /\ request.user = www_username
          /\ Stored = [card EXCEPT ![www_username] = configDoc]
      BY <3>1, StoredInside
    <3>3. card' = [card EXCEPT ![www_username] = Edited(request, configDoc)]
      BY <1>4, <2>3 DEF CloseFile
    <3>4. /\ Stored' = [Stored EXCEPT ![request.user] = Edited(request, configDoc)]
          /\ Stored[request.user] = configDoc
      BY <1>0, <2>2, <3>2, <3>3 DEF CardFiles
    <3>5. /\ configDoc \in Documents /\ WellFormed(configDoc)
          /\ request \in Requests /\ request.op \in Changes /\ Accepted
          /\ request.op \in {"POST", "PUT"} => request.body \in Bodies
      BY <2>1 DEF Inv, ServedInv
    <3> QED
      BY <2>1, <3>2, <3>4, <3>5 DEF StoredEdited
  <2>4. CASE wrote # "all"
    BY <1>4, <2>1, <2>4 DEF CloseFile, Stored, StoredStays
  <2> QED
    BY <2>3, <2>4
<1>5. CASE UNCHANGED vars
  BY <1>5 DEF vars, handler, Stored, StoredStays
<1>6. CASE /\ UNCHANGED card
           /\ phase \notin {"opened", "printed"} /\ phase' \notin {"opened", "printed"}
           /\ faults' = faults \/ faults' = faults + 1
  BY <1>6 DEF Stored, StoredStays
<1>7. CASE \/ Boot \/ BootHalts \/ PowerCycle \/ Arrive \/ AuthenticateFromFile
           \/ AuthenticateFromGarbage \/ AuthenticateNobody \/ RefuseBody \/ Check
  BY <1>6, <1>7 DEF Boot, BootHalts, PowerCycle, Arrive, AuthenticateFromFile,
     AuthenticateFromGarbage, AuthenticateNobody, RefuseBody, Check, handler,
     Same, Fault, Answer, Inv, ServedInv
<1>8. CASE ServeConfig \/ ServePage \/ Load \/ LoadFails \/ Refuse \/ AbortOnId \/ OpenFails \/ Respond \/ Rest
  BY <1>6, <1>8 DEF ServeConfig, ServePage, Load, LoadFails, Refuse, AbortOnId, OpenFails,
     Respond, Rest, HandlerGone, Same, Fault, Answer
<1> QED
  BY <1>1, <1>2, <1>3, <1>4, <1>5, <1>7, <1>8 DEF Next, HandlerStep

\* Of the three, only an edit brings ids in, above the counter (EditedSound).
LEMMA NoIdReuseStep ==
  Inv /\ [Next]_vars =>
    \A u \in Users : Stored[u] \in Documents /\ Stored'[u] \in Documents =>
      /\ Stored'[u].counter >= Stored[u].counter
      /\ \A id \in IdsOf(Stored'[u]) \ IdsOf(Stored[u]) : id > Stored[u].counter
<1> SUFFICES ASSUME Inv, [Next]_vars, NEW u \in Users,
                    Stored[u] \in Documents, Stored'[u] \in Documents
             PROVE  /\ Stored'[u].counter >= Stored[u].counter
                    /\ \A id \in IdsOf(Stored'[u]) \ IdsOf(Stored[u]) :
                         id > Stored[u].counter
  OBVIOUS
<1>1. Stored[u].counter \in Nat
  BY DEF Documents
<1>2. CASE Stored'[u] = Stored[u]
  BY <1>1, <1>2
<1>3. CASE StoredStays
  BY <1>2, <1>3 DEF StoredStays
<1>4. CASE StoredEdited
  <2>1. CASE u = request.user
    <3>1. Stored[u] = configDoc /\ Stored'[u] = Edited(request, configDoc)
      BY <1>4, <2>1 DEF StoredEdited, Stored
    <3> QED
      BY <1>4, <3>1, EditedSound DEF StoredEdited
  <2>2. CASE u # request.user
    BY <1>2, <1>4, <2>2 DEF StoredEdited, Stored
  <2> QED
    BY <2>1, <2>2
<1>5. CASE StoredLost
  <2>1. PICK w \in Users : Stored' = [Stored EXCEPT ![w] = Torn]
    BY <1>5 DEF StoredLost
  <2>2. u # w
    BY <2>1, SDLiteAssumption DEF Stored
  <2> QED
    BY <1>2, <2>1, <2>2 DEF Stored
<1> QED
  BY <1>3, <1>4, <1>5, StoredStep

\* No user is given the same cycle id twice.
THEOREM IdsAreNeverReused == Spec => NoIdReuse
BY NoIdReuseStep, Invariance, PTL DEF Spec, NoIdReuse

\* An edit starts from a document and a loss takes one: the rest stays as it is.
LEMMA LostStaysLostStep ==
  Inv /\ [Next]_vars =>
    \A u \in Users : Stored[u] \notin Documents => Stored'[u] = Stored[u]
<1> SUFFICES ASSUME Inv, [Next]_vars, NEW u \in Users, Stored[u] \notin Documents
             PROVE  Stored'[u] = Stored[u]
  OBVIOUS
<1>1. CASE StoredStays
  BY <1>1 DEF StoredStays
<1>2. CASE StoredEdited
  <2>1. u # request.user
    BY <1>2 DEF StoredEdited
  <2> QED
    BY <1>2, <2>1 DEF StoredEdited, Stored
<1>3. CASE StoredLost
  <2>1. PICK w \in Users : Stored[w] \in Documents /\ Stored' = [Stored EXCEPT ![w] = Torn]
    BY <1>3 DEF StoredLost
  <2>2. u # w
    BY <2>1
  <2> QED
    BY <2>1, <2>2 DEF Stored
<1> QED
  BY <1>1, <1>2, <1>3, StoredStep

\* Missing and torn configurations are neither created nor repaired.
THEOREM LostFilesStayLost == Spec => LostStaysLost
BY LostStaysLostStep, Invariance, PTL DEF Spec, LostStaysLost

-----------------------------------------------------------------------------

\* The invariant behind EveryLossHasAFault.
LossInv == IsFiniteSet(TornFiles) /\ LossesAreCounted

\* No file is torn before the first boot.
LEMMA LossInit == Init => LossInv
<1> SUFFICES ASSUME Init PROVE LossInv
  OBVIOUS
<1>1. TornFiles = {}
  BY SDLiteAssumption DEF Init, TornFiles, Stored
<1> QED
  BY <1>1, FS_EmptySet DEF Init, LossInv, LossesAreCounted

\* A step that tears a file tears one, and counts a fault.
LEMMA LossStep == Inv /\ LossInv /\ [Next]_vars => LossInv'
<1> SUFFICES ASSUME Inv, LossInv, [Next]_vars PROVE LossInv'
  OBVIOUS
<1>1. faults \in Nat
  BY SDLiteAssumption DEF Inv, TypeOK
<1>2. IsFiniteSet(TornFiles) /\ Cardinality(TornFiles) \in Nat /\ Cardinality(TornFiles) <= faults
  BY FS_CardinalityType DEF LossInv, LossesAreCounted
<1>3. CASE StoredStays
  <2>1. TornFiles' = TornFiles
    BY <1>3 DEF StoredStays, TornFiles
  <2> QED
    BY <1>1, <1>2, <1>3, <2>1 DEF StoredStays, LossInv, LossesAreCounted
<1>4. CASE StoredEdited
  <2>1. Edited(request, configDoc) # Torn /\ configDoc # Torn
    BY <1>4, EditedSound, SDLiteAssumption DEF StoredEdited
  <2>2. TornFiles' = TornFiles
    BY <1>4, <2>1 DEF StoredEdited, TornFiles, Stored
  <2> QED
    BY <1>2, <1>4, <2>2 DEF StoredEdited, LossInv, LossesAreCounted
<1>5. CASE StoredLost
  <2>1. PICK w \in Users : Stored[w] \in Documents /\ Stored' = [Stored EXCEPT ![w] = Torn]
    BY <1>5 DEF StoredLost
  <2>2. TornFiles' = TornFiles \cup {w}
    BY <2>1 DEF TornFiles, Stored
  <2>3. IsFiniteSet(TornFiles') /\ Cardinality(TornFiles') <= Cardinality(TornFiles) + 1
    BY <1>2, <2>2, FS_AddElement
  <2>4. Cardinality(TornFiles') \in Nat
    BY <2>3, FS_CardinalityType
  <2> QED
    BY <1>1, <1>2, <1>5, <2>3, <2>4 DEF StoredLost, LossInv, LossesAreCounted
<1> QED
  BY <1>3, <1>4, <1>5, StoredStep

\* There are never more lost configurations than hardware faults.
THEOREM EveryLossHasAFault == Spec => []LossesAreCounted
<1>1. LossInv => LossesAreCounted
  BY DEF LossInv
<1> QED
  BY <1>1, LossInit, LossStep, Invariance, PTL DEF Spec

-----------------------------------------------------------------------------

\* The abstract store edits with the very operators of the server.
LEMMA SameEdits ==
  ASSUME NEW doc, NEW id, NEW body
  PROVE  /\ Promise!Documents = Documents
         /\ Promise!IdsOf(doc) = IdsOf(doc)
         /\ Promise!HasRoom(doc) = HasRoom(doc)
         /\ Promise!Added(doc, body) = Added(doc, body)
         /\ Promise!Updated(doc, id, body) = Updated(doc, id, body)
         /\ Promise!Removed(doc, id) = Removed(doc, id)
BY DEF Promise!Documents, Promise!Cycle, Documents, Cycle, Promise!IdsOf, IdsOf,
   Promise!HasRoom, HasRoom, Promise!Added, Added, Promise!Updated, Updated,
   Promise!Removed, Removed, Promise!IndexOf, IndexOf, Promise!SelectInSeq, SelectInSeq,
   Promise!Min, Min, Promise!ReplaceAt, ReplaceAt, Promise!RemoveAt, RemoveAt

\* Initial states map to initial states: no window is open.
LEMMA InitMaps == Init => Promise!StoreInit
<1> SUFFICES ASSUME Init PROVE Promise!StoreInit
  OBVIOUS
<1>1. Stored = card
  BY DEF Init, Stored
<1> QED
  BY <1>1 DEF Init, Promise!StoreInit

\* The close of a complete rewrite is the abstract edit of its request.
LEMMA EditMaps == StoredEdited => Promise!StoreNext
<1> SUFFICES ASSUME StoredEdited PROVE Promise!StoreNext
  OBVIOUS
<1> DEFINE u == request.user
<1>1. /\ u \in Users /\ Stored[u] = configDoc /\ configDoc \in Documents
      /\ Stored' = [Stored EXCEPT ![u] = Edited(request, configDoc)]
      /\ UNCHANGED faults
  BY DEF StoredEdited
<1>2. Promise!Readable(u)
  BY <1>1, SameEdits DEF Promise!Readable
<1> HIDE DEF u
<1>3. CASE request.op = "POST"
  <2>1. /\ HasRoom(configDoc) /\ request.body \in Bodies
        /\ Edited(request, configDoc) = Added(configDoc, request.body)
    BY <1>3 DEF StoredEdited, Accepted, Edited
  <2>2. Stored' = [Stored EXCEPT ![u] = Promise!Added(Stored[u], request.body)]
    BY <1>1, <2>1, SameEdits
  <2>3. Promise!Create(u, request.body)
    BY <1>1, <1>2, <2>1, <2>2, SameEdits DEF Promise!Create
  <2> QED
    BY <1>1, <2>1, <2>3 DEF Promise!StoreNext
<1>4. CASE request.op \in {"PUT", "DELETE"}
  <2>1. request.id \in IdsOf(configDoc)
    BY <1>4 DEF StoredEdited, Accepted
  <2>2. request.id \in Promise!Issued(u)
    <3>1. PICK i \in DOMAIN configDoc.cycles : configDoc.cycles[i].id = request.id
      BY <2>1 DEF IdsOf
    <3>2. request.id \in 1 .. configDoc.counter
      BY <3>1 DEF StoredEdited, WellFormed
    <3> QED
      BY <1>1, <1>2, <3>2 DEF Promise!Issued
  <2>3. CASE request.op = "PUT"
    <3>1. /\ request.body \in Bodies
          /\ Edited(request, configDoc) = Updated(configDoc, request.id, request.body)
      BY <2>3 DEF StoredEdited, Edited
    <3>2. Stored' = [Stored EXCEPT ![u] =
                       Promise!Updated(Stored[u], request.id, request.body)]
      BY <1>1, <3>1, SameEdits
    <3>3. Promise!Update(u, request.id, request.body)
      BY <1>1, <1>2, <2>1, <3>2, SameEdits DEF Promise!Update
    <3> QED
      BY <1>1, <2>2, <3>1, <3>3 DEF Promise!StoreNext
  <2>4. CASE request.op = "DELETE"
    <3>1. Edited(request, configDoc) = Removed(configDoc, request.id)
      BY <2>4 DEF Edited
    <3>2. Stored' = [Stored EXCEPT ![u] = Promise!Removed(Stored[u], request.id)]
      BY <1>1, <3>1, SameEdits
    <3>3. Promise!Delete(u, request.id)
      BY <1>1, <1>2, <2>1, <3>2, SameEdits DEF Promise!Delete
    <3> QED
      BY <1>1, <2>2, <3>3 DEF Promise!StoreNext
  <2> QED
    BY <1>4, <2>3, <2>4
<1> QED
  BY <1>3, <1>4 DEF StoredEdited, Accepted

\* Every step maps to a step of the store or to a stutter.
LEMMA StepMaps == Inv /\ [Next]_vars => [Promise!StoreNext]_(Promise!storeVars)
<1> SUFFICES ASSUME Inv, [Next]_vars PROVE [Promise!StoreNext]_(Promise!storeVars)
  OBVIOUS
<1>1. CASE StoredStays
  BY <1>1 DEF StoredStays, Promise!StoreNext, Promise!Hiccup, Promise!storeVars
<1>2. CASE StoredEdited
  BY <1>2, EditMaps
<1>3. CASE StoredLost
  <2>1. PICK u \in Users : /\ Stored[u] \in Documents
                           /\ Stored' = [Stored EXCEPT ![u] = Torn]
                           /\ faults' = faults + 1
    BY <1>3 DEF StoredLost
  <2>2. Promise!Lose(u)
    BY <2>1, SameEdits DEF Promise!Lose, Promise!Readable
  <2> QED
    BY <2>2 DEF Promise!StoreNext
<1> QED
  BY <1>1, <1>2, <1>3, StoredStep

\* The request server implements the store: seen from outside, documents change by
\* whole edits, and are lost only to faults.
THEOREM Refinement == Spec => ImplementsCycleStore
BY InitMaps, StepMaps, Invariance, PTL DEF Spec, ImplementsCycleStore, Promise!StoreSpec
=============================================================================
