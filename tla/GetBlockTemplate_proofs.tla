--------------------- MODULE GetBlockTemplate_proofs ----------------------
(***************************************************************************)
(* Proofs about the getblocktemplate cache, for every set of callers and   *)
(* addresses and every bound.  The invariants ServedOnTip and             *)
(* SegwitMatches are not inductive alone: a cache hit returns pblocktemplate *)
(* as it is, so the proof needs what the statics say about it - while     *)
(* pindexPrev is set, the cached template was built on pindexPrev with    *)
(* fLastTemplateSupportsSegwit.                                            *)
(***************************************************************************)
EXTENDS GetBlockTemplate, TLAPS

\* The statics describe the cached template whenever pindexPrev is set
\* (the code sets pindexPrev only after CreateNewBlock succeeded).
CacheCoherent ==
  pindexPrev # NULL => tmpl.prev = pindexPrev /\ tmpl.segwit = fLastSegwit

IInv == TypeOK /\ CacheCoherent /\ ServedOnTip /\ SegwitMatches

LEMMA InitIInv == Init => IInv
  BY TemplateAssumption DEF Init, IInv, TypeOK, CacheCoherent, ServedOnTip,
     SegwitMatches, Served, Templates, Lps, NoTemplate, NoLp, Requests

\* One ServeTemplate step keeps the invariant, whichever branch it takes.
LEMMA ServeIInv ==
  ASSUME IInv, NEW c \in Clients, NEW r \in Requests,
         ServeTemplate(c, r), req' = [req EXCEPT ![c] = r],
         UNCHANGED <<tip, txUpd, clock>>, watched' \in [Clients -> Lps]
  PROVE  IInv'
  <1> USE TemplateAssumption DEF IInv, TypeOK, Requests, Templates, Lps
  <1>1. CASE NeedRebuild(r) /\ r.addr \notin BadAddrs /\ RebuildOK(c, r)
    BY <1>1 DEF RebuildOK, Respond, CacheCoherent, ServedOnTip, SegwitMatches, Served
  <1>2. CASE NeedRebuild(r) /\ RebuildFails(c, r)
    <2>1. NoTemplate \in Templates /\ NoLp \in Lps
      BY DEF NoTemplate, NoLp
    <2>2. TypeOK'
      BY <1>2, <2>1 DEF RebuildFails
    <2>3. CacheCoherent' /\ ServedOnTip' /\ SegwitMatches'
      BY <1>2 DEF RebuildFails, CacheCoherent, ServedOnTip, SegwitMatches, Served
    <2> QED
      BY <2>2, <2>3
  <1>3. CASE ~NeedRebuild(r)
    <2>1. pindexPrev = tip /\ fLastSegwit = r.segwit
      BY <1>3 DEF NeedRebuild
    <2>2. tmpl.prev = tip /\ tmpl.segwit = r.segwit
      BY <2>1 DEF CacheCoherent
    <2>3. Respond(c, tmpl, nTxUpdLast) /\ UNCHANGED cacheVars
      BY <1>3 DEF ServeTemplate
    <2> QED
      BY <2>2, <2>3 DEF Respond, cacheVars, CacheCoherent, ServedOnTip,
         SegwitMatches, Served
  <1> QED
    BY <1>1, <1>2, <1>3 DEF ServeTemplate

LEMMA NextIInv == IInv /\ [Next]_vars => IInv'
  <1> SUFFICES ASSUME IInv, [Next]_vars PROVE IInv'
    OBVIOUS
  <1> USE TemplateAssumption DEF IInv, TypeOK, Templates, Lps
  <1>1. ASSUME NEW c \in Clients, NEW r \in Requests, Request(c, r)
        PROVE IInv'
    BY <1>1, ServeIInv DEF Request
  <1>2. ASSUME NEW c \in Clients, NEW r \in Requests, StartLongpoll(c, r)
        PROVE IInv'
    BY <1>2 DEF StartLongpoll, cacheVars, CacheCoherent, ServedOnTip,
       SegwitMatches, Served, Requests
  <1>3. ASSUME NEW c \in Clients, LongpollWake(c)
        PROVE IInv'
    <2>1. req[c] \in Requests /\ req' = [req EXCEPT ![c] = req[c]]
      BY <1>3 DEF LongpollWake
    <2> QED
      BY <1>3, <2>1, ServeIInv DEF LongpollWake
  <1>4. CASE NewTip
    BY <1>4 DEF NewTip, cacheVars, CacheCoherent, ServedOnTip, SegwitMatches, Served
  <1>5. CASE MempoolUpdate
    BY <1>5 DEF MempoolUpdate, cacheVars, CacheCoherent, ServedOnTip,
       SegwitMatches, Served
  <1>6. CASE Tick
    BY <1>6 DEF Tick, cacheVars, CacheCoherent, ServedOnTip, SegwitMatches, Served
  <1>7. CASE UNCHANGED vars
    BY <1>7 DEF vars, CacheCoherent, ServedOnTip, SegwitMatches, Served
  <1> QED
    BY <1>1, <1>2, <1>3, <1>4, <1>5, <1>6, <1>7 DEF Next

\* Every template getblocktemplate hands out is built on the tip of the
\* moment it is handed out, for any number of callers and blocks.
THEOREM ServedOnTipThm == Spec => []ServedOnTip
  <1>1. Init => IInv
    BY InitIInv
  <1>2. IInv /\ [Next]_vars => IInv'
    BY NextIInv
  <1>3. IInv => ServedOnTip
    BY DEF IInv
  <1> QED
    BY <1>1, <1>2, <1>3, PTL DEF Spec

\* A caller never gets a template built for the other segwit support,
\* the property fLastTemplateSupportsSegwit and the clearing of pindexPrev
\* before a rebuild that may fail are there for.
THEOREM SegwitMatchesThm == Spec => []SegwitMatches
  <1>1. IInv => SegwitMatches
    BY DEF IInv
  <1> QED
    BY <1>1, InitIInv, NextIInv, PTL DEF Spec

\* The type invariant of the model.
THEOREM TypeCorrect == Spec => []TypeOK
  <1>1. IInv => TypeOK
    BY DEF IInv
  <1> QED
    BY <1>1, InitIInv, NextIInv, PTL DEF Spec

-----------------------------------------------------------------------------
(* Refinement: getblocktemplate implements TemplateService.  A cache hit   *)
(* answers with pblocktemplate and nTransactionsUpdatedLast, so besides    *)
(* CacheCoherent the proof needs two more facts about the statics: the     *)
(* cached mempool counter is never ahead of the mempool, and a cached      *)
(* template pays a valid address (a rebuild for an invalid one throws      *)
(* before pindexPrev is set again).                                        *)

CacheValid ==
  /\ nTxUpdLast <= txUpd
  /\ pindexPrev # NULL => tmpl.payee \notin BadAddrs

RInv == IInv /\ CacheValid

LEMMA InitRInv == Init => RInv
  BY InitIInv DEF Init, RInv, CacheValid

LEMMA NextCacheValid == RInv /\ [Next]_vars => CacheValid'
  <1> SUFFICES ASSUME RInv, [Next]_vars PROVE CacheValid'
    OBVIOUS
  <1> USE TemplateAssumption DEF RInv, IInv, TypeOK, CacheValid, Requests
  <1>1. ASSUME NEW c \in Clients, NEW r \in Requests, ServeTemplate(c, r),
               txUpd' = txUpd
        PROVE  CacheValid'
    <2>1. CASE NeedRebuild(r) /\ r.addr \notin BadAddrs /\ RebuildOK(c, r)
      BY <1>1, <2>1 DEF RebuildOK
    <2>2. CASE NeedRebuild(r) /\ RebuildFails(c, r)
      BY <1>1, <2>2 DEF RebuildFails
    <2>3. CASE ~NeedRebuild(r)
      BY <1>1, <2>3 DEF ServeTemplate, cacheVars
    <2> QED
      BY <1>1, <2>1, <2>2, <2>3 DEF ServeTemplate
  <1>2. ASSUME NEW c \in Clients, NEW r \in Requests, Request(c, r)
        PROVE  CacheValid'
    BY <1>1, <1>2 DEF Request
  <1>3. ASSUME NEW c \in Clients, LongpollWake(c)
        PROVE  CacheValid'
    BY <1>1, <1>3 DEF LongpollWake
  <1>4. ASSUME NEW c \in Clients, NEW r \in Requests, StartLongpoll(c, r)
        PROVE  CacheValid'
    BY <1>4 DEF StartLongpoll, cacheVars
  <1>5. CASE NewTip \/ MempoolUpdate \/ Tick \/ UNCHANGED vars
    BY <1>5 DEF NewTip, MempoolUpdate, Tick, cacheVars, vars
  <1> QED
    BY <1>2, <1>3, <1>4, <1>5 DEF Next

LEMMA NextRInv == RInv /\ [Next]_vars => RInv'
  BY NextIInv, NextCacheValid DEF RInv

\* One ServeTemplate step is an answer of the abstract service.
LEMMA ServeAnswers ==
  ASSUME RInv, NEW c \in Clients, NEW r \in Requests,
         ServeTemplate(c, r)
  PROVE  Service!Answer(c, r)
  <1> USE TemplateAssumption DEF RInv, IInv, TypeOK, Requests, Templates
  <1>1. CASE NeedRebuild(r) /\ r.addr \notin BadAddrs /\ RebuildOK(c, r)
    <2>1. r.addr \in Service!Payees /\ txUpd \in 0..txUpd
      BY <1>1 DEF Service!Payees
    <2> QED
      BY <1>1, <2>1 DEF RebuildOK, Respond, Service!Answer
  <1>2. CASE NeedRebuild(r) /\ RebuildFails(c, r)
    BY <1>2 DEF RebuildFails, Service!Answer, NoTemplate, NoLp,
       Service!NoTemplate, Service!NoLp
  <1>3. CASE ~NeedRebuild(r)
    <2>1. pindexPrev = tip /\ fLastSegwit = r.segwit /\ pindexPrev # NULL
      BY <1>3 DEF NeedRebuild
    <2>2. tmpl = [prev |-> tip, payee |-> tmpl.payee, segwit |-> r.segwit]
      BY <2>1 DEF CacheCoherent
    <2>3. tmpl.payee \in Service!Payees /\ nTxUpdLast \in 0..txUpd
      BY <2>1 DEF CacheValid, Service!Payees
    <2>4. Respond(c, tmpl, nTxUpdLast)
      BY <1>3 DEF ServeTemplate
    <2> QED
      BY <2>2, <2>3, <2>4 DEF Respond, Service!Answer
  <1> QED
    BY <1>1, <1>2, <1>3 DEF ServeTemplate

\* Every step of getblocktemplate is a step of the service or, for the
\* cache variables alone, a stutter of it.
LEMMA NextRefines == RInv /\ [Next]_vars => [Service!Next]_Service!vars
  <1> SUFFICES ASSUME RInv, [Next]_vars PROVE [Service!Next]_Service!vars
    OBVIOUS
  <1>1. ASSUME NEW c \in Clients, NEW r \in Requests, Request(c, r)
        PROVE  Service!Request(c, r) /\ r \in Service!Requests
    BY <1>1, ServeAnswers DEF Request, Service!Request, Requests, Service!Requests
  <1>2. ASSUME NEW c \in Clients, NEW r \in Requests, StartLongpoll(c, r)
        PROVE  Service!StartLongpoll(c, r) /\ r \in Service!Requests
    BY <1>2 DEF StartLongpoll, Service!StartLongpoll, NoLp, Service!NoLp,
       Requests, Service!Requests
  <1>3. ASSUME NEW c \in Clients, LongpollWake(c)
        PROVE  Service!LongpollWake(c)
    <2>1. req[c] \in Requests
      BY DEF RInv, IInv, TypeOK
    <2> QED
      BY <1>3, <2>1, ServeAnswers DEF LongpollWake, WaitEnds, Service!LongpollWake
  <1>4. CASE NewTip \/ MempoolUpdate \/ Tick
    <2>1. Service!Environment
      <3>1. CASE NewTip
        BY <3>1 DEF NewTip, cacheVars, Service!Environment
      <3>2. CASE MempoolUpdate
        BY <3>2 DEF MempoolUpdate, cacheVars, Service!Environment
      <3>3. CASE Tick
        BY <3>3 DEF Tick, cacheVars, Service!Environment
      <3> QED
        BY <1>4, <3>1, <3>2, <3>3
    <2> QED
      BY <2>1 DEF Service!Next
  <1>5. CASE UNCHANGED vars
    BY <1>5 DEF vars, Service!vars
  <1> QED
    BY <1>1, <1>2, <1>3, <1>4, <1>5 DEF Next, Service!Next

\* getblocktemplate with its shared template cache implements the
\* cache-free TemplateService, for every set of callers and addresses and
\* every bound: the cache never hands out a template off the tip, for the
\* wrong segwit support or an invalid payee, and a long-poll never returns
\* before the tip or the mempool moved.
THEOREM ServiceRefinement == Spec => ServiceSpec
  <1>1. Init => Service!Init
    BY DEF Init, Service!Init, NoTemplate, Service!NoTemplate, NoLp, Service!NoLp
  <1> QED
    BY <1>1, InitRInv, NextRInv, NextRefines, PTL DEF Spec, ServiceSpec, Service!Spec
=============================================================================
