------------------------------ MODULE MCServices -------------------------------
(***************************************************************************)
(* Instance of the services around a session, and of the two candidate     *)
(* pages: mail, audit, idempotency keys, tools, events, the model gateway, *)
(* sign-in, the organisation's people.  They share no state, so a          *)
(* behaviour follows one of them, its focus, and the run is the union of   *)
(* theirs, not their product.                                              *)
(***************************************************************************)
EXTENDS Outbox, AuditChain, Idempotency, SessionTools, BehaviourEvents, AiGateway,
        SignIn, Tenancy, WorkspacePage, PortalPage, ReviewPage, RoundPage, EvidencePage,
        EntryPage, Insights, TLC

VARIABLE focus

services == <<outboxvars, auditvars, idemvars, toolvars, eventvars, aivars, signvars,
              tenancyvars, pagevars, ppvars, reviewpagevars, roundvars, evidencevars, entryvars,
              insightvars, focus>>

ServicesInit ==
  /\ OutboxInit /\ AuditInit /\ IdemInit /\ ToolsInit /\ EventsInit /\ AiInit
  /\ SignInInit /\ TenancyInit /\ PageInit /\ PortalPageInit
  /\ ReviewPageInit /\ RoundPageInit /\ EvidencePageInit /\ EntryPageInit /\ InsightsInit
  /\ focus \in {"outbox", "audit", "idempotency", "tools", "events", "ai", "signin",
                "tenancy", "page", "portalpage", "reviewpage", "roundpage", "evidencepage",
                "entrypage", "insights"}
  /\ focus # "idempotency" => body = [c \in Call |-> CHOOSE b \in Body : TRUE]
  /\ focus # "reviewpage" => role = "first"
  /\ focus # "roundpage" => recorded = [a \in Aspect |-> NoRationale]

ServicesNext ==
  /\ \/ focus = "outbox" /\ OutboxNext
     \/ focus # "outbox" /\ UNCHANGED outboxvars
  /\ \/ focus = "audit" /\ AuditNext
     \/ focus # "audit" /\ UNCHANGED auditvars
  /\ \/ focus = "idempotency" /\ IdemNext
     \/ focus # "idempotency" /\ UNCHANGED idemvars
  /\ \/ focus = "tools" /\ ToolsNext
     \/ focus # "tools" /\ UNCHANGED toolvars
  /\ \/ focus = "events" /\ EventsNext
     \/ focus # "events" /\ UNCHANGED eventvars
  /\ \/ focus = "ai" /\ AiNext
     \/ focus # "ai" /\ UNCHANGED aivars
  /\ \/ focus = "signin" /\ SignInNext
     \/ focus # "signin" /\ UNCHANGED signvars
  /\ \/ focus = "tenancy" /\ TenancyNext
     \/ focus # "tenancy" /\ UNCHANGED tenancyvars
  /\ \/ focus = "page" /\ PageNext
     \/ focus # "page" /\ UNCHANGED pagevars
  /\ \/ focus = "portalpage" /\ PortalPageNext
     \/ focus # "portalpage" /\ UNCHANGED ppvars
  /\ \/ focus = "reviewpage" /\ ReviewPageNext
     \/ focus # "reviewpage" /\ UNCHANGED reviewpagevars
  /\ \/ focus = "roundpage" /\ RoundPageNext
     \/ focus # "roundpage" /\ UNCHANGED roundvars
  /\ \/ focus = "evidencepage" /\ EvidencePageNext
     \/ focus # "evidencepage" /\ UNCHANGED evidencevars
  /\ \/ focus = "entrypage" /\ EntryPageNext
     \/ focus # "entrypage" /\ UNCHANGED entryvars
  /\ \/ focus = "insights" /\ InsightsNext
     \/ focus # "insights" /\ UNCHANGED insightvars
  /\ UNCHANGED focus

(* The notification job is run again and again where mail is the focus. *)
ServicesFairness ==
  /\ \A m \in Message : WF_services(focus = "outbox" /\ BackoffElapses(m) /\ ServicesNext)
  /\ \A w \in Worker : WF_services(focus = "outbox" /\ Work(w) /\ ServicesNext)

ServicesSpec == ServicesInit /\ [][ServicesNext]_services /\ ServicesFairness

-------------------------------------------------------------------------------
(* Properties. *)

(* What a page shows as saved, the server has: the scores of a V1 review   *)
(* in its user's column, the dimensions counted of a V2 round, the fields  *)
(* of the first candidate portal, the saved mark of the V2 workspace.      *)
ShownSavedIsStored ==
  CleanScoresStored /\ CountedAreRecorded /\ CleanWorkStored /\ TicksAreStored

(* The V2 candidate begins what he has been told of and has agreed to, and *)
(* is shown as submitted what is: the entry page, and the evidence page's  *)
(* acknowledgement.                                                        *)
CandidateToldTruly == StartedInformed /\ StartedKnowingly /\ SubmittedShownTruly

===============================================================================
