-------------------------------- MODULE Webhook --------------------------------
(***************************************************************************)
(* POST /api/github/webhook (route.ts): whether a delivery is authentic    *)
(* under the deployment's policy, which one of release notes, sprint       *)
(* report, the factory (trigger.ts) and a user story it asks for, and what *)
(* GitHub is answered once the session or the dispatch was tried.          *)
(*                                                                         *)
(* A delivery carries the labels its issue had when it was sent; GitHub    *)
(* may deliver it again, or late.  The route keeps nothing between two     *)
(* deliveries.  What a dispatch does inside is Entry; here is what it      *)
(* comes to: begun, held (an answer of success, though nothing begins), or *)
(* failed.  A factory that is paused holds triggers and answers, and       *)
(* nobody keeps them for later.  Deliveries are of a configured repository *)
(* and whole: for others the route answers 400 or 404 before it looks at   *)
(* the policy, or a dispatch refuses the delivery's id.                    *)
(***************************************************************************)
EXTENDS Naturals, FiniteSets

CONSTANTS
    Hooks,        \* deliveries
    MaxStarts     \* sessions or dispatches of one delivery (a bound of the model)

ASSUME WebhookAssumption == MaxStarts \in Nat \ {0}

VARIABLES
    deployment,   \* what the process was configured with
    payloadOf,    \* what each delivery carries
    answerTo,     \* the last status each was answered with
    starts,       \* history: sessions and dispatches each delivery led to
    cameTo        \* history: what the last handling of each came to

webhookVars == <<deployment, payloadOf, answerTo, starts, cameTo>>

\* "none" is nothing begun; a dispatch is held by its run or the issue's, or
\* because the factory is paused.
HookOutcomes == {"none", "begun", "held", "paused"}

\* Labels of an issue that outlast their event: the factory's own, and the one
\* a published story leaves.
IssueLabels == {"dark-factory", "needs-answer", "df:done", "df:failed", "user-story-added"}
EventLabels == IssueLabels \cup {"needs-story", "generate-sprint-report"}
Labels0 == EventLabels \cup {"none"}

Unsent == [event |-> "none", action |-> "none", label |-> "none", labels |-> {},
           mention |-> FALSE, merged |-> FALSE, allowed |-> FALSE, signed |-> FALSE]

Payloads == [event : {"issues", "issue_comment", "pull_request", "other"},
             action : {"opened", "labeled", "unlabeled", "created", "edited", "closed"},
             label : Labels0, labels : SUBSET IssueLabels, mention : BOOLEAN,
             merged : BOOLEAN, allowed : BOOLEAN, signed : BOOLEAN]

-----------------------------------------------------------------------------
(* The deployment                                                          *)

Environments == [provider : {"unset", "vercel", "generic", "unsupported"},
                 node : {"production", "other"},
                 stage : {"unset", "development", "preview", "production", "invalid"},
                 require : BOOLEAN, allowUnsigned : BOOLEAN]

\* stageFromValue, with the fallback of both adapters.
StageOf(e) == IF e.stage # "unset" THEN e.stage
              ELSE IF e.node = "production" THEN "production" ELSE "development"

\* createPlatformAdapter throws: no provider in production, an unknown one, no
\* stage, or a production build that calls itself development.
Misconfigured(e) ==
    \/ e.provider = "unsupported"
    \/ e.provider = "unset" /\ e.node = "production"
    \/ StageOf(e) = "invalid"
    \/ e.node = "production" /\ StageOf(e) = "development"

resolveSignaturePolicy(e) ==
    IF Misconfigured(e) THEN "misconfigured"
    ELSE IF e.require THEN "required"
    ELSE IF e.allowUnsigned THEN "permissive"
    ELSE IF \/ StageOf(e) = "production"
            \/ StageOf(e) = "preview" /\ e.provider # "vercel"
    THEN "required" ELSE "permissive"

\* verifySignature: a configured secret is always checked.
Verified(p) == IF deployment.secret THEN p.signed ELSE deployment.policy = "permissive"

\* The status of a delivery that is refused before its event is looked at.
Refusal(p) ==
    IF deployment.policy = "misconfigured" THEN 500
    ELSE IF ~deployment.secret /\ deployment.policy = "required" THEN 500
    ELSE IF ~Verified(p) THEN 401
    ELSE 0

-----------------------------------------------------------------------------
(* What a delivery asks for                                                *)

IsComment(p) == p.event = "issue_comment"

\* Mutant: an issue that ended is not left alone.
IsFactoryEventOnEnded(p) ==
    /\ p.action # "closed"
    /\ IF IsComment(p) THEN p.action = "created"
       ELSE \/ p.action = "labeled" /\ p.label = "dark-factory"
            \/ p.action = "unlabeled" /\ p.label \in {"dark-factory", "needs-answer"}

\* decideDarkFactoryTrigger up to the gates: is this about the factory at all?
IsFactoryEvent(p) ==
    /\ p.action # "closed"
    /\ IF IsComment(p) THEN p.action = "created"
       ELSE \/ p.action = "labeled" /\ p.label = "dark-factory"
            \/ p.action = "unlabeled" /\ p.label \in {"dark-factory", "needs-answer"}
    /\ p.labels \cap {"df:done", "df:failed"} = {}

\* decideDarkFactoryTrigger: the gates, and the kind of what passes them.
FactoryDecision(p) ==
    IF ~IsFactoryEvent(p) THEN "not-a-trigger"
    ELSE IF ~p.allowed THEN "refused"
    ELSE IF IsComment(p) THEN "resume"
    ELSE IF p.action = "labeled" THEN "trigger"
    ELSE IF p.label = "needs-answer" THEN "not-a-trigger"
    ELSE "abort"

isReleaseNotesTrigger(p) == p.action = "closed" /\ p.merged
isSprintReportTrigger(p) == p.action = "labeled" /\ p.label = "generate-sprint-report"
isStoryTrigger(p) ==
    /\ p.action # "closed"
    /\ "user-story-added" \notin p.labels
    /\ (p.action = "labeled" /\ p.label = "needs-story") \/ p.mention

\* handler: at most one of them, the first that applies.
Asks(p) ==
    CASE p.event = "pull_request" -> IF isReleaseNotesTrigger(p) THEN "release" ELSE "nothing"
      [] p.event = "issue_comment" ->
            IF FactoryDecision(p) = "not-a-trigger" THEN "nothing" ELSE FactoryDecision(p)
      [] p.event = "issues" ->
            IF isSprintReportTrigger(p) THEN "sprint"
            ELSE IF FactoryDecision(p) # "not-a-trigger" THEN FactoryDecision(p)
            ELSE IF isStoryTrigger(p) THEN "story" ELSE "nothing"
      [] OTHER -> "nothing"

FactoryKinds == {"trigger", "abort", "resume"}
SessionKinds == {"release", "sprint", "story"}

-----------------------------------------------------------------------------
WebhookTypeOK ==
    /\ deployment \in [policy : {"misconfigured", "required", "permissive"},
                       secret : BOOLEAN]
    /\ \A d \in Hooks : payloadOf[d] = Unsent \/ payloadOf[d] \in Payloads
    /\ answerTo \in [Hooks -> {0, 200, 202, 401, 500, 502, 503}]
    /\ starts \in [Hooks -> 0..MaxStarts]
    /\ cameTo \in [Hooks -> HookOutcomes]

WebhookInit ==
    /\ deployment \in [policy : {resolveSignaturePolicy(e) : e \in Environments},
                       secret : BOOLEAN]
    /\ payloadOf = [d \in Hooks |-> Unsent]
    /\ answerTo = [d \in Hooks |-> 0]
    /\ starts = [d \in Hooks |-> 0]
    /\ cameTo = [d \in Hooks |-> "none"]

-----------------------------------------------------------------------------
(* GitHub                                                                  *)

\* An event of an issue with such labels, by somebody the allow-lists know or
\* not, in a delivery GitHub signed or somebody else made.
Send(d, event, action, label) ==
    /\ payloadOf[d] = Unsent
    /\ \E labels \in SUBSET IssueLabels, allowed, signed, merged, mention \in BOOLEAN :
          /\ merged => event = "pull_request" /\ action = "closed"
          /\ action = "labeled" => {label} \cap IssueLabels \subseteq labels
          /\ action = "unlabeled" => label \notin labels
          /\ payloadOf' = [payloadOf EXCEPT
                ![d] = [event |-> event, action |-> action, label |-> label,
                        labels |-> labels, mention |-> mention, merged |-> merged,
                        allowed |-> allowed, signed |-> signed]]
    /\ UNCHANGED <<deployment, answerTo, starts, cameTo>>

IssueEvent(d) ==
    \/ \E l \in {"dark-factory", "needs-story", "generate-sprint-report"} :
          Send(d, "issues", "labeled", l)
    \/ \E l \in {"dark-factory", "needs-answer"} : Send(d, "issues", "unlabeled", l)
    \/ Send(d, "issues", "edited", "none") \/ Send(d, "issues", "closed", "none")
    \/ Send(d, "issue_comment", "created", "none")
    \/ Send(d, "issue_comment", "edited", "none")
    \/ Send(d, "pull_request", "closed", "none") \/ Send(d, "other", "created", "none")

-----------------------------------------------------------------------------
(* handler, for one delivery of d                                          *)

\* What GitHub is answered, and what the handling came to.
Reply(d, status, came) ==
    /\ answerTo' = [answerTo EXCEPT ![d] = status]
    /\ cameTo' = [cameTo EXCEPT ![d] = came]
Start(d) == starts[d] < MaxStarts /\ starts' = [starts EXCEPT ![d] = @ + 1]

\* Begun and answered with status, or nothing begun and the same answer.
Begin(d, status) == Start(d) /\ Reply(d, status, "begun")
JustReply(d, status, came) == Reply(d, status, came) /\ UNCHANGED starts

RefuseHook(d) ==
    /\ Refusal(payloadOf[d]) # 0
    /\ JustReply(d, Refusal(payloadOf[d]), "none")

AcknowledgeHook(d) ==
    /\ Refusal(payloadOf[d]) = 0
    /\ Asks(payloadOf[d]) = "nothing"
    /\ JustReply(d, 200, "none")

\* Mutant: a session that was refused is answered like one that began.
StartSessionAnyway(d) ==
    /\ Refusal(payloadOf[d]) = 0
    /\ Asks(payloadOf[d]) \in SessionKinds
    /\ Begin(d, 200) \/ JustReply(d, 200, "none") \/ Begin(d, 502)

\* A session is asked of Eve: accepted; refused, or no origin to ask; or begun
\* with an answer that does not arrive or cannot be read.
StartSession(d) ==
    /\ Refusal(payloadOf[d]) = 0
    /\ Asks(payloadOf[d]) \in SessionKinds
    /\ Begin(d, 200) \/ JustReply(d, 502, "none") \/ Begin(d, 502)

\* Mutant: the factory's pause is looked at whatever the delivery asks for.
HeldByPauseAll(p) == Asks(p) \in FactoryKinds

\* A paused factory takes no trigger and no answer; an abort goes through.
HeldByPause(p) == Asks(p) \in FactoryKinds \ {"abort"}

\* runDarkFactoryDispatch held it: the factory is paused; or a run that ended,
\* runs, is paused or stopped, an active run of the issue, a delivery handled
\* before or a reply that asks for another plan stands in the way.
HoldDispatch(d) ==
    \/ JustReply(d, 202, "held")
    \/ HeldByPause(payloadOf[d]) /\ JustReply(d, 202, "paused")

\* dispatchDarkFactory of what the gates let through: done (an abort that finds
\* no run has cleared the labels); held; failed, perhaps after its first writes,
\* for GitHub to deliver again; or thrown, by a store misconfigured or one that
\* does not close, which the framework answers.
DispatchHook(d) ==
    /\ Refusal(payloadOf[d]) = 0
    /\ Asks(payloadOf[d]) \in FactoryKinds
    /\ \/ Begin(d, 202) \/ HoldDispatch(d)
       \/ \E status \in {500, 503} : Begin(d, status) \/ JustReply(d, status, "none")

\* A gate refused it for good, unless a store threw before it was looked at.
RefuseDispatch(d) ==
    /\ Refusal(payloadOf[d]) = 0
    /\ Asks(payloadOf[d]) = "refused"
    /\ \E status \in {200, 500} : JustReply(d, status, "none")

HandleHook(d) ==
    /\ payloadOf[d] # Unsent
    /\ \/ RefuseHook(d) \/ AcknowledgeHook(d) \/ StartSession(d)
       \/ DispatchHook(d) \/ RefuseDispatch(d)
    /\ UNCHANGED <<deployment, payloadOf>>

WebhookNext ==
    \E d \in Hooks : IssueEvent(d) \/ HandleHook(d)

WebhookSpec == WebhookInit /\ [][WebhookNext]_webhookVars

-----------------------------------------------------------------------------
(* What must hold                                                          *)

\* The strictness of the policy, over every environment: without its explicit
\* opt-out no production build, and no preview but Vercel's, takes a payload
\* on trust, however it is misconfigured.
PolicyIsStrict ==
    \A e \in Environments :
        resolveSignaturePolicy(e) = "permissive" =>
            \/ e.allowUnsigned
            \/ e.node # "production" /\ StageOf(e) = "development"
            \/ StageOf(e) = "preview" /\ e.provider = "vercel"

\* Nothing is begun for a delivery nobody vouches for; by a stranger nothing of
\* the factory's; and nothing of the factory's for an issue that had ended.  A
\* comment only ever resumes.  An edit or a comment never repeats a published
\* story.
StartsAreWarranted ==
    \A d \in Hooks : starts[d] > 0 =>
        LET p == payloadOf[d]
        IN /\ p.signed \/ (~deployment.secret /\ deployment.policy = "permissive")
           /\ Asks(p) \in FactoryKinds =>
                 p.allowed /\ p.labels \cap {"df:done", "df:failed"} = {}
           /\ IsComment(p) => Asks(p) = "resume"
           /\ Asks(p) = "story" => "user-story-added" \notin p.labels

\* The answer tells what this handling of a delivery came to.  A session is a
\* success only if it began.  202 means that the factory took the delivery:
\* what it asks for was begun, or it was held, which nothing else is called;
\* never that it failed, was refused or nobody asked.  A plain 200 that begins
\* nothing is a refusal for good, or nothing was asked.  A pause holds work
\* back, but never an abort.  Only of 500, 502 and 503 GitHub cannot tell.
AnswersAreHonest ==
    \A d \in Hooks :
        LET asks == Asks(payloadOf[d])
        IN /\ answerTo[d] = 200 => (asks \in SessionKinds <=> cameTo[d] = "begun")
           /\ answerTo[d] = 200 => asks \notin FactoryKinds
           /\ answerTo[d] = 202 => asks \in FactoryKinds /\ cameTo[d] # "none"
           /\ cameTo[d] \in {"held", "paused"} => answerTo[d] = 202
           /\ cameTo[d] = "paused" => asks # "abort"
           /\ cameTo[d] = "begun" => starts[d] > 0
           /\ answerTo[d] = 401 => starts[d] = 0

\* A webhook acts on what may be trusted, and says truly whether it did.
WebhookIsTrue == PolicyIsStrict /\ StartsAreWarranted /\ AnswersAreHonest
=============================================================================
