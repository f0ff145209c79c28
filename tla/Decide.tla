-------------------------------- MODULE Decide --------------------------------
(***************************************************************************)
(* decide (decide.rs, and the decide tool of server/mod.rs): named questions, *)
(* each of a kind with criteria of its own shape, are put to a decision model *)
(* in one request, and its typed answers are held against what was asked       *)
(* before any of them is passed on.  What the model answers is up to it.       *)
(***************************************************************************)
EXTENDS Naturals

CONSTANTS
  QuestionIds, \* the names questions and answers may have
  MaxOptions,  \* MAX_CHOICE_OPTIONS
  MaxLevels    \* MAX_SCORE_LEVELS

VARIABLES
  asked,   \* the questions of the call, by name
  deny,    \* the backend's data policy
  stage,   \* where the call is
  sent,    \* the request, once it went out
  modelReply,   \* what the model answered, by name
  result   \* what the caller is told

decideVars == <<asked, deny, stage, sent, modelReply, result>>

NoQuestions == [i \in {} |-> 0]

\* criteria: an object, an array or nothing; how many, and whether one is blank.
Criteria ==
  [form : {"options", "levels"}, size : 1..(MaxOptions + 1), blank : BOOLEAN]
    \cup {[form |-> "none", size |-> 0, blank |-> FALSE]}
Question == [kind : {"choice", "score", "noul"}, criteria : Criteria, says : BOOLEAN]

\* Question::validate.
Validate(q) ==
  /\ q.says
  /\ \/ q.kind = "choice" /\ q.criteria.form = "options" /\ q.criteria.size \in 2..MaxOptions /\ ~q.criteria.blank
     \/ q.kind = "score" /\ q.criteria.form = "levels" /\ q.criteria.size \in 2..MaxLevels /\ ~q.criteria.blank
     \/ q.kind = "noul" /\ q.criteria.form = "none"

\* A typed answer: the label chosen and the legend echoed are the question's or not, a
\* probability is one or is not.
TypedAnswer == [kind : {"choice", "score", "noul"}, fits : BOOLEAN]

\* Mutant of CheckAgainst: the questions are gone through, the answers are not.
CheckAgainstAsked(answers, questions) ==
  \A i \in DOMAIN questions :
    i \in DOMAIN answers /\ answers[i].kind = questions[i].kind /\ answers[i].fits
\* check_against: every question has an answer of its kind that fits, and no more.
CheckAgainst(answers, questions) ==
  /\ \A i \in DOMAIN questions :
       i \in DOMAIN answers /\ answers[i].kind = questions[i].kind /\ answers[i].fits
  /\ \A i \in DOMAIN answers : i \in DOMAIN questions

DecideInit ==
  /\ \E some \in SUBSET QuestionIds : asked \in [some -> Question]
  /\ deny \in BOOLEAN
  /\ stage = "asked" /\ sent = [questions |-> NoQuestions, deny |-> FALSE]
  /\ modelReply = NoQuestions /\ result = "none"

Finish(what) == stage' = "ended" /\ result' = what

\* DecisionRequest::new and deny_data_collection; then the key, then the request.
SendQuestions ==
  /\ stage = "asked"
  /\ IF DOMAIN asked = {} THEN Finish("no questions") /\ UNCHANGED sent
     ELSE IF \E i \in DOMAIN asked : ~Validate(asked[i]) THEN Finish("invalid question") /\ UNCHANGED sent
     ELSE /\ sent' = [questions |-> asked, deny |-> deny]
          /\ stage' = "waiting" /\ UNCHANGED result
  /\ UNCHANGED <<asked, deny, modelReply>>

\* The model's reply: external.
Reply ==
  /\ stage = "waiting"
  /\ \E some \in SUBSET QuestionIds : modelReply' \in [some -> TypedAnswer]
  /\ stage' = "replied"
  /\ UNCHANGED <<asked, deny, sent, result>>

\* DecisionClient::decide, when nothing usable came back.
Fail ==
  /\ stage = "waiting"
  /\ \E what \in {"transport", "busy", "refused", "unreadable"} : Finish(what)
  /\ UNCHANGED <<asked, deny, sent, modelReply>>

Decide ==
  /\ stage = "replied"
  /\ Finish(IF CheckAgainst(modelReply, sent.questions) THEN "answers" ELSE "mismatch")
  /\ UNCHANGED <<asked, deny, sent, modelReply>>

\* What the caller is advised to do.
NextStep ==
  CASE result \in {"busy", "transport"} -> "again"
    [] result = "refused" -> "change"
    [] result \in {"mismatch", "unreadable"} -> "again, or consult"
    [] result \in {"no questions", "invalid question"} -> "fix"
    [] OTHER -> "none"

DecideNext == SendQuestions \/ Reply \/ Fail \/ Decide
DecideSpec == DecideInit /\ [][DecideNext]_decideVars

----
(* Properties *)

\* "A mismatch is an error, never a repaired value" (decide.rs:287): a caller is given
\* the model's answers only when they are, name for name, answers to what it asked, each
\* of its question's kind; no question goes out that could have only one answer, or none
\* with a meaning; the operator's data policy rides on every request; and a request that
\* never went out is not one to send again.
AnsweredAsAsked ==
  /\ result = "answers" =>
       /\ DOMAIN modelReply = DOMAIN asked
       /\ \A i \in DOMAIN modelReply : modelReply[i].fits /\ modelReply[i].kind = asked[i].kind
  /\ sent.questions # NoQuestions =>
       /\ sent.deny = deny
       /\ \A i \in DOMAIN asked :
            asked[i].kind = "noul" \/ (asked[i].criteria.size > 1 /\ ~asked[i].criteria.blank)
  /\ sent.questions = NoQuestions => NextStep \in {"none", "fix"}
=============================================================================
