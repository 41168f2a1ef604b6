------------------------------- MODULE Operators -------------------------------
(***************************************************************************)
(* The parts that people use, side by side: they share no state.           *)
(***************************************************************************)
EXTENDS Integers

CONSTANTS Operator, RequestKey, Post, Hour, Cooldown, HourlyLimit, Wait, MaxTime,
          User, Address, Caller, Window, LoginAttempts, Patience,
          Route, Content, InputOf, Contour, Day, Footage, MaxWrites,
          Case, KindOf, Dimension, Critical, MaxRetries, MaxEdits

VARIABLES clock, requests, lease, posts, served,
          failures, calls,
          day, jobs, head, contour, orders, summaries, play, conclusions, view, seen, steady, writes,
          run, disk, asked, answers, card, mended, forged, edits

Adm == INSTANCE Admission WITH Key <- RequestKey
Log == INSTANCE Login WITH MaxAttempts <- LoginAttempts, Call <- Caller
Car == INSTANCE Cards
Eva == INSTANCE Evaluation WITH made <- asked

-----------------------------------------------------------------------------
(* What each part keeps is said in its module. *)

\* The manual runs that operators ask for, and the login that makes them operators.
OperatorsKept == Adm!AdmissionKept /\ Log!ThrottleKept

\* The public page, read while others write.
CardsKept == Car!CardsKept

\* The evaluation of the prompt and its scorecard.
EvaluationKept == Eva!EvaluationKept
=============================================================================
