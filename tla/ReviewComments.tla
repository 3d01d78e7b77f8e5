---------------------------- MODULE ReviewComments ----------------------------
(***************************************************************************)
(* The comments of a card in REVIEW.  The poller asks GitHub for those since *)
(* the newest it has seen, in two calls, keeps each in a row and announces    *)
(* those that are new; the user writes comments, reads them, and asks for     *)
(* work on them.  GitHub lists what was written at the given second or later. *)
(* Comments are numbered in the order in which they are written.              *)
(***************************************************************************)
EXTENDS Integers, Sequences, FiniteSetsExt

CONSTANTS Remarks,      \* bound: [thread, by] of the comments that other people write
          MaxComments,  \* bound: comments
          MaxFaults,    \* bound: calls that fail, restarts
          MaxAsks       \* bound: requests of the user

ReviewCommentsAssumption ==
  /\ {MaxComments, MaxFaults, MaxAsks} \subseteq Nat
  /\ Remarks \subseteq [thread : {"issue", "pr", "review"}, by : {"other", "bot"}]

VARIABLES said,       \* on GitHub: a sequence of [thread, by, at]
          rows, read, \* pr_comments: the comments, and those with a read_at
          unsent,     \* pr_comments: rows of comments of the user that GitHub did not take
          since,      \* commentSeenCache: a second, or 0
          self,       \* the login of the conductor: unasked, unknown, known
          poll,       \* [Polls -> how far the poll is, and what it has been given]
          post,       \* PostPRComment: the comment that GitHub has taken and no row has yet, or 0
          told,       \* history: [comment -> how often it was announced]
          between,    \* history: comments written between the two calls of a poll
          excused,    \* history: comments that a failed call has not given or not kept
          asks, faults

vars == <<said, rows, read, unsent, since, self, poll, post, told, between, excused, asks, faults>>

Ids  == 1..MaxComments

\* The loop polls again and again; a second poll is made once, soon after the start.
Polls == {"loop", "early"}

Idle == [pc |-> "idle", from |-> 0, since |-> 0, given |-> {}, todo |-> {}]

Fault == faults < MaxFaults /\ faults' = faults + 1
Ask   == asks < MaxAsks /\ asks' = asks + 1

-----------------------------------------------------------------------------
\* The poller.

\* The login is asked for once in the life of the process, by the first poll.
AskLogin ==
  /\ self = "unasked"
  /\ \/ self' = "known" /\ UNCHANGED faults
     \/ self' = "unknown" /\ Fault
  /\ UNCHANGED <<said, rows, read, unsent, since, poll, post, told, between, excused, asks>>

Given(thread, second) == {c \in DOMAIN said : said[c].thread = thread /\ said[c].at >= second}

\* A call that fails is logged, and the poll goes on with what it has.
Fetch(k, q, thread) ==
  LET cs == Given(thread, q.since)
      Got(got) == poll' = [poll EXCEPT ![k] = [q EXCEPT !.given = @ \cup got, !.todo = @ \cup got]]
  IN /\ \/ Got(cs) /\ UNCHANGED <<excused, faults>>
        \/ Got({}) /\ excused' = excused \cup cs /\ Fault
     /\ UNCHANGED <<said, rows, read, unsent, since, self, post, told, between, asks>>

\* A poll begins with the comments of the issue, whose number is not that of the PR.
FetchIssueComments(k) ==
  /\ poll[k].pc = "idle" /\ self # "unasked"
  /\ Fetch(k, [Idle EXCEPT !.pc = "rev", !.from = Len(said), !.since = since], "issue")

FetchPRReviewComments(k) ==
  poll[k].pc = "rev" /\ Fetch(k, [poll[k] EXCEPT !.pc = "save"], "review")

Silent(by) == by = "bot" \/ (by = "me" /\ self = "known")

Announced(c) == c \notin rows /\ ~Silent(said[c].by)

\* A row is inserted unless it is there, and announced when it was not; one that cannot be
\* inserted is passed over.
SaveComment(k) ==
  /\ poll[k].pc = "save" /\ poll[k].todo # {}
  /\ LET c == Min(poll[k].todo) IN
     /\ poll' = [poll EXCEPT ![k].todo = @ \ {c}]
     /\ \/ /\ rows' = rows \cup {c}
           /\ told' = IF Announced(c) THEN [told EXCEPT ![c] = @ + 1] ELSE told
           /\ UNCHANGED <<excused, faults>>
        \/ Fault /\ excused' = excused \cup {c} /\ UNCHANGED <<rows, told>>
  /\ UNCHANGED <<said, read, unsent, since, self, post, between, asks>>

\* Mutation: the same second is not asked for again.
NewestNext(cs) == Max({said[c].at : c \in cs}) + 1

Newest(cs) == Max({said[c].at : c \in cs})

\* What was given counts as seen, whether it has a row or not.
EndPoll(k) ==
  /\ poll[k].pc = "save" /\ poll[k].todo = {}
  /\ since' = IF poll[k].given = {} THEN since ELSE Newest(poll[k].given)
  /\ poll' = [poll EXCEPT ![k] = IF k = "loop" THEN Idle ELSE [Idle EXCEPT !.pc = "over"]]
  /\ UNCHANGED <<said, rows, read, unsent, self, post, told, between, excused, asks, faults>>

-----------------------------------------------------------------------------
\* The user, and other people.

Says(thread, by, second) ==
  /\ Len(said) < MaxComments
  /\ said' = Append(said, [thread |-> thread, by |-> by, at |-> second])
  /\ between' = IF \E k \in Polls : poll[k].pc = "rev" THEN between \cup {Len(said) + 1} ELSE between

\* A comment is written in the second of the last one, or in the next.
Seconds ==
  IF said = <<>> THEN {1} ELSE {said[Len(said)].at, said[Len(said)].at + 1}

Comment(r) ==
  /\ \E second \in Seconds : Says(r.thread, r.by, second)
  /\ UNCHANGED <<rows, read, unsent, since, self, poll, post, told, excused, asks, faults>>

\* PostPRComment: to the issue, and then into a row.  A call that fails, or whose answer
\* is lost, leaves a row of its own.
PostPRComment ==
  /\ Ask /\ post = 0
  /\ \/ /\ \E second \in Seconds : Says("issue", "me", second)
        /\ post' = Len(said) + 1 /\ UNCHANGED <<unsent, faults>>
     \/ Fault /\ unsent' = unsent + 1 /\ UNCHANGED <<said, between, post>>
     \/ /\ Fault /\ unsent' = unsent + 1
        /\ \E second \in Seconds : Says("issue", "me", second)
        /\ UNCHANGED post
  /\ UNCHANGED <<rows, read, since, self, poll, told, excused>>

RecordPost ==
  /\ post # 0 /\ post' = 0 /\ rows' = rows \cup {post}
  /\ UNCHANGED <<said, read, unsent, since, self, poll, told, between, excused, asks, faults>>

\* A review comment is kept under the number of the PR, so the card of the issue does not
\* list it.
OfCard(c)    == said[c].thread # "review"
UnreadOfCard == {c \in rows \ read : OfCard(c)}

AcknowledgeComment(c) ==
  /\ Ask /\ c \in UnreadOfCard /\ read' = read \cup {c}
  /\ UNCHANGED <<said, rows, unsent, since, self, poll, post, told, between, excused, faults>>

\* The comments are marked as read, whether ContinueWork then takes the request or not.
RequestFixForComments(cs) ==
  /\ Ask /\ cs # {} /\ cs \subseteq UnreadOfCard /\ read' = read \cup cs
  /\ UNCHANGED <<said, rows, unsent, since, self, poll, post, told, between, excused, faults>>

\* Polls and caches are gone; the next poll asks for all comments.
Restart ==
  /\ Fault
  /\ since' = 0 /\ self' = "unasked" /\ poll' = [k \in Polls |-> Idle] /\ post' = 0
  /\ excused' = {} /\ between' = {}
  /\ UNCHANGED <<said, rows, read, unsent, told, asks>>
-----------------------------------------------------------------------------
Init ==
  /\ said = <<>> /\ rows = {} /\ read = {} /\ unsent = 0 /\ since = 0 /\ self = "unasked"
  /\ poll = [k \in Polls |-> Idle] /\ post = 0
  /\ told = [c \in Ids |-> 0] /\ between = {} /\ excused = {} /\ asks = 0 /\ faults = 0

PollStep(k) == \/ FetchIssueComments(k) \/ FetchPRReviewComments(k)
               \/ SaveComment(k) \/ EndPoll(k)

Next ==
  \/ AskLogin \/ \E k \in Polls : PollStep(k)
  \/ \E r \in Remarks : Comment(r)
  \/ PostPRComment \/ RecordPost \/ Restart
  \/ \E c \in rows : AcknowledgeComment(c)
  \/ \E cs \in SUBSET rows : RequestFixForComments(cs)

Spec == Init /\ [][Next]_vars
-----------------------------------------------------------------------------
\* Type invariant.
TypeOK ==
  /\ said \in Seq([thread : {"issue", "pr", "review"}, by : {"me", "other", "bot"}, at : Nat])
  /\ read \subseteq rows /\ rows \subseteq DOMAIN said /\ {unsent, since, asks, faults} \subseteq Nat
  /\ self \in {"unasked", "unknown", "known"} /\ post \in {0} \cup DOMAIN said
  /\ \A k \in Polls : /\ poll[k].pc \in {"idle", "rev", "save", "over"}
                      /\ poll[k].todo \subseteq poll[k].given /\ poll[k].given \subseteq DOMAIN said
  /\ told \in [Ids -> Nat] /\ between \cup excused \subseteq DOMAIN said

\* A comment of the issue or of the review that was there when a poll began has a row when
\* the poll ends, through polls that overlap, seconds that several comments share, and the
\* cache of what was seen; and no comment is announced twice, however often it is given
\* (probeComments, UpsertPRComment).  What a failed call did not give may be passed over for
\* good, and so may a comment written between the two calls of a poll.
NoticedOnce ==
  /\ \A k \in Polls : (poll[k].pc = "save" /\ poll[k].todo = {}) =>
       \A c \in 1..poll[k].from :
         said[c].thread # "pr" => c \in rows \cup between \cup excused
  /\ \A c \in Ids : told[c] <= 1

\* poll.go:95-97: what the cache holds back is not new: every comment gets its row.
NoneMissed ==
  \A k \in Polls : (poll[k].pc = "save" /\ poll[k].todo = {}) =>
    \A c \in 1..poll[k].from : said[c].thread # "pr" => c \in rows \cup excused

\* poll.go:780: the conversation of a PR in REVIEW is fetched.
ConversationFetched ==
  \A k \in Polls : (poll[k].pc = "save" /\ poll[k].todo = {}) =>
    \A c \in 1..poll[k].from : said[c].thread = "pr" => c \in rows \cup between \cup excused

\* types.go:249-253: comments on the PR are counted as unread, those of its review too.
ReviewCounted == \A c \in rows \ read : said[c].thread = "review" => c \in UnreadOfCard

\* client.go:390-391: the login keeps the conductor's own comments out of the unread badge.
OwnNotCounted == \A c \in UnreadOfCard : said[c].by # "me"

\* types.go:252-254: comments of known bots do not count, by default.
BotsNotCounted == \A c \in UnreadOfCard : said[c].by # "bot"

\* app.go:5425: the mark of a comment that was not taken is cleared on the next success.
UnsentCleared == [][rows' # rows /\ post # 0 /\ post' = 0 => unsent' = 0]_vars
===============================================================================
