------------------------- MODULE LiveSessionProofs -------------------------
(***************************************************************************)
(* Proofs about the worker's session for every set of conversations, every *)
(* context size, chunk size and store schedule, and every failure: that a  *)
(* late error continues, and that the evidence a request is answered from  *)
(* is good: a binding whose length fits the session describes it, a file   *)
(* restores what its key says, and an answer follows its own transcript,   *)
(* unless a failed request left a binding on another session; and that     *)
(* reasoning is kept and the store schedule is not ahead.                  *)
(***************************************************************************)
EXTENDS LiveSession, CountingLemmas, SequenceTheorems, TLAPS

Kinds == {"visible", "hidden", "sampled", "partial"}
Message == [of: Conv \cup {None}, at: Nat, kind: Kinds]
Texts == Seq(Message)

CallIds == {None} \cup (Conv \X Nat)

\* A request was parsed from a text that fits the context.
Requests == [conv: Conv, n: Nat, text: {t \in Texts : Len(t) > 0 /\ Len(t) < Ctx},
             ids: CallIds, live: BOOLEAN]

FilesOK(files) == \A f \in files : f.key \in Texts /\ f.tokens \in Texts

BindingsOK == /\ responses.text \in Texts
              /\ anthropic.text \in Texts
              /\ thinking.text \in Texts

ClientsOK == /\ hist \in [Conv -> Nat]
             /\ pending \in [Conv -> CallIds]
             /\ queue \in Seq(Requests)

JobOK == pc # "idle" => job \in Requests

PromptOK == /\ eff \in Texts
            /\ pc \in {"sync", "rebuild"} => goal \in 1..Len(eff)

IInv == /\ tokens \in Texts
        /\ FilesOK(disk) /\ BindingsOK /\ ClientsOK /\ JobOK /\ PromptOK
        /\ LateContextErrorIsLive
-----------------------------------------------------------------------------
(* Texts.                                                                  *)

LEMMA TokenType ==
  ASSUME NEW c \in Conv, NEW n \in Nat, NEW k \in Kinds
  PROVE  Token(c, n, k) \in Message
BY DEF Token, Message

LEMMA TranscriptType ==
  ASSUME NEW c \in Conv, NEW n \in Nat
  PROVE  Transcript(c, n) \in Texts /\ Len(Transcript(c, n)) = n
<1>1. \A i \in 1..n : Token(c, i, "visible") \in Message
  BY TokenType DEF Kinds
<1> QED BY <1>1 DEF Transcript, Texts

LEMMA CutType ==
  ASSUME NEW s \in Texts, NEW m \in Nat \ {0}, NEW n \in Int, n <= Len(s)
  PROVE  SubSeq(s, m, n) \in Texts
<1>1. \A i \in m..n : s[i] \in Message
  BY DEF Texts
<1> QED BY <1>1, SubSeqProperties DEF Texts

LEMMA DropType ==
  ASSUME NEW s \in Texts, NEW n \in Nat
  PROVE  Drop(s, n) \in Texts
<1>1. n + 1 \in Nat \ {0} /\ Len(s) \in Int
  BY DEF Texts
<1> QED BY <1>1, CutType DEF Drop

LEMMA PrefixCut ==
  ASSUME NEW s \in Texts, NEW n \in 1..Len(s)
  PROVE  /\ SubSeq(s, 1, n) \in Texts
         /\ Len(SubSeq(s, 1, n)) = n
         /\ IsPrefix(SubSeq(s, 1, n), s)
<1>1. n \in Nat \ {0} /\ n <= Len(s) /\ Len(s) \in Nat
  BY DEF Texts
<1>2. SubSeq(s, 1, n) \in Texts /\ Len(SubSeq(s, 1, n)) = n
  BY <1>1 DEF Texts
<1>3. SubSeq(SubSeq(s, 1, n), 1, n) = SubSeq(s, 1, n)
  BY <1>1, <1>2 DEF Texts
<1> QED BY <1>1, <1>2, <1>3 DEF IsPrefix

LEMMA PrefixConcat ==
  ASSUME NEW s \in Texts, NEW t \in Texts
  PROVE  /\ s \o t \in Texts /\ Len(s \o t) = Len(s) + Len(t)
         /\ IsPrefix(s, s \o t)
<1>1. s \o t \in Texts /\ Len(s \o t) = Len(s) + Len(t) /\ Len(s) \in Nat /\ Len(t) \in Nat
  BY DEF Texts
<1>2. SubSeq(s, 1, Len(s)) = SubSeq(s \o t, 1, Len(s))
  BY <1>1 DEF Texts
<1> QED BY <1>1, <1>2 DEF IsPrefix

LEMMA PrefixAppend ==
  ASSUME NEW s \in Texts, NEW x \in Message
  PROVE  /\ Append(s, x) \in Texts /\ Len(Append(s, x)) = Len(s) + 1
         /\ IsPrefix(s, Append(s, x))
<1>1. Append(s, x) \in Texts /\ Len(Append(s, x)) = Len(s) + 1 /\ Len(s) \in Nat
  BY DEF Texts
<1>2. SubSeq(s, 1, Len(s)) = SubSeq(Append(s, x), 1, Len(s))
  BY <1>1 DEF Texts
<1> QED BY <1>1, <1>2 DEF IsPrefix
-----------------------------------------------------------------------------
(* Files and bindings.                                                     *)

LEMMA StoredOK ==
  ASSUME NEW before, NEW after, NEW key \in Texts, NEW s \in Texts,
         FilesOK(before), Stored(before, after, key, s)
  PROVE  FilesOK(after)
<1>1. after \subseteq before \cup {File(key, s)}
  BY DEF Stored
<1>2. File(key, s).key = key /\ File(key, s).tokens = s
  BY DEF File
<1> QED BY <1>1, <1>2 DEF FilesOK

LEMMA ContinuedOK ==
  ASSUME NEW s \in Texts, NEW ok, FilesOK(disk), Continued(s, ok) \/ StoredAndNoted(s)
  PROVE  FilesOK(disk')
BY StoredOK DEF Continued, StoredAndNoted, diskVars

LEMMA StoreCurrentOK ==
  ASSUME IInv, StoreCurrent(disk, disk')
  PROVE  FilesOK(disk')
<1>1. \A key \in Texts : Stored(disk, disk', key, tokens) => FilesOK(disk')
  BY StoredOK DEF IInv
<1> QED BY <1>1 DEF StoreCurrent, IInv, BindingsOK

LEMMA NothingBound == NoBinding.text \in Texts
BY EmptySeq DEF NoBinding, Texts

LEMMA BindOK ==
  ASSUME IInv, pc # "idle", Bind
  PROVE  BindingsOK'
<1>1. job.text \in Texts /\ job.conv \in Conv /\ job.n + 1 \in Nat
  BY DEF IInv, JobOK, Requests
<1>2. VisibleAfter \in Texts
  BY <1>1, TokenType, PrefixAppend DEF VisibleAfter, Kinds
<1>3. \A id : Remember(VisibleAfter, id).text \in Texts /\ Remember(<<>>, id).text \in Texts
  BY <1>2, EmptySeq DEF Remember, Texts
<1> QED BY <1>3, NothingBound DEF Bind, IInv, BindingsOK

LEMMA TellClientOK ==
  ASSUME IInv, pc # "idle", TellClient, queue' = queue
  PROVE  ClientsOK'
<1>1. job.conv \in Conv /\ job.n + 1 \in Nat
  BY DEF IInv, JobOK, Requests
<1>2. CallId \in CallIds
  BY <1>1 DEF CallId, CallIds
<1> QED BY <1>1, <1>2 DEF TellClient, IInv, ClientsOK
-----------------------------------------------------------------------------
(* What a live session offers to a request.                                *)

Offers(p) == /\ p \in Texts
             /\ Len(p) < Ctx \/ IsPrefix(tokens, p)
             /\ pos > 0 => Len(p) > 0

LEMMA CandidatesOffer ==
  ASSUME IInv, pc = "lookup", NEW i \in 1..7, i # 4
  PROVE  Offers(Candidates[i].prompt)
<1>1. /\ tokens \in Texts /\ pos \in Nat
      /\ job.text \in Texts /\ Len(job.text) > 0 /\ Len(job.text) < Ctx
  BY DEF IInv, JobOK, Requests, pos, Texts
<1>2. Len(job.text) \in Nat /\ Len(responses.text) \in Nat /\ Len(thinking.text) \in Nat
  BY <1>1 DEF IInv, BindingsOK, Texts
<1>3. \A n \in Nat : Offers(tokens \o Drop(job.text, n))
  <2> TAKE n \in Nat
  <2>1. Drop(job.text, n) \in Texts
    BY <1>1, DropType
  <2>2. Len(Drop(job.text, n)) \in Nat
    BY <2>1 DEF Texts
  <2> QED BY <1>1, <2>1, <2>2, PrefixConcat DEF Offers, pos
<1>4. Offers(Append(tokens, Last(job.text)))
  <2>1. Last(job.text) \in Message
    BY <1>1, <1>2 DEF Last, Texts
  <2> QED BY <1>1, <2>1, PrefixAppend DEF Offers, pos
<1>5. Offers(job.text)
  BY <1>1 DEF Offers
<1>6. Candidates[i].prompt \in
        {tokens \o Drop(job.text, Len(responses.text)), Append(tokens, Last(job.text)),
         job.text, tokens \o Drop(job.text, Len(thinking.text)),
         tokens \o Drop(job.text, pos)}
  <2>1. i = 1 => Candidates[i].prompt = tokens \o Drop(job.text, Len(responses.text))
    BY DEF Candidates
  <2>2. i \in {2, 3} => Candidates[i].prompt = Append(tokens, Last(job.text))
    BY DEF Candidates
  <2>3. i = 5 => Candidates[i].prompt = job.text
    BY DEF Candidates
  <2>4. i = 6 => Candidates[i].prompt = tokens \o Drop(job.text, Len(thinking.text))
    BY DEF Candidates
  <2>5. i = 7 => Candidates[i].prompt = tokens \o Drop(job.text, pos)
    BY DEF Candidates
  <2>6. i = 1 \/ i = 2 \/ i = 3 \/ i = 5 \/ i = 6 \/ i = 7
    OBVIOUS
  <2> HIDE DEF Candidates
  <2> QED BY <2>1, <2>2, <2>3, <2>4, <2>5, <2>6, Zenon
<1> QED BY <1>1, <1>2, <1>3, <1>4, <1>5, <1>6

LEMMA Least == \A S \in SUBSET (1..7) : S # {} => \E x \in S : \A y \in S : x <= y
<1> SUFFICES ASSUME NEW S \in SUBSET (1..7), S # {}
             PROVE  \E x \in S : \A y \in S : x <= y
  OBVIOUS
<1>1. CASE 1 \in S
  BY <1>1
<1>2. CASE 2 \in S /\ 1 \notin S
  BY <1>2
<1>3. CASE 3 \in S /\ 1 \notin S /\ 2 \notin S
  BY <1>3
<1>4. CASE S \cap (1..3) = {} /\ 4 \in S
  BY <1>4
<1>5. CASE S \cap (1..4) = {} /\ 5 \in S
  BY <1>5
<1>6. CASE S \cap (1..5) = {} /\ 6 \in S
  BY <1>6
<1>7. CASE S \cap (1..6) = {}
  <2>1. \A y \in S : y \in 1..7 /\ y \notin 1..6
    BY <1>7
  <2>2. \A y \in S : y = 7
    BY <2>1
  <2>3. PICK x \in S : TRUE
    OBVIOUS
  <2>4. \A y \in S : x <= y
    BY <2>2
  <2> QED BY <2>3, <2>4
<1> QED BY <1>1, <1>2, <1>3, <1>4, <1>5, <1>6, <1>7

LEMMA WinnerOffers ==
  ASSUME IInv, pc = "lookup", Winner.source \notin {"refused", "none"}
  PROVE  pos > 0 /\ Offers(Winner.prompt)
<1> DEFINE ok == {i \in DOMAIN Candidates :
                    Candidates[i].ok /\ (pos > 0 \/ Candidates[i].source = "refused")}
<1>1. DOMAIN Candidates = 1..7
  BY DEF Candidates
<1>2. ok # {}
  BY DEF Winner
<1>3. Winner = Candidates[Min(ok)]
  BY <1>2 DEF Winner
<1>4. Min(ok) \in ok
  <2>1. ok \subseteq 1..7
    BY <1>1
  <2>2. \E x \in ok : \A y \in ok : x <= y
    <3> HIDE DEF ok
    <3> QED BY <1>2, <2>1, Least
  <2> HIDE DEF ok
  <2> QED BY <2>2 DEF Min
<1>5. Candidates[4].source = "refused"
  BY DEF Candidates
<1>6. Min(ok) # 4
  BY <1>3, <1>5
<1> QED BY <1>1, <1>3, <1>4, <1>6, CandidatesOffer
-----------------------------------------------------------------------------
(* The invariant holds at the start and every action keeps it.              *)

LEMMA IInvInit == Init => IInv
<1> SUFFICES ASSUME Init PROVE IInv
  OBVIOUS
<1>1. tokens \in Texts /\ eff \in Texts /\ queue \in Seq(Requests)
  BY EmptySeq DEF Init, Texts
<1>2. BindingsOK
  BY NothingBound DEF Init, BindingsOK
<1>3. ClientsOK
  BY <1>1 DEF Init, ClientsOK, CallIds
<1> QED BY <1>1, <1>2, <1>3
       DEF Init, IInv, FilesOK, JobOK, PromptOK, LateContextErrorIsLive

\* A client or a parser thread: the worker's state is not theirs.
LEMMA SubmitOK ==
  ASSUME IInv, NEW c \in Conv, NEW text \in Texts, Len(text) > 0, NEW live \in BOOLEAN,
         Submit(c, Request(c, text, live)), UNCHANGED <<hist, pending>>
  PROVE  ClientsOK'
<1>1. Len(text) < Ctx => Request(c, text, live) \in Requests
  BY DEF Request, Requests, IInv, ClientsOK
<1>2. queue' = queue \/ (Len(text) < Ctx /\ queue' = Append(queue, Request(c, text, live)))
  <2>1. Len(Request(c, text, live).text) = Len(text) /\ Len(text) \in Nat /\ Ctx \in Nat
    BY LiveSessionAssumption DEF Request, Texts
  <2> QED BY <2>1 DEF Submit
<1>3. queue' \in Seq(Requests)
  <2> DEFINE request == Request(c, text, live)
  <2>1. queue \in Seq(Requests)
    BY DEF IInv, ClientsOK
  <2> HIDE DEF request
  <2> QED BY <1>1, <1>2, <2>1
<1> QED BY <1>3 DEF IInv, ClientsOK

LEMMA WorkerUntouched ==
  ASSUME IInv, ClientsOK', UNCHANGED <<sessionVars, bindings, diskVars, jobVars>>
  PROVE  IInv'
BY DEF IInv, FilesOK, BindingsOK, JobOK, PromptOK, LateContextErrorIsLive, pos,
       sessionVars, bindings, diskVars, jobVars, syncVars

LEMMA ClientStep ==
  ASSUME IInv, NEW c \in Conv, SendReplay(c) \/ SendToolOutput(c)
  PROVE  IInv'
<1>1. hist[c] + 1 \in Nat \ {0}
  BY DEF IInv, ClientsOK
<1>2. CASE SendReplay(c)
  <2>1. Transcript(c, hist[c] + 1) \in Texts /\ Len(Transcript(c, hist[c] + 1)) > 0
    BY <1>1, TranscriptType
  <2>2. ClientsOK'
    BY <1>2, <2>1, SubmitOK DEF SendReplay
  <2> QED BY <1>2, <2>2, WorkerUntouched DEF SendReplay
<1>3. CASE SendToolOutput(c)
  <2> DEFINE text == <<Token(c, hist[c] + 1, "visible")>>
  <2>1. Token(c, hist[c] + 1, "visible") \in Message
    BY <1>1, TokenType DEF Kinds
  <2>2. text \in Texts /\ Len(text) > 0
    BY <2>1 DEF Texts
  <2>3. queue' = queue \/ Submit(c, Request(c, text, TRUE))
    BY <1>3 DEF SendToolOutput
  <2>4. ClientsOK'
    <3> HIDE DEF text
    <3>1. CASE queue' = queue
      BY <1>3, <3>1 DEF SendToolOutput, IInv, ClientsOK
    <3>2. CASE Submit(c, Request(c, text, TRUE))
      BY <1>3, <2>2, <3>2, SubmitOK DEF SendToolOutput
    <3> QED BY <2>3, <3>1, <3>2
  <2> QED BY <1>3, <2>4, WorkerUntouched DEF SendToolOutput
<1> QED BY <1>2, <1>3

LEMMA BeginStep == ASSUME IInv, Begin PROVE IInv'
<1>1. Head(queue) \in Requests /\ Tail(queue) \in Seq(Requests)
  BY HeadTailProperties DEF Begin, IInv, ClientsOK
<1> QED BY <1>1 DEF Begin, IInv, FilesOK, BindingsOK, ClientsOK, JobOK, PromptOK,
                    LateContextErrorIsLive, sessionVars, bindings, diskVars, syncVars

\* The end of a job leaves nothing to say about it.
LEMMA ReturnStep ==
  ASSUME Return, tokens' \in Texts, FilesOK(disk'), BindingsOK', ClientsOK'
  PROVE  IInv'
<1>1. eff' \in Texts
  BY EmptySeq DEF Return, Texts
<1> QED BY <1>1 DEF Return, IInv, FilesOK, JobOK, PromptOK, LateContextErrorIsLive

LEMMA SameBindings == ASSUME IInv, UNCHANGED bindings PROVE BindingsOK'
BY DEF IInv, BindingsOK, bindings

LEMMA SameClients == ASSUME IInv, UNCHANGED <<hist, pending, queue>> PROVE ClientsOK'
BY DEF IInv, ClientsOK

\* The session and the prompt of a job go on together.
LEMMA JobStep ==
  ASSUME IInv, pc # "idle", job' = job, tokens' \in Texts, FilesOK(disk'), BindingsOK',
         UNCHANGED clientVars, eff' \in Texts,
         pc' \in {"sync", "rebuild"} => goal' \in 1..Len(eff'),
         pc' = "sync" => Len(eff') < Ctx \/ (Len(tokens') > 0 /\ IsPrefix(tokens', eff'))
  PROVE  IInv'
<1>1. job \in Requests
  BY DEF IInv, JobOK
<1>2. Len(job.text) < Ctx /\ Len(eff') \in Nat /\ Ctx \in Nat
  BY <1>1, LiveSessionAssumption DEF Requests, Texts
<1>3. LateContextErrorIsLive'
  BY <1>2 DEF LateContextErrorIsLive, pos
<1>4. ClientsOK'
  BY SameClients DEF clientVars
<1> QED BY <1>1, <1>3, <1>4 DEF IInv, FilesOK, JobOK, PromptOK
-----------------------------------------------------------------------------
(* Finding what a request continues from.                                  *)

LEMMA LiveHitStep == ASSUME IInv, LiveHit PROVE IInv'
<1>1. pc = "lookup" /\ Winner.source \notin {"refused", "none"}
  BY DEF LiveHit
<1>2. pos > 0 /\ Offers(Winner.prompt)
  BY <1>1, WinnerOffers
<1>3. eff' = Winner.prompt /\ goal' = Len(Winner.prompt)
  BY DEF LiveHit
<1>4. goal' \in 1..Len(eff')
  BY <1>2, <1>3 DEF Offers, Texts
<1>5. FilesOK(disk') /\ BindingsOK'
  BY SameBindings DEF LiveHit, IInv, FilesOK, diskVars
<1> QED BY <1>1, <1>2, <1>3, <1>4, <1>5, JobStep
       DEF LiveHit, Offers, IInv, sessionVars, pos

LEMMA LiveMissStep == ASSUME IInv, LiveMiss PROVE IInv'
<1>1. FilesOK(disk') /\ BindingsOK'
  BY StoreCurrentOK, SameBindings DEF LiveMiss
<1> QED BY <1>1, JobStep DEF LiveMiss, IInv, PromptOK, sessionVars, syncVars

LEMMA LoadOK ==
  ASSUME IInv, NEW text \in Texts, NEW f \in Best(Hits(text)), Load(f, text)
  PROVE  /\ tokens' \in Texts /\ eff' \in Texts /\ FilesOK(disk')
         /\ goal' \in 1..Len(eff')
         /\ Len(tokens') > 0 /\ IsPrefix(tokens', eff')
<1>1. f \in disk /\ Len(f.tokens) >= MinTokens
  BY DEF Best, Hits
<1>2. f.tokens \in Texts /\ Len(f.key) \in Nat /\ Len(f.tokens) \in Nat
  BY <1>1 DEF IInv, FilesOK, Texts
<1>3. MinTokens > 0 /\ MinTokens \in Nat
  BY LiveSessionAssumption
<1>4. Drop(text, Len(f.key)) \in Texts
  BY <1>2, DropType
<1>5. Len(Drop(text, Len(f.key))) \in Nat
  BY <1>4 DEF Texts
<1>6. disk' \subseteq disk
  BY DEF Load
<1>7. FilesOK(disk')
  BY <1>6 DEF IInv, FilesOK
<1> DEFINE rest == Drop(text, Len(f.key))
<1>8. /\ f.tokens \o rest \in Texts /\ IsPrefix(f.tokens, f.tokens \o rest)
      /\ Len(f.tokens \o rest) = Len(f.tokens) + Len(rest)
  <2> HIDE DEF rest
  <2> QED BY <1>2, <1>4, PrefixConcat DEF rest
<1>9. Len(f.tokens) > 0 /\ Len(f.tokens) + Len(rest) \in Nat \ {0}
  <2>1. Len(rest) \in Nat
    BY <1>5
  <2>2. Len(f.tokens) > 0
    <3> HIDE DEF rest
    <3> QED BY <1>1, <1>2, <1>3
  <2> HIDE DEF rest
  <2> QED BY <1>2, <2>1, <2>2
<1>10. tokens' = f.tokens /\ eff' = f.tokens \o rest /\ goal' = Len(eff')
  BY DEF Load
<1> QED
  <2> HIDE DEF rest
  <2> QED BY <1>2, <1>7, <1>8, <1>9, <1>10

LEMMA LoadBreaksOK ==
  ASSUME IInv, NEW f, LoadBreaks(f)
  PROVE  tokens' \in Texts /\ FilesOK(disk')
<1>1. tokens' \in Texts
  BY EmptySeq DEF LoadBreaks, IInv, Texts, sessionVars
<1>2. disk' \subseteq disk
  BY DEF LoadBreaks
<1> QED BY <1>1, <1>2 DEF IInv, FilesOK

LEMMA DiskHitStep == ASSUME IInv, DiskHit PROVE IInv'
<1>1. job.text \in Texts
  BY DEF DiskHit, IInv, JobOK, Requests
<1>2. PICK f \in Best(Hits(job.text)) : Load(f, job.text)
  BY DEF DiskHit
<1> QED BY <1>1, <1>2, LoadOK, JobStep, SameBindings DEF DiskHit

LEMMA StartColdStep ==
  ASSUME IInv, pc = "load", StartCold, tokens' \in Texts, FilesOK(disk')
  PROVE  IInv'
<1>1. job.text \in Texts /\ Len(job.text) > 0 /\ Len(job.text) < Ctx
  BY DEF IInv, JobOK, Requests
<1>2. Len(job.text) \in Nat /\ MinTokens \in Nat \ {0}
  BY <1>1, LiveSessionAssumption DEF Texts
<1>3. ColdLen(job.text) >= MinTokens => ColdLen(job.text) \in 1..Len(job.text)
  BY <1>2 DEF ColdLen
<1>4. goal' \in 1..Len(job.text)
  BY <1>1, <1>2, <1>3 DEF StartCold
<1> QED BY <1>1, <1>4, JobStep, SameBindings DEF StartCold

LEMMA DiskLoadFailsStep == ASSUME IInv, DiskLoadFails PROVE IInv'
BY LoadBreaksOK, StartColdStep DEF DiskLoadFails

LEMMA DiskMissStep == ASSUME IInv, DiskMiss PROVE IInv'
BY StartColdStep DEF DiskMiss, sessionVars, diskVars, IInv
-----------------------------------------------------------------------------
(* Synchronizing the session.                                              *)

LEMMA PrefillChunkStep == ASSUME IInv, PrefillChunk PROVE IInv'
<1>1. eff \in Texts /\ goal \in 1..Len(eff) /\ Len(eff) \in Nat /\ pos \in Nat
  BY DEF PrefillChunk, IInv, PromptOK, Texts, pos
<1>2. NextChunk \in Nat \ {0}
  <2>1. Chunk \in Nat \ {0}
    BY LiveSessionAssumption
  <2>2. pos \div Chunk \in Nat
    BY <1>1, <2>1
  <2>3. \A n \in Nat : (n + 1) * Chunk \in Nat \ {0}
    BY <2>1
  <2> QED BY <2>1, <2>2, <2>3 DEF NextChunk
<1>3. NextChunk \in 1..Len(eff)
  BY <1>1, <1>2 DEF PrefillChunk
<1>4. tokens' \in Texts /\ Len(tokens') > 0 /\ IsPrefix(tokens', eff)
  BY <1>1, <1>3, PrefixCut DEF PrefillChunk
<1>5. FilesOK(disk')
  BY <1>4, ContinuedOK DEF PrefillChunk, IInv, diskVars, FilesOK
<1>6. BindingsOK' /\ UNCHANGED jobVars /\ pc \in {"sync", "rebuild"}
  BY SameBindings DEF PrefillChunk
<1> QED BY <1>1, <1>4, <1>5, <1>6, JobStep DEF PrefillChunk, jobVars, syncVars

LEMMA SyncFailsOK ==
  ASSUME IInv, pc \in {"sync", "rebuild"}, SyncFails
  PROVE  tokens' \in Texts
<1>1. eff \in Texts /\ goal \in 1..Len(eff) /\ Len(eff) \in Nat /\ pos \in Nat
  BY DEF IInv, PromptOK, Texts, pos
<1>2. \A k \in pos..(goal - 1) : SubSeq(eff, 1, k) \in Texts
  BY <1>1, CutType
<1> QED BY <1>2 DEF SyncFails, IInv, sessionVars

LEMMA SyncDoneOK ==
  ASSUME IInv, pc \in {"sync", "rebuild"}, SyncDone
  PROVE  tokens' \in Texts /\ Len(tokens') > 0 /\ IsPrefix(tokens', eff) /\ Target \in Texts
<1>1. eff \in Texts /\ goal \in 1..Len(eff) /\ Len(eff) \in Nat
  BY DEF IInv, PromptOK, Texts
<1> QED BY <1>1, PrefixCut DEF SyncDone, Target

LEMMA PrefillFailsStep == ASSUME IInv, PrefillFails PROVE IInv'
<1>1. tokens' \in Texts
  BY SyncFailsOK DEF PrefillFails
<1>2. FilesOK(disk')
  BY DEF PrefillFails, IInv, diskVars, FilesOK
<1> QED BY <1>1, <1>2, SameBindings, SameClients, ReturnStep DEF PrefillFails

LEMMA ColdPrefixDoneStep == ASSUME IInv, ColdPrefixDone PROVE IInv'
<1>1. tokens' \in Texts /\ Len(tokens') > 0 /\ IsPrefix(tokens', eff) /\ Target \in Texts
  BY SyncDoneOK DEF ColdPrefixDone
<1>2. FilesOK(disk')
  BY <1>1, ContinuedOK DEF ColdPrefixDone, IInv
<1>3. eff' \in Texts /\ goal' \in 1..Len(eff')
  BY DEF ColdPrefixDone, IInv, PromptOK, Texts
<1> QED BY <1>1, <1>2, <1>3, JobStep, SameBindings DEF ColdPrefixDone

LEMMA PrefillDoneStep == ASSUME IInv, PrefillDone PROVE IInv'
<1>1. tokens' \in Texts /\ eff \in Texts
  BY SyncDoneOK DEF PrefillDone, IInv, PromptOK
<1>2. FilesOK(disk')
  BY <1>1, ContinuedOK DEF PrefillDone, IInv
<1>3. BindingsOK'
  BY NothingBound DEF PrefillDone, IInv, BindingsOK
<1> QED BY <1>1, <1>2, <1>3, JobStep DEF PrefillDone, syncVars
-----------------------------------------------------------------------------
(* Decoding and what follows.                                              *)

LEMMA SampledType ==
  ASSUME IInv, pc # "idle", NEW k \in Kinds
  PROVE  Append(tokens, Token(job.conv, job.n + 1, k)) \in Texts
<1>1. job.conv \in Conv /\ job.n + 1 \in Nat
  BY DEF IInv, JobOK, Requests
<1> QED BY <1>1, TokenType, PrefixAppend DEF IInv

LEMMA DecodeReasoningStep == ASSUME IInv, DecodeReasoning PROVE IInv'
<1>1. tokens' \in Texts
  BY SampledType DEF DecodeReasoning, Kinds
<1>2. FilesOK(disk')
  BY ContinuedOK DEF DecodeReasoning, IInv
<1> QED BY <1>1, <1>2, JobStep, SameBindings
       DEF DecodeReasoning, jobVars, syncVars, IInv, PromptOK

LEMMA DecodeEndStep == ASSUME IInv, NEW why, DecodeEnd(why) PROVE IInv'
<1>1. \A k \in Kinds : Sample(k) => tokens' \in Texts
  BY SampledType DEF Sample, DecodeEnd
<1>2. ToolSpellings \subseteq Kinds /\ {"visible", "partial"} \subseteq Kinds
  BY DEF ToolSpellings, Kinds
<1>3. <<>> \in Texts /\ tokens \in Texts
  BY EmptySeq DEF IInv, Texts
<1>4. tokens' \in Texts
  BY <1>1, <1>2, <1>3 DEF DecodeEnd
<1>5. FilesOK(disk')
  BY ContinuedOK DEF DecodeEnd, IInv
<1> QED BY <1>4, <1>5, JobStep, SameBindings DEF DecodeEnd, syncVars, IInv, PromptOK

LEMMA GivenUpStep == ASSUME IInv, Refuse \/ ClientGone PROVE IInv'
<1>1. tokens' \in Texts /\ FilesOK(disk') /\ Return
  BY DEF Refuse, ClientGone, IInv, sessionVars, diskVars, FilesOK
<1> QED BY <1>1, SameBindings, SameClients, ReturnStep DEF Refuse, ClientGone

LEMMA FinishStep == ASSUME IInv, Finish PROVE IInv'
<1>1. tokens' \in Texts /\ FilesOK(disk')
  BY DEF Finish, IInv, diskVars, FilesOK
<1>2. BindingsOK' /\ ClientsOK'
  BY BindOK, TellClientOK DEF Finish
<1> QED BY <1>1, <1>2, ReturnStep DEF Finish

\* The canonical form of a turn: the request, its reasoning, the call.
LEMMA CanonicalType ==
  ASSUME IInv, pc = "finish", NEW k \in CanonicalLengths
  PROVE  /\ Canonical(k) \in Texts /\ Len(Canonical(k)) > 0
         /\ \E mid \in Texts : /\ \A i \in 1..Len(mid) : mid[i].kind = "hidden"
                             /\ Canonical(k) = job.text \o mid
                                   \o <<Token(job.conv, job.n + 1, "visible")>>
<1> DEFINE mid  == [i \in 1..k |-> Token(job.conv, job.n + 1, "hidden")]
           call == <<Token(job.conv, job.n + 1, "visible")>>
<1>1. /\ job.text \in Texts /\ Len(job.text) \in Nat
      /\ job.conv \in Conv /\ job.n + 1 \in Nat
  BY DEF IInv, JobOK, Requests, Texts
<1>2. k \in Nat
  BY LiveSessionAssumption DEF CanonicalLengths
<1>3. mid \in Texts /\ Len(mid) = k /\ \A i \in 1..Len(mid) : mid[i].kind = "hidden"
  <2>1. Token(job.conv, job.n + 1, "hidden") \in Message
        /\ Token(job.conv, job.n + 1, "hidden").kind = "hidden"
    BY <1>1, TokenType DEF Kinds, Token
  <2>2. mid \in Seq(Message) /\ Len(mid) = k
    BY <1>2, <2>1
  <2> QED BY <2>1, <2>2 DEF Texts
<1>4. call \in Texts /\ Len(call) = 1
  BY <1>1, TokenType DEF Kinds, Texts
<1>5. Canonical(k) = job.text \o mid \o call
  BY DEF Canonical
<1> HIDE DEF mid, call, Texts
<1>6. job.text \o mid \in Texts /\ Len(job.text \o mid) \in Nat
  BY <1>1, <1>3, PrefixConcat DEF Texts
<1>7. /\ job.text \o mid \o call \in Texts
      /\ Len(job.text \o mid \o call) = Len(job.text \o mid) + Len(call)
  BY <1>4, <1>6, PrefixConcat
<1>8. Canonical(k) \in Texts /\ Len(Canonical(k)) > 0
  BY <1>4, <1>5, <1>6, <1>7
<1>9. /\ \A i \in 1..Len(mid) : mid[i].kind = "hidden"
      /\ Canonical(k) = job.text \o mid \o <<Token(job.conv, job.n + 1, "visible")>>
  BY <1>3, <1>5 DEF call
<1>10. \E m \in Texts : /\ \A i \in 1..Len(m) : m[i].kind = "hidden"
                        /\ Canonical(k) = job.text \o m
                              \o <<Token(job.conv, job.n + 1, "visible")>>
  BY <1>3, <1>9, Zenon
<1> QED BY <1>8, <1>10

\* How a rebuild begins: from a file, or from nothing.
FromFile(c) == \E f \in Best(Hits(c)) : Load(f, c)
Anew(c) == /\ tokens' = <<>> /\ eff' = c /\ goal' = Len(c) /\ cached' = 0
           /\ UNCHANGED lastStore
           /\ disk' = disk \/ \E f : LoadBreaks(f)

LEMMA RebuildBegins ==
  ASSUME BeginRebuild
  PROVE  \E k \in CanonicalLengths :
            NeedsRebuild(k) /\ (FromFile(Canonical(k)) \/ Anew(Canonical(k)))
<1>1. PICK k \in CanonicalLengths :
        LET c == Canonical(k)
            anew == /\ tokens' = <<>> /\ valid' = FALSE
                    /\ eff' = c /\ goal' = Len(c) /\ cached' = 0
        IN /\ NeedsRebuild(k)
           /\ \/ \E f \in Best(Hits(c)) : Load(f, c)
              \/ \E f \in Best(Hits(c)) : LoadBreaks(f) /\ anew
              \/ Hits(c) = {} /\ anew /\ UNCHANGED diskVars
  BY DEF BeginRebuild
<1>2. \A f : LoadBreaks(f) => UNCHANGED lastStore
  BY DEF LoadBreaks
<1> QED BY <1>1, <1>2 DEF FromFile, Anew, diskVars

LEMMA BeginRebuildStep == ASSUME IInv, BeginRebuild PROVE IInv'
<1>1. pc = "finish" /\ pc' = "rebuild"
  BY DEF BeginRebuild
<1>2. PICK k \in CanonicalLengths :
        NeedsRebuild(k) /\ (FromFile(Canonical(k)) \/ Anew(Canonical(k)))
  BY RebuildBegins
<1> DEFINE c == Canonical(k)
<1>3. c \in Texts /\ Len(c) > 0 /\ Len(c) \in Nat
  BY <1>1, CanonicalType DEF Texts
<1>4. <<>> \in Texts
  BY EmptySeq DEF Texts
<1>5. FromFile(c) \/ Anew(c)
  BY <1>2
<1> HIDE DEF c
<1>6. tokens' \in Texts /\ eff' \in Texts /\ FilesOK(disk') /\ goal' \in 1..Len(eff')
  <2>1. CASE FromFile(c)
    BY <1>3, <2>1, LoadOK DEF FromFile
  <2>2. CASE Anew(c) /\ disk' = disk
    BY <1>3, <1>4, <2>2 DEF IInv, FilesOK, Anew
  <2>3. CASE Anew(c) /\ \E f : LoadBreaks(f)
    BY <1>3, <1>4, <2>3, LoadBreaksOK DEF Anew
  <2> QED BY <1>5, <2>1, <2>2, <2>3 DEF Anew
<1>7. BindingsOK'
  BY BindOK DEF BeginRebuild
<1> QED BY <1>6, <1>7, JobStep DEF BeginRebuild

LEMMA EndRebuildStep == ASSUME IInv, EndRebuild PROVE IInv'
<1>1. tokens' \in Texts
  BY SyncDoneOK, SyncFailsOK DEF EndRebuild
<1>2. FilesOK(disk') /\ BindingsOK' /\ ClientsOK'
  BY SameBindings, TellClientOK DEF EndRebuild, IInv, diskVars, FilesOK
<1> QED BY <1>1, <1>2, ReturnStep DEF EndRebuild

LEMMA RestartStep == ASSUME IInv, Restart PROVE IInv'
<1>1. tokens' \in Texts /\ queue' \in Seq(Requests)
  BY EmptySeq DEF Restart, Texts
<1>2. FilesOK(disk')
  BY StoreCurrentOK DEF Restart, IInv, FilesOK
<1>3. BindingsOK' /\ ClientsOK'
  BY <1>1, NothingBound DEF Restart, BindingsOK, ClientsOK, IInv
<1> QED BY <1>1, <1>2, <1>3, ReturnStep DEF Restart
-----------------------------------------------------------------------------
LEMMA IInvNext == IInv /\ [Next]_vars => IInv'
<1> SUFFICES ASSUME IInv, [Next]_vars PROVE IInv'
  OBVIOUS
<1>1. CASE \E c \in Conv : SendReplay(c) \/ SendToolOutput(c)
  BY <1>1, ClientStep
<1>2. CASE Begin \/ Refuse \/ LiveHit \/ LiveMiss \/ DiskHit \/ DiskLoadFails \/ DiskMiss
  BY <1>2, BeginStep, GivenUpStep, LiveHitStep, LiveMissStep, DiskHitStep,
     DiskLoadFailsStep, DiskMissStep
<1>3. CASE PrefillChunk \/ PrefillFails \/ ColdPrefixDone \/ PrefillDone
  BY <1>3, PrefillChunkStep, PrefillFailsStep, ColdPrefixDoneStep, PrefillDoneStep
<1>4. CASE \/ ClientGone \/ DecodeReasoning
           \/ \E why \in {"stop", "length", "tool_calls", "error"} : DecodeEnd(why)
  BY <1>4, GivenUpStep, DecodeReasoningStep, DecodeEndStep
<1>5. CASE Finish \/ BeginRebuild \/ EndRebuild \/ Restart
  BY <1>5, FinishStep, BeginRebuildStep, EndRebuildStep, RestartStep
<1>6. CASE UNCHANGED vars
  <2>1. ClientsOK'
    BY <1>6, SameClients DEF vars, clientVars
  <2> QED BY <1>6, <2>1, WorkerUntouched DEF vars
<1> QED BY <1>1, <1>2, <1>3, <1>4, <1>5, <1>6 DEF Next

\* A request that reaches the worker and no longer fits is one that continues
\* what the session holds, whatever failed, was stored, evicted or rebuilt before
\* (request_exceeds_context is asked once, of the text; generate_job).
THEOREM LateErrorsContinue == Spec => []LateContextErrorIsLive
<1>1. IInv => LateContextErrorIsLive
  BY DEF IInv
<1> QED BY <1>1, IInvInit, IInvNext, PTL DEF Spec

-----------------------------------------------------------------------------
(* What a client sees of a text that is put together.                      *)

LEMMA ShownType ==
  ASSUME NEW x \in Message
  PROVE  /\ Shown(x) \in Texts
         /\ x.kind = "hidden" => Shown(x) = <<>>
         /\ x.kind \notin {"hidden", "sampled"} => Shown(x) = <<x>>
<1>1. <<>> \in Texts
  BY EmptySeq DEF Texts
<1>2. [x EXCEPT !.kind = IF @ = "sampled" THEN "visible" ELSE @] \in Message
  BY DEF Message, Kinds
<1>3. x.kind \notin {"hidden", "sampled"} =>
        [x EXCEPT !.kind = IF @ = "sampled" THEN "visible" ELSE @] = x
  BY DEF Message
<1> QED BY <1>1, <1>2, <1>3 DEF Shown, Texts

\* The function Visible is read from: what is seen of each prefix.
Sees(s, f) == \A i \in 0..Len(s) : f[i] = IF i = 0 THEN <<>> ELSE f[i - 1] \o Shown(s[i])

LEMMA SomeSees ==
  ASSUME NEW s \in Texts
  PROVE  \E f : f = [i \in 0..Len(s) |-> IF i = 0 THEN <<>> ELSE f[i - 1] \o Shown(s[i])]
<1> DEFINE N == {n \in Nat : \E f : f = [i \in 0..n |-> IF i = 0 THEN <<>>
                                                       ELSE f[i - 1] \o Shown(s[i])]}
<1>1. 0 \in N
  <2> DEFINE f == [i \in 0..0 |-> <<>>]
  <2>1. f = [i \in 0..0 |-> <<>>]
    OBVIOUS
  <2> HIDE DEF f
  <2>2. \A i \in 0..0 : i = 0
    OBVIOUS
  <2>3. f = [i \in 0..0 |-> IF i = 0 THEN <<>> ELSE f[i - 1] \o Shown(s[i])]
    BY <2>1, <2>2
  <2> QED BY <2>3
<1>2. ASSUME NEW n \in Nat, n \in N PROVE n + 1 \in N
  <2>1. PICK f : f = [i \in 0..n |-> IF i = 0 THEN <<>> ELSE f[i - 1] \o Shown(s[i])]
    BY <1>2
  <2> DEFINE g == [i \in 0..(n + 1) |-> IF i = n + 1 THEN f[n] \o Shown(s[n + 1]) ELSE f[i]]
  <2>2. \A i \in 0..n : f[i] = IF i = 0 THEN <<>> ELSE f[i - 1] \o Shown(s[i])
    BY <2>1
  <2>3. \A i \in 0..n : g[i] = f[i]
    OBVIOUS
  <2>4. g[n + 1] = f[n] \o Shown(s[n + 1])
    <3>1. n + 1 \in 0..(n + 1)
      OBVIOUS
    <3> QED BY <3>1, Zenon
  <2>5. \A i \in 0..(n + 1) : g[i] = IF i = 0 THEN <<>> ELSE g[i - 1] \o Shown(s[i])
    <3> TAKE i \in 0..(n + 1)
    <3>1. CASE i = n + 1
      <4>1. n \in 0..n /\ i - 1 = n /\ i # 0
        BY <3>1
      <4>2. g[i - 1] = f[n]
        BY <2>3, <4>1
      <4> QED BY <2>4, <3>1, <4>1, <4>2
    <3>2. CASE i = 0
      BY <2>2, <2>3, <3>2
    <3>3. CASE i \in 1..n
      <4>1. i \in 0..n /\ i - 1 \in 0..n /\ i # 0
        BY <3>3
      <4> HIDE DEF g
      <4> QED BY <2>2, <2>3, <4>1
    <3> QED BY <3>1, <3>2, <3>3
  <2>6. g = [i \in 0..(n + 1) |-> g[i]]
    OBVIOUS
  <2>7. g = [i \in 0..(n + 1) |-> IF i = 0 THEN <<>> ELSE g[i - 1] \o Shown(s[i])]
    <3> HIDE DEF g
    <3> QED BY <2>5, <2>6
  <2>8. n + 1 \in Nat
    OBVIOUS
  <2> HIDE DEF g
  <2> QED BY <2>7, <2>8
<1>3. Nat \subseteq N
  <2> HIDE DEF N
  <2> QED BY <1>1, <1>2, EveryNumber
<1>4. Len(s) \in N
  <2>1. Len(s) \in Nat
    BY DEF Texts
  <2> HIDE DEF N
  <2> QED BY <1>3, <2>1
<1> QED BY <1>4

LEMMA VisibleIsSeen ==
  ASSUME NEW s \in Texts
  PROVE  \E f : Sees(s, f) /\ Visible(s) = f[Len(s)]
<1> DEFINE seen == CHOOSE f : f = [i \in 0..Len(s) |-> IF i = 0 THEN <<>>
                                                      ELSE f[i - 1] \o Shown(s[i])]
<1>1. seen = [i \in 0..Len(s) |-> IF i = 0 THEN <<>> ELSE seen[i - 1] \o Shown(s[i])]
  BY SomeSees
<1>2. Visible(s) = seen[Len(s)]
  BY DEF Visible
<1>3. Sees(s, seen)
  <2> HIDE DEF seen
  <2> QED BY <1>1 DEF Sees
<1> QED BY <1>2, <1>3

LEMMA VisibleEmpty == Visible(<<>>) = <<>>
<1>1. <<>> \in Texts /\ Len(<<>>) = 0
  BY EmptySeq DEF Texts
<1> QED BY <1>1, VisibleIsSeen DEF Sees

\* One message more shows what it shows by itself.
LEMMA VisibleAppend ==
  ASSUME NEW s \in Texts, NEW x \in Message
  PROVE  Visible(Append(s, x)) = Visible(s) \o Shown(x)
<1> DEFINE t == Append(s, x)
<1>1. /\ t \in Texts /\ Len(s) \in Nat /\ Len(t) = Len(s) + 1
      /\ t[Len(s) + 1] = x /\ \A i \in 1..Len(s) : t[i] = s[i]
  BY DEF Texts
<1>2. PICK f : Sees(s, f) /\ Visible(s) = f[Len(s)]
  BY VisibleIsSeen
<1>3. PICK g : Sees(t, g) /\ Visible(t) = g[Len(t)]
  BY <1>1, VisibleIsSeen
<1> DEFINE N == {n \in Nat : n <= Len(s) => g[n] = f[n]}
<1>4. 0 \in N
  BY <1>1, <1>2, <1>3 DEF Sees
<1>5. ASSUME NEW n \in Nat, n \in N PROVE n + 1 \in N
  <2> SUFFICES ASSUME n + 1 <= Len(s) PROVE g[n + 1] = f[n + 1]
    OBVIOUS
  <2>1. n + 1 \in 0..Len(s) /\ n + 1 \in 0..Len(t) /\ n + 1 # 0 /\ (n + 1) - 1 = n
        /\ n + 1 \in 1..Len(s)
    BY <1>1
  <2>2. g[n] = f[n]
    BY <1>1, <1>5
  <2>3. g[n + 1] = g[n] \o Shown(t[n + 1])
    BY <1>3, <2>1 DEF Sees
  <2>4. f[n + 1] = f[n] \o Shown(s[n + 1])
    BY <1>2, <2>1 DEF Sees
  <2> QED BY <1>1, <2>1, <2>2, <2>3, <2>4
<1>6. Nat \subseteq N
  <2> HIDE DEF N
  <2> QED BY <1>4, <1>5, EveryNumber
<1>7. g[Len(s)] = f[Len(s)]
  BY <1>1, <1>6
<1>8. g[Len(t)] = g[Len(s)] \o Shown(x)
  <2>1. Len(t) \in 0..Len(t) /\ Len(t) # 0 /\ Len(t) - 1 = Len(s)
    BY <1>1
  <2> HIDE DEF t
  <2> QED BY <1>1, <1>3, <2>1 DEF Sees
<1> QED BY <1>2, <1>3, <1>7, <1>8

LEMMA VisibleType == ASSUME NEW s \in Texts PROVE Visible(s) \in Texts
<1> DEFINE S == {t \in Texts : Visible(t) \in Texts}
<1>1. <<>> \in S
  BY VisibleEmpty, EmptySeq DEF Texts
<1>2. ASSUME NEW t \in Seq(Message), NEW x \in Message, t \in S PROVE Append(t, x) \in S
  <2>1. Append(t, x) \in Texts /\ Visible(Append(t, x)) = Visible(t) \o Shown(x)
    BY VisibleAppend DEF Texts
  <2> QED BY <1>2, <2>1, ShownType, PrefixConcat
<1>3. Seq(Message) \subseteq S
  <2> HIDE DEF S
  <2> QED BY <1>1, <1>2, EverySequence
<1> QED BY <1>3 DEF Texts

LEMMA AppendToConcat ==
  ASSUME NEW s \in Texts, NEW t \in Texts, NEW x \in Message
  PROVE  s \o Append(t, x) = Append(s \o t, x)
<1>1. /\ Append(t, x) = t \o <<x>> /\ Append(s \o t, x) = (s \o t) \o <<x>>
      /\ <<x>> \in Texts
  BY PrefixConcat, AppendIsConcat DEF Texts
<1> QED BY <1>1, ConcatAssociative DEF Texts

\* What a text shows is what its parts show.
LEMMA VisibleConcat ==
  ASSUME NEW s \in Texts, NEW t \in Texts
  PROVE  Visible(s \o t) = Visible(s) \o Visible(t)
<1> DEFINE S == {u \in Texts : Visible(s \o u) = Visible(s) \o Visible(u)}
<1>1. <<>> \in S
  <2>1. s \o <<>> = s /\ <<>> \in Texts
    BY ConcatEmptySeq, EmptySeq DEF Texts
  <2>2. Visible(s) \o <<>> = Visible(s)
    BY VisibleType, ConcatEmptySeq DEF Texts
  <2> QED BY <2>1, <2>2, VisibleEmpty
<1>2. ASSUME NEW u \in Seq(Message), NEW x \in Message, u \in S PROVE Append(u, x) \in S
  <2>1. u \in Texts /\ Append(u, x) \in Texts /\ s \o u \in Texts
    BY PrefixConcat DEF Texts
  <2>2. Visible(s \o Append(u, x)) = Visible(s \o u) \o Shown(x)
    BY <2>1, AppendToConcat, VisibleAppend
  <2>3. Visible(Append(u, x)) = Visible(u) \o Shown(x)
    BY <2>1, VisibleAppend
  <2>4. (Visible(s) \o Visible(u)) \o Shown(x) = Visible(s) \o (Visible(u) \o Shown(x))
    <3>1. /\ Visible(s) \in Seq(Message) /\ Visible(u) \in Seq(Message)
          /\ Shown(x) \in Seq(Message)
      BY <2>1, VisibleType, ShownType DEF Texts
    <3>2. \A a, b, c \in Seq(Message) : (a \o b) \o c = a \o (b \o c)
      BY ConcatAssociative
    <3> QED BY <3>1, <3>2, Zenon
  <2>5. Visible(s \o u) = Visible(s) \o Visible(u)
    BY <1>2
  <2>6. Visible(s \o Append(u, x)) = Visible(s) \o Visible(Append(u, x))
    BY <2>2, <2>3, <2>4, <2>5, Zenon
  <2> QED BY <2>1, <2>6
<1>3. Seq(Message) \subseteq S
  <2> HIDE DEF S
  <2> QED BY <1>1, <1>2, EverySequence
<1> QED BY <1>3 DEF Texts

\* Without reasoning and respelled calls a text shows itself.
Plain(s) == \A i \in 1..Len(s) : s[i].kind \notin {"hidden", "sampled"}

LEMMA LastOfAppend ==
  ASSUME NEW s \in Texts, NEW x \in Message
  PROVE  /\ Len(Append(s, x)) = Len(s) + 1 /\ Len(s) \in Nat
         /\ Append(s, x)[Len(s) + 1] = x
         /\ \A i \in 1..Len(s) : Append(s, x)[i] = s[i]
BY DEF Texts

LEMMA PlainShowsItself == ASSUME NEW s \in Texts, Plain(s) PROVE Visible(s) = s
<1> DEFINE S == {t \in Texts : Plain(t) => Visible(t) = t}
<1>1. <<>> \in S
  BY VisibleEmpty, EmptySeq DEF Texts
<1>2. ASSUME NEW t \in Seq(Message), NEW x \in Message, t \in S PROVE Append(t, x) \in S
  <2>1. t \in Texts /\ Append(t, x) \in Texts
    BY PrefixAppend DEF Texts
  <2>2. ASSUME Plain(Append(t, x)) PROVE Visible(Append(t, x)) = Append(t, x)
    <3>1. Len(t) + 1 \in 1..Len(Append(t, x)) /\ \A i \in 1..Len(t) : i \in 1..Len(Append(t, x))
      BY <2>1, LastOfAppend
    <3>2. Plain(t) /\ x.kind \notin {"hidden", "sampled"}
      BY <2>1, <2>2, <3>1, LastOfAppend DEF Plain
    <3>3. Visible(Append(t, x)) = t \o <<x>>
      BY <1>2, <2>1, <3>2, VisibleAppend, ShownType
    <3> QED BY <3>3, AppendIsConcat
  <2> QED BY <2>1, <2>2
<1>3. Seq(Message) \subseteq S
  <2> HIDE DEF S
  <2> QED BY <1>1, <1>2, EverySequence
<1> QED BY <1>3 DEF Texts

\* Reasoning shows nothing.
AllHidden(s) == \A i \in 1..Len(s) : s[i].kind = "hidden"

LEMMA HiddenShowsNothing == ASSUME NEW s \in Texts, AllHidden(s) PROVE Visible(s) = <<>>
<1> DEFINE S == {t \in Texts : AllHidden(t) => Visible(t) = <<>>}
<1>1. <<>> \in S
  BY VisibleEmpty, EmptySeq DEF Texts
<1>2. ASSUME NEW t \in Seq(Message), NEW x \in Message, t \in S PROVE Append(t, x) \in S
  <2>1. t \in Texts /\ Append(t, x) \in Texts
    BY PrefixAppend DEF Texts
  <2>2. ASSUME AllHidden(Append(t, x)) PROVE Visible(Append(t, x)) = <<>>
    <3>1. Len(t) + 1 \in 1..Len(Append(t, x)) /\ \A i \in 1..Len(t) : i \in 1..Len(Append(t, x))
      BY <2>1, LastOfAppend
    <3>2. AllHidden(t) /\ x.kind = "hidden"
      BY <2>1, <2>2, <3>1, LastOfAppend DEF AllHidden
    <3>3. Visible(Append(t, x)) = <<>> \o <<>>
      BY <1>2, <2>1, <3>2, VisibleAppend, ShownType
    <3> QED BY <3>3, ConcatEmptySeq, EmptySeq
  <2> QED BY <2>1, <2>2
<1>3. Seq(Message) \subseteq S
  <2> HIDE DEF S
  <2> QED BY <1>1, <1>2, EverySequence
<1> QED BY <1>3 DEF Texts

-----------------------------------------------------------------------------
(* The inductive invariant.                                                *)

\* A request names its client's next message, answers at most the call that
\* message follows, and its text is the transcript up to it or, when it rests on
\* live state, the message alone.
Known(q) ==
  /\ q.n >= 2 /\ q.ids \in {None, <<q.conv, q.n - 1>>}
  /\ q.text = IF q.live THEN <<Token(q.conv, q.n, "visible")>> ELSE Transcript(q.conv, q.n)

RequestsKnown ==
  /\ \A c \in Conv : hist[c] >= 1 /\ pending[c] \in {None, <<c, hist[c]>>}
  /\ \A i \in 1..Len(queue) : Known(queue[i])
  /\ pc # "idle" => Known(job)
  /\ pc = "load" => ~job.live

\* A text that begins at a first message, and so can match a replayed transcript.
Begins(s) == Len(s) > 0 /\ s[1].at = 1

\* What a binding says is true of the session it was remembered for.
Faithful(b) ==
  b.valid => /\ b.was \in Texts /\ b.len = Len(b.was)
             /\ b.len > 0 /\ Begins(b.text) => Plain(b.text) /\ Visible(b.was) = b.text
             /\ b.len > 0 /\ b.ids # None => Visible(b.was) = Transcript(b.ids[1], b.ids[2])

Restores(f) == Len(f.key) > 0 /\ (Begins(f.key) => Visible(f.tokens) = Visible(f.key))

\* b would not be wrong about the session t.
Describes(b, t) == b.valid /\ b.len > 0 /\ b.len = Len(t) => Visible(b.was) = Visible(t)

RestTrue == /\ Describes(responses, tokens)
            /\ Describes(anthropic, tokens)
            /\ Describes(thinking, tokens)

\* The prompt shows the transcript of the client, and a binding the request
\* continues from is behind it.
SyncTrue ==
  /\ Visible(eff) = Transcript(job.conv, job.n)
  /\ ContinuesFrom("responses") => Api = "responses" /\ responses.len < Len(eff)
  /\ ContinuesFrom("anthropic") => Api = "anthropic" /\ anthropic.len < Len(eff)
  /\ ContinuesFrom("thinking") => thinking.len < Len(eff)

\* Only bindings of the client's own protocol are left.
OwnBindings == /\ responses.valid => Api = "responses"
               /\ anthropic.valid => Api = "anthropic"

DecodeTrue ==
  /\ Visible(eff) = Transcript(job.conv, job.n)
  /\ OwnBindings
  /\ responses.valid => responses.len < Len(eff)
  /\ anthropic.valid => anthropic.len < Len(eff)
  /\ thinking.valid => thinking.len < Len(eff)
  /\ \E thought \in Texts : AllHidden(thought) /\ tokens = eff \o thought

\* A turn that is over shows its answer behind the transcript.
FinishTrue ==
  /\ OwnBindings
  /\ Ok /\ pos > 0 => Visible(tokens) = Transcript(job.conv, job.n + 1)

Tells(b, n) == b.valid /\ b.len > 0 => Visible(b.was) = Transcript(job.conv, n)

RebuildTrue ==
  /\ goal = Len(eff) /\ Visible(eff) = Transcript(job.conv, job.n + 1)
  /\ Tells(responses, job.n + 1) /\ Tells(anthropic, job.n + 1) /\ Tells(thinking, job.n + 1)

BindingsFaithful == Faithful(responses) /\ Faithful(anthropic) /\ Faithful(thinking)
FilesRestore == \A f \in disk : Restores(f)

Truth ==
  /\ BindingsFaithful /\ FilesRestore
  /\ pc \in {"idle", "lookup"} => RestTrue
  /\ pc = "sync" => SyncTrue
  /\ pc = "decode" => DecodeTrue
  /\ pc = "finish" => FinishTrue
  /\ pc = "rebuild" => RebuildTrue

EvidenceInv == RequestsKnown /\ ("binding" \notin stale => Truth)
-----------------------------------------------------------------------------
(* Transcripts and prefixes.                                               *)

LEMMA RestIsNotMisled == RestTrue <=> ~Misleads(tokens)
BY DEF RestTrue, Misleads, Describes

LEMMA TranscriptGrows ==
  ASSUME NEW c \in Conv, NEW n \in Nat
  PROVE  Transcript(c, n + 1) = Append(Transcript(c, n), Token(c, n + 1, "visible"))
<1> DEFINE t == Transcript(c, n)
           u == Transcript(c, n + 1)
           x == Token(c, n + 1, "visible")
<1>1. t \in Texts /\ Len(t) = n /\ u \in Texts /\ Len(u) = n + 1
  BY TranscriptType
<1>2. x \in Message
  BY TokenType DEF Kinds
<1>3. /\ \A i \in 1..n : t[i] = Token(c, i, "visible")
      /\ \A i \in 1..(n + 1) : u[i] = Token(c, i, "visible")
  BY DEF Transcript
<1> HIDE DEF t, u
<1>4. Append(t, x) \in Texts /\ Len(Append(t, x)) = n + 1
      /\ Append(t, x)[n + 1] = x /\ \A i \in 1..n : Append(t, x)[i] = t[i]
  BY <1>1, <1>2, LastOfAppend, PrefixAppend
<1>5. \A i \in 1..(n + 1) : Append(t, x)[i] = u[i]
  <2> TAKE i \in 1..(n + 1)
  <2>1. i \in 1..n \/ i = n + 1
    OBVIOUS
  <2> HIDE DEF x
  <2> QED BY <1>3, <1>4, <2>1 DEF x
<1>6. Append(t, x) = u
  <2> HIDE DEF x
  <2> QED BY <1>1, <1>4, <1>5, SeqEqual DEF Texts
<1> QED BY <1>6 DEF t, u

LEMMA TranscriptPlain ==
  ASSUME NEW c \in Conv, NEW n \in Nat
  PROVE  /\ Plain(Transcript(c, n)) /\ Visible(Transcript(c, n)) = Transcript(c, n)
         /\ n > 0 => Begins(Transcript(c, n))
<1>1. Transcript(c, n) \in Texts /\ Len(Transcript(c, n)) = n
  BY TranscriptType
<1>2. \A i \in 1..n : Transcript(c, n)[i].kind = "visible" /\ Transcript(c, n)[i].at = i
  BY DEF Transcript, Token
<1>3. Plain(Transcript(c, n))
  BY <1>1, <1>2 DEF Plain
<1>4. n > 0 => Begins(Transcript(c, n))
  BY <1>1, <1>2 DEF Begins
<1> QED BY <1>1, <1>3, <1>4, PlainShowsItself

\* A text is what it begins with and the rest.
LEMMA PrefixJoin ==
  ASSUME NEW s \in Texts, NEW t \in Texts, IsPrefix(s, t)
  PROVE  /\ t = s \o Drop(t, Len(s)) /\ Drop(t, Len(s)) \in Texts
         /\ Len(t) = Len(s) + Len(Drop(t, Len(s)))
         /\ Len(s) > 0 => t[1] = s[1]
<1>1. /\ Len(s) \in Nat /\ Len(t) \in Nat /\ Len(s) <= Len(t)
      /\ SubSeq(s, 1, Len(s)) = SubSeq(t, 1, Len(s))
  BY DEF IsPrefix, Texts
<1>2. s = SubSeq(t, 1, Len(s)) /\ t = SubSeq(t, 1, Len(t))
  BY <1>1, SubSeqFull DEF Texts
<1>3. SubSeq(t, 1, Len(s)) \o SubSeq(t, Len(s) + 1, Len(t)) = SubSeq(t, 1, Len(t))
  <2>1. /\ 1 \in 1..(Len(t) + 1) /\ Len(s) \in (1 - 1)..Len(t) /\ Len(t) \in Len(s)..Len(t)
        /\ t \in Seq(Message)
    BY <1>1 DEF Texts
  <2> QED BY <2>1, ConcatAdjacentSubSeq
<1>4. Drop(t, Len(s)) \in Texts
  BY <1>1, DropType
<1>5. Len(Drop(t, Len(s))) = Len(t) - Len(s)
  BY <1>1 DEF Drop, Texts
<1>6. ASSUME Len(s) > 0 PROVE t[1] = s[1]
  <2>1. 1 \in 1..Len(s) /\ 1 \in 1..Len(t)
    BY <1>1, <1>6
  <2>2. t \in Seq(Message) /\ Len(s) \in Nat /\ Len(s) <= Len(t)
    BY <1>1 DEF Texts
  <2>3. SubSeq(t, 1, Len(s))[1] = t[1]
    BY <2>1, <2>2
  <2> QED BY <1>2, <2>3, Zenon
<1>7. t = s \o Drop(t, Len(s))
  BY <1>2, <1>3 DEF Drop
<1>8. Len(t) = Len(s) + (Len(t) - Len(s))
  BY <1>1
<1> QED BY <1>4, <1>5, <1>6, <1>7, <1>8

\* Who shows what the key shows, and goes on with the rest of a text that
\* begins with the key, shows this text: every way to continue rests on it.
LEMMA ContinuationShows ==
  ASSUME NEW s \in Texts, NEW key \in Texts, NEW text \in Texts,
         IsPrefix(key, text), Visible(s) = Visible(key)
  PROVE  Visible(s \o Drop(text, Len(key))) = Visible(text)
<1>1. text = key \o Drop(text, Len(key)) /\ Drop(text, Len(key)) \in Texts
  BY PrefixJoin
<1>2. Visible(s \o Drop(text, Len(key))) = Visible(s) \o Visible(Drop(text, Len(key)))
  BY <1>1, VisibleConcat
<1>3. Visible(key \o Drop(text, Len(key))) = Visible(key) \o Visible(Drop(text, Len(key)))
  BY <1>1, VisibleConcat
<1> QED BY <1>1, <1>2, <1>3

-----------------------------------------------------------------------------
(* Requests.                                                               *)

LEMMA KnownText ==
  ASSUME NEW q \in Requests, Known(q)
  PROVE  /\ Last(q.text) = Token(q.conv, q.n, "visible") /\ Last(q.text) \in Message
         /\ ~q.live => q.text = Transcript(q.conv, q.n)
         /\ q.conv \in Conv /\ q.n \in Nat \ {0, 1} /\ q.text \in Texts /\ Len(q.text) > 0
<1>1. q.conv \in Conv /\ q.n \in Nat \ {0, 1} /\ q.text \in Texts /\ Len(q.text) > 0
      /\ q.live \in BOOLEAN
  BY DEF Known, Requests
<1>2. Token(q.conv, q.n, "visible") \in Message
  BY <1>1, TokenType DEF Kinds
<1>3. CASE q.live
  <2>1. q.text = <<Token(q.conv, q.n, "visible")>>
    BY <1>3 DEF Known
  <2>2. Len(q.text) = 1 /\ q.text[1] = Token(q.conv, q.n, "visible")
    BY <2>1
  <2> QED BY <1>1, <1>2, <1>3, <2>2 DEF Last
<1>4. CASE ~q.live
  <2>1. q.text = Transcript(q.conv, q.n)
    BY <1>4 DEF Known
  <2>2. Len(q.text) = q.n /\ q.text[q.n] = Token(q.conv, q.n, "visible")
    BY <1>1, <2>1, TranscriptType DEF Transcript
  <2> QED BY <1>1, <1>2, <2>1, <2>2 DEF Last
<1> QED BY <1>3, <1>4

LEMMA Submitted ==
  ASSUME IInv, RequestsKnown, NEW c \in Conv, NEW text, NEW live \in BOOLEAN,
         text = IF live THEN <<Token(c, hist[c] + 1, "visible")>>
                ELSE Transcript(c, hist[c] + 1),
         queue' = queue \/ queue' = Append(queue, Request(c, text, live)),
         UNCHANGED <<jobVars, hist, pending>>
  PROVE  RequestsKnown'
<1>1. hist[c] \in Nat /\ hist[c] >= 1 /\ pending[c] \in {None, <<c, hist[c]>>}
  BY DEF IInv, ClientsOK, RequestsKnown
<1>2. Known(Request(c, text, live))
  <2>1. hist[c] + 1 >= 2 /\ (hist[c] + 1) - 1 = hist[c]
    BY <1>1
  <2> QED BY <1>1, <2>1 DEF Known, Request
<1>3. \A i \in 1..Len(queue') : Known(queue'[i])
  <2>1. CASE queue' = queue
    BY <2>1 DEF RequestsKnown
  <2>2. CASE queue' = Append(queue, Request(c, text, live))
    <3>1. queue \in Seq(Requests)
      BY DEF IInv, ClientsOK
    <3>2. Len(queue') = Len(queue) + 1 /\ Len(queue) \in Nat
          /\ queue'[Len(queue) + 1] = Request(c, text, live)
          /\ \A i \in 1..Len(queue) : queue'[i] = queue[i]
      BY <2>2, <3>1
    <3>3. \A i \in 1..Len(queue') : i \in 1..Len(queue) \/ i = Len(queue) + 1
      BY <3>2
    <3> QED BY <1>2, <3>2, <3>3 DEF RequestsKnown
  <2> QED BY <2>1, <2>2
<1> QED BY <1>3 DEF RequestsKnown, jobVars, Known

\* No candidate applies to a request that finds nothing live.
LEMMA NoWinner ==
  ASSUME IInv, pc = "lookup", Winner.source = "none"
  PROVE  /\ ~job.live
         /\ pos > 0 => /\ ~(Api = "responses" /\ TextMatches(responses, job.text))
                       /\ ~(Api # "responses" /\ TextMatches(thinking, job.text))
<1> DEFINE ok == {i \in DOMAIN Candidates :
                    Candidates[i].ok /\ (pos > 0 \/ Candidates[i].source = "refused")}
<1>1. DOMAIN Candidates = 1..7 /\ \A i \in 1..7 : Candidates[i].source # "none"
  BY DEF Candidates
<1>2. ok = {}
  <2> SUFFICES ASSUME ok # {} PROVE FALSE
    OBVIOUS
  <2>1. Winner = Candidates[Min(ok)]
    BY DEF Winner
  <2>2. ok \subseteq 1..7
    BY <1>1
  <2>3. \E x \in ok : \A y \in ok : x <= y
    <3> HIDE DEF ok
    <3> QED BY <2>2, Least
  <2>4. Min(ok) \in ok
    <3> HIDE DEF ok
    <3> QED BY <2>3 DEF Min
  <2> HIDE DEF ok
  <2> QED BY <1>1, <2>1, <2>2, <2>4
<1>3. /\ Candidates[4].source = "refused" /\ Candidates[4].ok = job.live
      /\ Candidates[1].ok = (Api = "responses" /\ TextMatches(responses, job.text))
      /\ Candidates[6].ok = (Api # "responses" /\ TextMatches(thinking, job.text))
  BY DEF Candidates
<1>4. \A i \in 1..7 : ~(Candidates[i].ok /\ (pos > 0 \/ Candidates[i].source = "refused"))
  BY <1>1, <1>2
<1>5. 1 \in 1..7 /\ 4 \in 1..7 /\ 6 \in 1..7
  OBVIOUS
<1> HIDE DEF Candidates
<1> QED BY <1>3, <1>4, <1>5

LEMMA RequestsStep == ASSUME IInv, RequestsKnown, [Next]_vars PROVE RequestsKnown'
<1>1. ASSUME NEW c \in Conv, SendReplay(c) PROVE RequestsKnown'
  <2>1. /\ UNCHANGED <<jobVars, hist, pending>>
        /\ \/ queue' = queue
           \/ queue' = Append(queue, Request(c, Transcript(c, hist[c] + 1), FALSE))
    BY <1>1 DEF SendReplay, Submit
  <2> QED BY <2>1, Submitted
<1>2. ASSUME NEW c \in Conv, SendToolOutput(c) PROVE RequestsKnown'
  <2>1. /\ UNCHANGED <<jobVars, hist, pending>>
        /\ \/ queue' = queue
           \/ queue' = Append(queue, Request(c, <<Token(c, hist[c] + 1, "visible")>>, TRUE))
    BY <1>2 DEF SendToolOutput, Submit
  <2> QED BY <2>1, Submitted
<1>3. CASE Begin
  <2>1. queue \in Seq(Requests) /\ queue # <<>> /\ job' = Head(queue) /\ queue' = Tail(queue)
    BY <1>3 DEF Begin, IInv, ClientsOK
  <2>2. Len(queue) \in Nat \ {0} /\ Len(Tail(queue)) = Len(queue) - 1 /\ Head(queue) = queue[1]
        /\ \A i \in 1..(Len(queue) - 1) : Tail(queue)[i] = queue[i + 1]
    BY <2>1, HeadTailProperties, EmptySeq
  <2>3. 1 \in 1..Len(queue) /\ \A i \in 1..(Len(queue) - 1) : i + 1 \in 1..Len(queue)
    BY <2>2
  <2>4. Known(Head(queue)) /\ \A i \in 1..Len(Tail(queue)) : Known(Tail(queue)[i])
    BY <2>2, <2>3 DEF RequestsKnown
  <2> QED BY <1>3, <2>1, <2>4 DEF Begin, RequestsKnown, Known
<1>4. CASE UNCHANGED <<hist, pending, queue>> /\ Return
  BY <1>4 DEF RequestsKnown, Return
<1>5. CASE UNCHANGED <<hist, pending, queue, job>> /\ pc # "idle" /\ (pc' = "load" => ~job.live)
  BY <1>5 DEF RequestsKnown, Known
<1>6. ASSUME TellClient, Return, pc # "idle", UNCHANGED queue PROVE RequestsKnown'
  <2>1. job.n \in Nat /\ job.n >= 2 /\ job.conv \in Conv /\ hist \in [Conv -> Nat]
        /\ pending \in [Conv -> CallIds]
    BY <1>6 DEF IInv, JobOK, Requests, ClientsOK, RequestsKnown, Known
  <2>2. \A c \in Conv : hist'[c] >= 1 /\ pending'[c] \in {None, <<c, hist'[c]>>}
    <3>1. CASE UNCHANGED <<hist, pending>>
      BY <3>1 DEF RequestsKnown
    <3>2. CASE /\ hist' = [hist EXCEPT ![job.conv] = job.n + 1]
               /\ pending' = [pending EXCEPT ![job.conv] = CallId]
      BY <2>1, <3>2 DEF RequestsKnown, CallId
    <3> QED BY <1>6, <3>1, <3>2 DEF TellClient
  <2> QED BY <1>6, <2>2 DEF RequestsKnown, Return
<1>7. CASE Refuse \/ PrefillFails \/ ClientGone
  BY <1>4, <1>7 DEF Refuse, PrefillFails, ClientGone
<1>8. CASE LiveHit \/ DiskHit \/ DiskLoadFails \/ DiskMiss
  BY <1>5, <1>8 DEF LiveHit, DiskHit, DiskLoadFails, DiskMiss, StartCold, clientVars
<1>9. CASE LiveMiss
  BY <1>5, <1>9, NoWinner DEF LiveMiss, clientVars
<1>10. CASE PrefillChunk \/ ColdPrefixDone \/ PrefillDone \/ DecodeReasoning
  BY <1>5, <1>10 DEF PrefillChunk, ColdPrefixDone, PrefillDone, DecodeReasoning, clientVars,
                     jobVars
<1>11. CASE BeginRebuild \/ \E why \in {"stop", "length", "tool_calls", "error"} : DecodeEnd(why)
  BY <1>5, <1>11 DEF BeginRebuild, DecodeEnd, clientVars
<1>12. CASE Finish \/ EndRebuild
  BY <1>6, <1>12 DEF Finish, EndRebuild
<1>13. CASE Restart
  BY <1>13 DEF Restart, RequestsKnown, Return
<1>14. CASE UNCHANGED vars
  BY <1>14 DEF RequestsKnown, vars, clientVars, jobVars, Known
<1> QED BY <1>1, <1>2, <1>3, <1>7, <1>8, <1>9, <1>10, <1>11, <1>12, <1>13, <1>14 DEF Next

-----------------------------------------------------------------------------
(* What steps have in common.                                              *)

LEMMA SameFaithful == ASSUME BindingsFaithful, UNCHANGED bindings PROVE BindingsFaithful'
BY DEF BindingsFaithful, bindings, Faithful

LEMMA FilesKept == ASSUME FilesRestore, disk' \subseteq disk PROVE FilesRestore'
BY DEF FilesRestore, Restores

LEMMA StoredRestores ==
  ASSUME FilesRestore, NEW key, NEW s, Len(key) > 0,
         Begins(key) => Visible(s) = Visible(key), Stored(disk, disk', key, s)
  PROVE  FilesRestore'
<1>1. disk' \subseteq disk \cup {File(key, s)}
  BY DEF Stored
<1>2. Restores(File(key, s))
  BY DEF Restores, File
<1>3. \A f \in disk' : Restores(f)
  BY <1>1, <1>2 DEF FilesRestore
<1> QED BY <1>3 DEF FilesRestore, Restores

LEMMA NotedRestores ==
  ASSUME FilesRestore, NEW s, Len(s) > 0, StoredAndNoted(s)
  PROVE  FilesRestore'
<1>1. CASE Stored(disk, disk', s, s)
  BY <1>1, StoredRestores
<1>2. CASE UNCHANGED diskVars
  BY <1>2, FilesKept DEF diskVars
<1> QED BY <1>1, <1>2 DEF StoredAndNoted

LEMMA ContinuedRestores ==
  ASSUME FilesRestore, NEW s \in Texts, NEW ok, Continued(s, ok)
  PROVE  FilesRestore'
<1>1. MinTokens \in Nat \ {0} /\ Len(s) \in Nat
  BY LiveSessionAssumption DEF Texts
<1>2. CASE Len(s) >= MinTokens /\ StoredAndNoted(s)
  BY <1>1, <1>2, NotedRestores
<1>3. CASE UNCHANGED diskVars
  BY <1>3, FilesKept DEF diskVars
<1> QED BY <1>2, <1>3 DEF Continued

\* A stored session is shown by the text of the binding that claims it.
LEMMA ClaimRestores ==
  ASSUME NEW b, b.text \in Texts, Faithful(b), Describes(b, tokens), Claims(b), pos > 0
  PROVE  Len(b.text) > 0 /\ (Begins(b.text) => Visible(tokens) = Visible(b.text))
<1>1. Len(b.text) > 0
  BY EmptySeq DEF Claims, Texts
<1>2. ASSUME Begins(b.text) PROVE Visible(tokens) = Visible(b.text)
  <2>1. Plain(b.text) /\ Visible(b.was) = b.text /\ Visible(b.was) = Visible(tokens)
    BY <1>2 DEF Faithful, Describes, Claims, pos
  <2> QED BY <2>1, PlainShowsItself
<1> QED BY <1>1, <1>2

LEMMA StoreCurrentRestores ==
  ASSUME IInv, BindingsFaithful, FilesRestore, RestTrue, StoreCurrent(disk, disk')
  PROVE  FilesRestore'
<1>1. CASE disk' = disk
  BY <1>1, FilesKept
<1>2. CASE /\ pos >= MinTokens
           /\ Stored(disk, disk', IF Claims(responses) THEN responses.text
                                  ELSE IF Claims(thinking) THEN thinking.text ELSE tokens,
                     tokens)
  <2>1. pos > 0 /\ Len(tokens) > 0
    <3>1. MinTokens \in Nat \ {0} /\ pos \in Nat
      BY LiveSessionAssumption DEF IInv, Texts, pos
    <3> QED BY <1>2, <3>1 DEF pos
  <2>2. responses.text \in Texts /\ thinking.text \in Texts
    BY DEF IInv, BindingsOK
  <2>3. CASE Claims(responses)
    <3>1. Len(responses.text) > 0
          /\ (Begins(responses.text) => Visible(tokens) = Visible(responses.text))
      BY <2>1, <2>2, <2>3, ClaimRestores DEF BindingsFaithful, RestTrue
    <3> QED BY <1>2, <2>3, <3>1, StoredRestores
  <2>4. CASE ~Claims(responses) /\ Claims(thinking)
    <3>1. Len(thinking.text) > 0
          /\ (Begins(thinking.text) => Visible(tokens) = Visible(thinking.text))
      BY <2>1, <2>2, <2>4, ClaimRestores DEF BindingsFaithful, RestTrue
    <3> QED BY <1>2, <2>4, <3>1, StoredRestores
  <2>5. CASE ~Claims(responses) /\ ~Claims(thinking)
    BY <1>2, <2>1, <2>5, StoredRestores
  <2> QED BY <2>3, <2>4, <2>5
<1> QED BY <1>1, <1>2 DEF StoreCurrent

\* A job that ended leaves the worker idle.
LEMMA ReturnTrue ==
  ASSUME Return, BindingsFaithful', FilesRestore', RestTrue'
  PROVE  Truth'
BY DEF Return, Truth

LEMMA SameRest == ASSUME RestTrue, UNCHANGED <<tokens, bindings>> PROVE RestTrue'
BY DEF RestTrue, Describes, bindings

LEMMA NothingBoundTrue ==
  ASSUME NEW t PROVE Faithful(NoBinding) /\ Describes(NoBinding, t) /\ ~NoBinding.valid
BY DEF NoBinding, Faithful, Describes

LEMMA JobKnown ==
  ASSUME IInv, RequestsKnown, pc # "idle"
  PROVE  /\ Last(job.text) = Token(job.conv, job.n, "visible") /\ Last(job.text) \in Message
         /\ ~job.live => job.text = Transcript(job.conv, job.n)
         /\ job.conv \in Conv /\ job.n \in Nat \ {0, 1} /\ job.text \in Texts
         /\ Len(job.text) > 0 /\ job.ids \in {None, <<job.conv, job.n - 1>>} /\ Known(job)
<1>1. job \in Requests /\ Known(job)
  BY DEF IInv, JobOK, RequestsKnown
<1>2. job.ids \in {None, <<job.conv, job.n - 1>>}
  BY <1>1 DEF Known
<1> QED BY <1>1, <1>2, KnownText
-----------------------------------------------------------------------------
(* Finding what a request continues from.                                  *)

LEMMA ClientTrue ==
  ASSUME Truth, UNCHANGED <<sessionVars, bindings, disk, jobVars>>
  PROVE  Truth'
<1>1. /\ UNCHANGED <<tokens, valid, responses, anthropic, thinking, disk, pc, job, eff, goal, source,
                     finish, bindings>>
      /\ UNCHANGED <<Api, Ok, CallId, pos>> /\ \A b : ContinuesFrom(b)' = ContinuesFrom(b)
  BY DEF sessionVars, bindings, jobVars, syncVars, Api, Ok, CallId, pos, ContinuesFrom
<1>2. BindingsFaithful' /\ FilesRestore' /\ (RestTrue => RestTrue')
  BY <1>1, SameFaithful, FilesKept, SameRest DEF Truth
<1>3. OwnBindings => OwnBindings'
  BY <1>1 DEF OwnBindings
<1>4. (SyncTrue => SyncTrue') /\ (DecodeTrue => DecodeTrue')
  BY <1>1, <1>3 DEF SyncTrue, DecodeTrue, Transcript, Token
<1>5. FinishTrue => FinishTrue'
  BY <1>1, <1>3 DEF FinishTrue, Transcript, Token
<1>6. RebuildTrue => RebuildTrue'
  BY <1>1 DEF RebuildTrue, Tells, Transcript, Token
<1> QED BY <1>1, <1>2, <1>4, <1>5, <1>6 DEF Truth

LEMMA BeginTrue == ASSUME Truth, Begin PROVE Truth'
<1>1. BindingsFaithful' /\ FilesRestore' /\ RestTrue'
  BY SameFaithful, FilesKept, SameRest DEF Begin, Truth, sessionVars, diskVars
<1> QED BY <1>1 DEF Begin, Truth

LEMMA RefuseTrue == ASSUME Truth, Refuse PROVE Truth'
<1>1. BindingsFaithful' /\ FilesRestore' /\ RestTrue'
  BY SameFaithful, FilesKept, SameRest DEF Refuse, Truth, sessionVars, diskVars
<1> QED BY <1>1, ReturnTrue DEF Refuse

LEMMA LiveMissTrue == ASSUME IInv, Truth, LiveMiss PROVE Truth'
<1>1. BindingsFaithful' /\ FilesRestore'
  BY SameFaithful, StoreCurrentRestores DEF LiveMiss, Truth
<1> QED BY <1>1 DEF LiveMiss, Truth

\* A matching text is that of the session, and the request's text goes on from it.
LEMMA TextMatchShows ==
  ASSUME IInv, RequestsKnown, Truth, pc = "lookup", pos > 0, NEW b,
         b.text \in Texts, Faithful(b), Describes(b, tokens), TextMatches(b, job.text)
  PROVE  /\ Visible(tokens \o Drop(job.text, Len(b.text))) = Transcript(job.conv, job.n)
         /\ b.len < Len(tokens \o Drop(job.text, Len(b.text)))
<1>1. /\ b.valid /\ b.len = pos /\ Len(b.text) > 0 /\ Len(b.text) < Len(job.text)
      /\ IsPrefix(b.text, job.text)
  BY DEF TextMatches, AtFrontier
<1>2. job.text \in Texts /\ job.conv \in Conv /\ job.n \in Nat \ {0, 1} /\ Known(job)
  BY JobKnown
<1>3. Len(b.text) \in Nat /\ Len(job.text) \in Nat /\ tokens \in Texts /\ pos = Len(tokens)
      /\ pos \in Nat
  BY <1>2 DEF IInv, Texts, pos
<1>4. ~job.live
  <2> SUFFICES ASSUME job.live PROVE FALSE
    OBVIOUS
  <2>1. Len(<<Token(job.conv, job.n, "visible")>>) = 1
    OBVIOUS
  <2>2. Len(job.text) = 1
    BY <1>2, <2>1 DEF Known
  <2>3. 0 < Len(b.text) /\ Len(b.text) < Len(job.text)
    BY <1>1
  <2> QED BY <1>3, <2>2, <2>3
<1>5. job.text = Transcript(job.conv, job.n)
  BY <1>4, JobKnown
<1>6. Begins(b.text)
  <2>1. job.text[1] = b.text[1]
    BY <1>1, <1>2, PrefixJoin
  <2>2. Begins(job.text)
    BY <1>2, <1>5, TranscriptPlain
  <2> QED BY <1>1, <2>1, <2>2 DEF Begins
<1>7. Visible(tokens) = Visible(b.text)
  <2>1. Plain(b.text) /\ Visible(b.was) = b.text /\ Visible(b.was) = Visible(tokens)
    BY <1>1, <1>3, <1>6 DEF Faithful, Describes
  <2> QED BY <2>1, PlainShowsItself
<1>8. Visible(tokens \o Drop(job.text, Len(b.text))) = Visible(job.text)
  BY <1>1, <1>2, <1>3, <1>7, ContinuationShows
<1>9. b.len < Len(tokens \o Drop(job.text, Len(b.text)))
  <2> DEFINE rest == Drop(job.text, Len(b.text))
  <2>1. rest \in Texts /\ Len(job.text) = Len(b.text) + Len(rest)
    BY <1>1, <1>2, PrefixJoin
  <2>2. Len(rest) \in Nat
    BY <2>1 DEF Texts
  <2> HIDE DEF rest
  <2>3. Len(tokens \o rest) = Len(tokens) + Len(rest)
    BY <1>3, <2>1, PrefixConcat
  <2>4. b.len < Len(tokens \o rest)
    BY <1>1, <1>3, <2>1, <2>2, <2>3
  <2> QED BY <2>4 DEF rest
<1> QED BY <1>2, <1>5, <1>8, <1>9, TranscriptPlain

\* A matching call is the one this message answers.
LEMMA IdsMatchShows ==
  ASSUME IInv, RequestsKnown, Truth, pc = "lookup", pos > 0, NEW b,
         Faithful(b), Describes(b, tokens), IdsMatch(b, job.ids)
  PROVE  /\ Visible(Append(tokens, Last(job.text))) = Transcript(job.conv, job.n)
         /\ b.len < Len(Append(tokens, Last(job.text)))
<1>1. b.valid /\ b.len = pos /\ job.ids # None /\ b.ids = job.ids /\ tokens \in Texts
      /\ pos = Len(tokens) /\ pos \in Nat
  BY DEF IdsMatch, AtFrontier, IInv, Texts, pos
<1>2. /\ Last(job.text) = Token(job.conv, job.n, "visible") /\ Last(job.text) \in Message
      /\ job.conv \in Conv /\ job.n \in Nat \ {0, 1} /\ job.ids = <<job.conv, job.n - 1>>
  BY <1>1, JobKnown
<1>3. Visible(tokens) = Transcript(job.conv, job.n - 1)
  BY <1>1, <1>2 DEF Faithful, Describes
<1>4. job.n - 1 \in Nat /\ (job.n - 1) + 1 = job.n
  BY <1>2
<1>5. Transcript(job.conv, job.n) = Append(Transcript(job.conv, job.n - 1), Last(job.text))
  BY <1>2, <1>4, TranscriptGrows
<1>6. Shown(Last(job.text)) = <<Last(job.text)>>
  BY <1>2, ShownType DEF Token
<1>7. Visible(Append(tokens, Last(job.text))) =
        Transcript(job.conv, job.n - 1) \o <<Last(job.text)>>
  BY <1>1, <1>2, <1>3, <1>6, VisibleAppend
<1>8. Transcript(job.conv, job.n - 1) \o <<Last(job.text)>> =
        Append(Transcript(job.conv, job.n - 1), Last(job.text))
  BY <1>2, <1>4, TranscriptType, AppendIsConcat DEF Texts
<1>9. Len(Append(tokens, Last(job.text))) = Len(tokens) + 1
  BY <1>1, <1>2, PrefixAppend
<1> QED BY <1>1, <1>5, <1>7, <1>8, <1>9

\* The candidate that won, and what made it apply.
LEMMA WinnerIs ==
  ASSUME IInv, pc = "lookup", Winner.source \notin {"refused", "none"}
  PROVE  /\ pos > 0
         /\ \/ /\ Winner.source = "responses-visible" /\ Api = "responses"
               /\ TextMatches(responses, job.text)
               /\ Winner.prompt = tokens \o Drop(job.text, Len(responses.text))
            \/ /\ Winner.source = "responses-tool-output" /\ Api = "responses"
               /\ IdsMatch(responses, job.ids)
               /\ Winner.prompt = Append(tokens, Last(job.text))
            \/ /\ Winner.source = "anthropic-tool-output" /\ Api = "anthropic"
               /\ IdsMatch(anthropic, job.ids)
               /\ Winner.prompt = Append(tokens, Last(job.text))
            \/ /\ Winner.source = "memory-token" /\ ~job.live
               /\ Winner.prompt = job.text /\ Len(job.text) >= pos
            \/ /\ Winner.source = "thinking-visible"
               /\ TextMatches(thinking, job.text)
               /\ Winner.prompt = tokens \o Drop(job.text, Len(thinking.text))
            \/ /\ Winner.source = "memory-text" /\ ~job.live
               /\ IsPrefix(tokens, job.text)
               /\ Winner.prompt = tokens \o Drop(job.text, pos)
<1> DEFINE ok == {i \in DOMAIN Candidates :
                    Candidates[i].ok /\ (pos > 0 \/ Candidates[i].source = "refused")}
<1>1. DOMAIN Candidates = 1..7
  BY DEF Candidates
<1>2. ok # {} /\ Winner = Candidates[Min(ok)]
  BY DEF Winner
<1>3. Min(ok) \in ok /\ \A y \in ok : Min(ok) <= y
  <2>1. ok \subseteq 1..7
    BY <1>1
  <2>2. \E x \in ok : \A y \in ok : x <= y
    <3> HIDE DEF ok
    <3> QED BY <1>2, <2>1, Least
  <2> HIDE DEF ok
  <2> QED BY <2>2 DEF Min
<1>4. Candidates[4].source = "refused" /\ Candidates[4].ok = job.live
  BY DEF Candidates
<1> DEFINE w == Min(ok)
<1>5. /\ w \in 1..7 /\ Candidates[w].ok /\ Winner = Candidates[w]
      /\ job.live => w <= 4
  <2>1. job.live => 4 \in ok
    <3>1. 4 \in 1..7
      OBVIOUS
    <3>2. job.live => Candidates[4].ok
      BY <1>4, Zenon
    <3> HIDE DEF Candidates
    <3> QED BY <1>1, <1>4, <3>1, <3>2, Zenon
  <2> HIDE DEF ok
  <2>2. job.live => w <= 4
    BY <1>3, <2>1
  <2>3. w \in ok
    BY <1>3
  <2> HIDE DEF w
  <2> QED BY <1>1, <1>2, <2>2, <2>3 DEF ok, w
<1>6. w # 4
  BY <1>4, <1>5
<1>7. pos > 0
  BY <1>3, <1>2
<1> HIDE DEF w
<1>8. CASE w = 1
  <2>1. /\ Candidates[1].source = "responses-visible"
        /\ Candidates[1].prompt = tokens \o Drop(job.text, Len(responses.text))
    BY DEF Candidates
  <2>2. Candidates[1].ok => Api = "responses" /\ TextMatches(responses, job.text)
    BY DEF Candidates
  <2> QED BY <1>5, <1>7, <1>8, <2>1, <2>2, Zenon
<1>9. CASE w = 2
  <2>1. /\ Candidates[2].source = "responses-tool-output"
        /\ Candidates[2].prompt = Append(tokens, Last(job.text))
    BY DEF Candidates
  <2>2. Candidates[2].ok => Api = "responses" /\ IdsMatch(responses, job.ids)
    BY DEF Candidates
  <2> QED BY <1>5, <1>7, <1>9, <2>1, <2>2, Zenon
<1>10. CASE w = 3
  <2>1. /\ Candidates[3].source = "anthropic-tool-output"
        /\ Candidates[3].prompt = Append(tokens, Last(job.text))
    BY DEF Candidates
  <2>2. Candidates[3].ok => Api = "anthropic" /\ IdsMatch(anthropic, job.ids)
    BY DEF Candidates
  <2> QED BY <1>5, <1>7, <1>10, <2>1, <2>2, Zenon
<1>11. CASE w = 5
  <2>1. /\ Candidates[5].source = "memory-token"
        /\ Candidates[5].prompt = job.text
    BY DEF Candidates
  <2>2. Candidates[5].ok => SessionCommon(job.text) = pos /\ Len(job.text) >= pos
    BY DEF Candidates
  <2>3. ~job.live
    BY <1>5, <1>11
  <2> QED BY <1>5, <1>7, <1>11, <2>1, <2>2, <2>3, Zenon
<1>12. CASE w = 6
  <2>1. /\ Candidates[6].source = "thinking-visible"
        /\ Candidates[6].prompt = tokens \o Drop(job.text, Len(thinking.text))
    BY DEF Candidates
  <2>2. Candidates[6].ok => Api # "responses" /\ TextMatches(thinking, job.text)
    BY DEF Candidates
  <2> QED BY <1>5, <1>7, <1>12, <2>1, <2>2, Zenon
<1>13. CASE w = 7
  <2>1. /\ Candidates[7].source = "memory-text"
        /\ Candidates[7].prompt = tokens \o Drop(job.text, pos)
    BY DEF Candidates
  <2>2. Candidates[7].ok => IsPrefix(tokens, job.text)
    BY DEF Candidates
  <2>3. ~job.live
    BY <1>5, <1>13
  <2> QED BY <1>5, <1>7, <1>13, <2>1, <2>2, <2>3, Zenon
<1>14. w = 1 \/ w = 2 \/ w = 3 \/ w = 5 \/ w = 6 \/ w = 7
  BY <1>5, <1>6
<1> QED BY <1>8, <1>9, <1>10, <1>11, <1>12, <1>13, <1>14

LEMMA LiveHitTrue == ASSUME IInv, RequestsKnown, Truth, LiveHit PROVE Truth'
<1>1. /\ pc = "lookup" /\ Winner.source \notin {"refused", "none"} /\ pc' = "sync"
      /\ eff' = Winner.prompt /\ source' = Winner.source
      /\ UNCHANGED <<tokens, bindings, disk, job>>
  BY DEF LiveHit, sessionVars, diskVars
<1>2. BindingsFaithful' /\ FilesRestore'
  BY <1>1, SameFaithful, FilesKept DEF Truth
<1>3. RestTrue /\ BindingsFaithful /\ responses.text \in Texts /\ thinking.text \in Texts
  BY <1>1 DEF Truth, IInv, BindingsOK
<1>4. pos > 0
  BY <1>1, WinnerIs
<1>5. CASE /\ Winner.source = "responses-visible" /\ Api = "responses"
           /\ TextMatches(responses, job.text)
           /\ Winner.prompt = tokens \o Drop(job.text, Len(responses.text))
  <2>1. Visible(Winner.prompt) = Transcript(job.conv, job.n) /\ responses.len < Len(Winner.prompt)
    BY <1>1, <1>3, <1>4, <1>5, TextMatchShows DEF RestTrue, BindingsFaithful
  <2>2. SyncTrue'
    BY <1>1, <1>5, <2>1 DEF SyncTrue, ContinuesFrom, Api, bindings
  <2> QED BY <1>1, <1>2, <2>2 DEF Truth
<1>6. CASE /\ Winner.source = "responses-tool-output" /\ Api = "responses"
           /\ IdsMatch(responses, job.ids)
           /\ Winner.prompt = Append(tokens, Last(job.text))
  <2>1. Visible(Winner.prompt) = Transcript(job.conv, job.n) /\ responses.len < Len(Winner.prompt)
    BY <1>1, <1>3, <1>4, <1>6, IdsMatchShows DEF RestTrue, BindingsFaithful
  <2>2. SyncTrue'
    BY <1>1, <1>6, <2>1 DEF SyncTrue, ContinuesFrom, Api, bindings
  <2> QED BY <1>1, <1>2, <2>2 DEF Truth
<1>7. CASE /\ Winner.source = "anthropic-tool-output" /\ Api = "anthropic"
           /\ IdsMatch(anthropic, job.ids)
           /\ Winner.prompt = Append(tokens, Last(job.text))
  <2>1. Visible(Winner.prompt) = Transcript(job.conv, job.n) /\ anthropic.len < Len(Winner.prompt)
    BY <1>1, <1>3, <1>4, <1>7, IdsMatchShows DEF RestTrue, BindingsFaithful
  <2>2. SyncTrue'
    BY <1>1, <1>7, <2>1 DEF SyncTrue, ContinuesFrom, Api, bindings
  <2> QED BY <1>1, <1>2, <2>2 DEF Truth
<1>8. CASE /\ Winner.source = "memory-token" /\ ~job.live
           /\ Winner.prompt = job.text
  <2>1. Visible(Winner.prompt) = Transcript(job.conv, job.n)
    BY <1>1, <1>8, JobKnown, TranscriptPlain
  <2>2. SyncTrue'
    BY <1>1, <1>8, <2>1 DEF SyncTrue, ContinuesFrom
  <2> QED BY <1>1, <1>2, <2>2 DEF Truth
<1>9. CASE /\ Winner.source = "thinking-visible"
           /\ TextMatches(thinking, job.text)
           /\ Winner.prompt = tokens \o Drop(job.text, Len(thinking.text))
  <2>1. Visible(Winner.prompt) = Transcript(job.conv, job.n) /\ thinking.len < Len(Winner.prompt)
    BY <1>1, <1>3, <1>4, <1>9, TextMatchShows DEF RestTrue, BindingsFaithful
  <2>2. SyncTrue'
    BY <1>1, <1>9, <2>1 DEF SyncTrue, ContinuesFrom, bindings
  <2> QED BY <1>1, <1>2, <2>2 DEF Truth
<1>10. CASE /\ Winner.source = "memory-text" /\ ~job.live
            /\ IsPrefix(tokens, job.text)
            /\ Winner.prompt = tokens \o Drop(job.text, pos)
  <2>1. job.text = Winner.prompt
    BY <1>1, <1>10, JobKnown, PrefixJoin DEF IInv, pos
  <2>2. Visible(Winner.prompt) = Transcript(job.conv, job.n)
    BY <1>1, <1>10, <2>1, JobKnown, TranscriptPlain
  <2>3. SyncTrue'
    BY <1>1, <1>10, <2>2 DEF SyncTrue, ContinuesFrom
  <2> QED BY <1>1, <1>2, <2>3 DEF Truth
<1> QED BY <1>1, <1>5, <1>6, <1>7, <1>8, <1>9, <1>10, WinnerIs

\* A file that is hit shows its key, and the rest of the text follows.
LEMMA LoadShows ==
  ASSUME IInv, FilesRestore, NEW text \in Texts, Begins(text),
         NEW f \in Best(Hits(text)), Load(f, text)
  PROVE  Visible(eff') = Visible(text) /\ FilesRestore' /\ goal' = Len(eff')
<1>1. f \in disk /\ IsPrefix(f.key, text)
  BY DEF Best, Hits
<1>2. f.key \in Texts /\ f.tokens \in Texts /\ Restores(f)
  BY <1>1 DEF IInv, FilesOK, FilesRestore
<1>3. Begins(f.key)
  BY <1>1, <1>2, PrefixJoin DEF Begins, Restores
<1>4. Visible(f.tokens \o Drop(text, Len(f.key))) = Visible(text)
  BY <1>1, <1>2, <1>3, ContinuationShows DEF Restores
<1>5. FilesRestore'
  BY FilesKept DEF Load
<1> QED BY <1>4, <1>5 DEF Load

LEMMA DiskHitTrue == ASSUME IInv, RequestsKnown, Truth, DiskHit PROVE Truth'
<1>1. /\ pc = "load" /\ pc' = "sync" /\ source' = "disk-text" /\ UNCHANGED <<bindings, job>>
      /\ ~job.live
  BY DEF DiskHit, RequestsKnown
<1>2. PICK f \in Best(Hits(job.text)) : Load(f, job.text)
  BY DEF DiskHit
<1>3. job.text = Transcript(job.conv, job.n) /\ job.text \in Texts /\ Begins(job.text)
      /\ Visible(job.text) = job.text
  BY <1>1, JobKnown, TranscriptPlain
<1>4. Visible(eff') = Visible(job.text) /\ FilesRestore'
  BY <1>2, <1>3, LoadShows DEF Truth
<1>5. SyncTrue'
  BY <1>1, <1>3, <1>4 DEF SyncTrue, ContinuesFrom
<1> QED BY <1>1, <1>4, <1>5, SameFaithful DEF Truth

LEMMA StartColdTrue ==
  ASSUME IInv, RequestsKnown, Truth, pc = "load", StartCold, disk' \subseteq disk
  PROVE  Truth'
<1>1. pc' = "sync" /\ source' = "none" /\ eff' = job.text /\ UNCHANGED <<bindings, job>>
      /\ ~job.live
  BY DEF StartCold, RequestsKnown
<1>2. Visible(job.text) = Transcript(job.conv, job.n)
  BY <1>1, JobKnown, TranscriptPlain
<1>3. SyncTrue'
  BY <1>1, <1>2 DEF SyncTrue, ContinuesFrom
<1> QED BY <1>1, <1>3, SameFaithful, FilesKept DEF Truth

LEMMA DiskMissTrue ==
  ASSUME IInv, RequestsKnown, Truth, DiskLoadFails \/ DiskMiss PROVE Truth'
<1>1. disk' \subseteq disk
  BY DEF DiskLoadFails, DiskMiss, LoadBreaks, diskVars
<1> QED BY <1>1, StartColdTrue DEF DiskLoadFails, DiskMiss
-----------------------------------------------------------------------------
(* Synchronizing the session.                                              *)

LEMMA PrefillChunkTrue == ASSUME IInv, IInv', Truth, PrefillChunk PROVE Truth'
<1>1. pc \in {"sync", "rebuild"} /\ UNCHANGED <<bindings, jobVars>> /\ tokens' \in Texts
  BY DEF PrefillChunk, IInv
<1>2. FilesRestore'
  BY <1>1, ContinuedRestores, FilesKept DEF PrefillChunk, Truth, diskVars
<1>3. SyncTrue => SyncTrue'
  BY <1>1 DEF SyncTrue, ContinuesFrom, Api, bindings, jobVars, syncVars
<1>4. RebuildTrue => RebuildTrue'
  BY <1>1 DEF RebuildTrue, Tells, bindings, jobVars, syncVars
<1> QED BY <1>1, <1>2, <1>3, <1>4, SameFaithful DEF Truth, jobVars

\* A failure that leaves a binding on another session is noted.
LEMMA FailureNoted ==
  ASSUME SyncFails, "binding" \notin stale', UNCHANGED bindings
  PROVE  RestTrue'
<1>1. ~Misleads(tokens')
  BY DEF SyncFails
<1> QED BY <1>1 DEF Misleads, RestTrue, Describes, bindings

LEMMA PrefillFailsTrue ==
  ASSUME Truth, PrefillFails, "binding" \notin stale' PROVE Truth'
<1>1. UNCHANGED <<bindings, disk>> /\ Return /\ SyncFails
  BY DEF PrefillFails, diskVars
<1>2. BindingsFaithful' /\ FilesRestore'
  BY <1>1, SameFaithful, FilesKept DEF Truth
<1> QED BY <1>1, <1>2, FailureNoted, ReturnTrue

LEMMA TargetFacts ==
  ASSUME IInv, pc \in {"sync", "rebuild"}
  PROVE  /\ Len(Target) > 0 /\ Target \in Texts /\ eff \in Texts
         /\ goal = Len(eff) => Target = eff
<1>1. eff \in Texts /\ goal \in 1..Len(eff) /\ Len(eff) \in Nat
  BY DEF IInv, PromptOK, Texts
<1>2. Target \in Texts /\ Len(Target) = goal
  BY <1>1, PrefixCut DEF Target
<1>3. goal = Len(eff) => Target = eff
  BY <1>1, SubSeqFull DEF Target, Texts
<1> QED BY <1>1, <1>2, <1>3

LEMMA ColdPrefixDoneTrue == ASSUME IInv, Truth, ColdPrefixDone PROVE Truth'
<1>1. pc = "sync" /\ pc' = "sync" /\ UNCHANGED <<bindings, job, eff, source>>
      /\ StoredAndNoted(Target)
  BY DEF ColdPrefixDone
<1>2. FilesRestore'
  BY <1>1, TargetFacts, NotedRestores DEF Truth
<1>3. SyncTrue'
  BY <1>1 DEF Truth, SyncTrue, ContinuesFrom, Api, bindings
<1> QED BY <1>1, <1>2, <1>3, SameFaithful DEF Truth

LEMMA PrefillDoneTrue == ASSUME IInv, Truth, PrefillDone PROVE Truth'
<1>1. /\ pc = "sync" /\ pc' = "decode" /\ goal = Len(eff) /\ tokens' = Target
      /\ UNCHANGED <<job, eff, source>>
      /\ responses' = IF ContinuesFrom("responses") THEN responses ELSE NoBinding
      /\ anthropic' = IF ContinuesFrom("anthropic") THEN anthropic ELSE NoBinding
      /\ thinking'  = IF ContinuesFrom("thinking")  THEN thinking  ELSE NoBinding
  BY DEF PrefillDone, SyncDone, syncVars
<1>2. SyncTrue /\ BindingsFaithful /\ FilesRestore
  BY <1>1 DEF Truth
<1>3. tokens' = eff /\ eff \in Texts /\ Len(eff) > 0
  BY <1>1, TargetFacts
<1>4. FilesRestore'
  BY <1>2, <1>3, ContinuedRestores, NotedRestores DEF PrefillDone
<1>5. BindingsFaithful'
  BY <1>1, <1>2, NothingBoundTrue DEF BindingsFaithful, Faithful
<1>6. \E thought \in Texts : AllHidden(thought) /\ tokens' = eff' \o thought
  <2>1. <<>> \in Texts /\ AllHidden(<<>>) /\ eff \o <<>> = eff
    BY <1>3, EmptySeq, ConcatEmptySeq DEF Texts, AllHidden
  <2> QED BY <1>1, <1>3, <2>1
<1>7. DecodeTrue'
  <2>1. ~NoBinding.valid
    BY NothingBoundTrue
  <2> QED BY <1>1, <1>2, <1>6, <2>1 DEF DecodeTrue, SyncTrue, OwnBindings, Api
<1> QED BY <1>1, <1>4, <1>5, <1>7 DEF Truth

-----------------------------------------------------------------------------
(* Decoding.                                                               *)

LEMMA DecodeReasoningTrue == ASSUME IInv, RequestsKnown, Truth, DecodeReasoning PROVE Truth'
<1> DEFINE x == Token(job.conv, job.n + 1, "hidden")
<1>1. /\ pc = "decode" /\ tokens' = Append(tokens, x) /\ UNCHANGED <<bindings, jobVars>>
      /\ Continued(tokens, valid)
  BY DEF DecodeReasoning
<1>2. DecodeTrue /\ BindingsFaithful /\ FilesRestore /\ tokens \in Texts /\ eff \in Texts
  BY <1>1 DEF Truth, IInv, PromptOK
<1>3. x \in Message /\ x.kind = "hidden"
  <2>1. job.conv \in Conv /\ job.n + 1 \in Nat
    BY <1>1, JobKnown
  <2> QED BY <2>1, TokenType DEF Kinds, Token
<1>4. PICK thought \in Texts : AllHidden(thought) /\ tokens = eff \o thought
  BY <1>2 DEF DecodeTrue
<1> HIDE DEF x
<1>5. tokens' = eff \o Append(thought, x) /\ Append(thought, x) \in Texts
  BY <1>1, <1>2, <1>3, <1>4, AppendToConcat, PrefixAppend
<1>6. AllHidden(Append(thought, x))
  <2>1. \A i \in 1..(Len(thought) + 1) : i \in 1..Len(thought) \/ i = Len(thought) + 1
    BY <1>4 DEF Texts
  <2> QED BY <1>3, <1>4, <2>1, LastOfAppend DEF AllHidden
<1>7. eff' = eff /\ UNCHANGED <<responses, anthropic, thinking, job>>
  BY <1>1 DEF jobVars, syncVars, bindings
<1>8. DecodeTrue'
  BY <1>2, <1>5, <1>6, <1>7 DEF DecodeTrue, OwnBindings, Api
<1>9. pc' = "decode" /\ FilesRestore' /\ BindingsFaithful'
  BY <1>1, <1>2, ContinuedRestores, SameFaithful DEF jobVars
<1> QED BY <1>8, <1>9 DEF Truth

\* The message that ends the turn is the next of the transcript.
LEMMA SampledShows ==
  ASSUME IInv, RequestsKnown, pc = "decode", DecodeTrue, NEW k \in {"visible", "sampled"}
  PROVE  LET t == Append(tokens, Token(job.conv, job.n + 1, k))
         IN /\ Visible(t) = Transcript(job.conv, job.n + 1) /\ Len(t) = pos + 1 /\ pos \in Nat
            /\ \A i \in Len(eff) + 1 .. Len(t) - 1 : t[i].kind = "hidden"
<1> DEFINE x == Token(job.conv, job.n + 1, k)
           y == Token(job.conv, job.n + 1, "visible")
           t == Append(tokens, x)
<1>1. job.conv \in Conv /\ job.n \in Nat /\ job.n + 1 \in Nat
  BY JobKnown
<1>2. x \in Message /\ y \in Message
  BY <1>1, TokenType DEF Kinds
<1>3. Shown(x) = <<y>>
  BY DEF Shown, Token
<1>4. tokens \in Texts /\ eff \in Texts
  BY DEF IInv, PromptOK
<1>5. PICK thought \in Texts : AllHidden(thought) /\ tokens = eff \o thought
  BY DEF DecodeTrue
<1>6. Visible(tokens) = Transcript(job.conv, job.n)
  <2>1. Visible(tokens) = Visible(eff) \o <<>>
    <3>1. Visible(eff \o thought) = Visible(eff) \o Visible(thought)
      BY <1>4, <1>5, VisibleConcat, Zenon
    <3>2. Visible(thought) = <<>>
      BY <1>5, HiddenShowsNothing, Zenon
    <3> QED BY <1>5, <3>1, <3>2, Zenon
  <2>2. Visible(eff) \o <<>> = Visible(eff)
    BY <1>4, VisibleType, ConcatEmptySeq DEF Texts
  <2> QED BY <2>1, <2>2 DEF DecodeTrue
<1>7. Visible(t) = Transcript(job.conv, job.n) \o <<y>>
  BY <1>2, <1>3, <1>4, <1>6, VisibleAppend
<1>8. Transcript(job.conv, job.n) \o <<y>> = Transcript(job.conv, job.n + 1)
  BY <1>1, <1>2, TranscriptType, TranscriptGrows, AppendIsConcat DEF Texts
<1> HIDE DEF x, y
<1>9. Len(t) = pos + 1 /\ pos \in Nat /\ \A i \in 1..pos : t[i] = tokens[i]
  BY <1>2, <1>4, LastOfAppend DEF pos
<1>10. ASSUME NEW i \in Len(eff) + 1 .. pos PROVE tokens[i].kind = "hidden"
  <2>1. /\ Len(eff) \in Nat /\ Len(thought) \in Nat /\ pos = Len(eff) + Len(thought)
    BY <1>4, <1>5 DEF Texts, pos
  <2>2. i - Len(eff) \in 1..Len(thought) /\ i \in 1..(Len(eff) + Len(thought)) /\ ~(i <= Len(eff))
    BY <2>1
  <2>3. tokens[i] = thought[i - Len(eff)]
    BY <1>4, <1>5, <2>2, ConcatProperties DEF Texts
  <2> QED BY <1>5, <2>2, <2>3 DEF AllHidden
<1>11. \A i \in Len(eff) + 1 .. Len(t) - 1 : t[i].kind = "hidden"
  <2> TAKE i \in Len(eff) + 1 .. Len(t) - 1
  <2>1. Len(eff) \in Nat
    BY <1>4 DEF Texts
  <2>2. i \in Len(eff) + 1 .. pos /\ i \in 1..pos
    BY <1>9, <2>1
  <2> HIDE DEF t
  <2> QED BY <1>9, <1>10, <2>2
<1> QED BY <1>7, <1>8, <1>9, <1>11 DEF x

LEMMA DecodeEndTrue ==
  ASSUME IInv, RequestsKnown, Truth, NEW why \in {"stop", "length", "tool_calls", "error"},
         DecodeEnd(why)
  PROVE  Truth'
<1>1. /\ pc = "decode" /\ pc' = "finish" /\ finish' = why /\ UNCHANGED <<bindings, job, eff>>
      /\ Continued(tokens, valid)
  BY DEF DecodeEnd, syncVars
<1>2. DecodeTrue /\ BindingsFaithful /\ FilesRestore /\ tokens \in Texts
  BY <1>1 DEF Truth, IInv
<1>3. FilesRestore' /\ BindingsFaithful' /\ OwnBindings'
  <2>1. OwnBindings'
    BY <1>1, <1>2 DEF DecodeTrue, OwnBindings, Api, bindings
  <2> QED BY <1>1, <1>2, <2>1, ContinuedRestores, SameFaithful
<1>4. CASE \E k \in {"visible", "sampled"} :
             tokens' = Append(tokens, Token(job.conv, job.n + 1, k))
  <2>1. /\ Visible(tokens') = Transcript(job.conv, job.n + 1) /\ Len(tokens') > 0
        /\ \A i \in Len(eff) + 1 .. Len(tokens') - 1 : tokens'[i].kind = "hidden"
    BY <1>1, <1>2, <1>4, SampledShows
  <2>2. FinishTrue'
    BY <1>1, <1>3, <2>1 DEF FinishTrue, pos
  <2> QED BY <1>1, <1>3, <2>2 DEF Truth
<1>5. CASE why = "stop" /\ tokens' = <<>>
  <2>1. ~(pos' > 0) /\ CallId' = None
    BY <1>1, <1>5 DEF pos, CallId
  <2>2. FinishTrue'
    BY <1>3, <2>1 DEF FinishTrue
  <2> QED BY <1>1, <1>3, <2>2 DEF Truth
<1>6. CASE why \in {"length", "error"}
  <2>1. ~Ok' /\ CallId' = None
    BY <1>1, <1>6 DEF Ok, CallId
  <2>2. FinishTrue'
    BY <1>3, <2>1 DEF FinishTrue
  <2> QED BY <1>1, <1>3, <2>2 DEF Truth
<1>7. ToolSpellings \subseteq {"visible", "sampled"}
  BY DEF ToolSpellings
<1> QED BY <1>4, <1>5, <1>6, <1>7 DEF DecodeEnd, Sample

\* The bindings that are left are behind what the session holds now.
LEMMA ClientGoneTrue == ASSUME IInv, Truth, ClientGone PROVE Truth'
<1>1. /\ pc = "decode" /\ tokens = eff /\ Return
      /\ UNCHANGED <<bindings, disk, tokens>>
  BY DEF ClientGone, sessionVars, diskVars
<1>2. DecodeTrue /\ BindingsFaithful /\ FilesRestore /\ Len(eff) \in Nat
  BY <1>1 DEF Truth, IInv, PromptOK, Texts
<1>3. RestTrue
  BY <1>1, <1>2 DEF DecodeTrue, RestTrue, Describes
<1> QED BY <1>1, <1>2, <1>3, SameFaithful, FilesKept, SameRest, ReturnTrue

-----------------------------------------------------------------------------
(* After the decode loop.                                                  *)

\* A text remembered behind a tool output alone begins at no first message.
LEMMA VisibleAfterShows ==
  ASSUME IInv, RequestsKnown, pc = "finish"
  PROVE  /\ VisibleAfter \in Texts /\ Len(VisibleAfter) > 0
         /\ Begins(VisibleAfter) => /\ Plain(VisibleAfter)
                                    /\ VisibleAfter = Transcript(job.conv, job.n + 1)
<1>1. /\ job.conv \in Conv /\ job.n \in Nat \ {0, 1} /\ job.n + 1 \in Nat /\ job.text \in Texts
      /\ Len(job.text) > 0 /\ Known(job)
  BY JobKnown
<1> DEFINE y == Token(job.conv, job.n + 1, "visible")
<1>2. y \in Message
  BY <1>1, TokenType DEF Kinds
<1>3. VisibleAfter \in Texts /\ Len(VisibleAfter) = Len(job.text) + 1
      /\ VisibleAfter[1] = job.text[1]
  <2>1. Len(job.text) \in Nat /\ 1 \in 1..Len(job.text)
    BY <1>1 DEF Texts
  <2> HIDE DEF y
  <2> QED BY <1>1, <1>2, <2>1, LastOfAppend, PrefixAppend DEF VisibleAfter, y
<1>4. CASE job.live
  <2>1. job.text[1].at = job.n
    BY <1>1, <1>4 DEF Known, Token
  <2>2. job.n # 1
    BY <1>1
  <2> QED BY <1>1, <1>3, <2>1, <2>2 DEF Begins, Texts
<1>5. CASE ~job.live
  <2>1. VisibleAfter = Transcript(job.conv, job.n + 1)
    BY <1>1, <1>5, JobKnown, TranscriptGrows DEF VisibleAfter
  <2> QED BY <1>1, <1>3, <2>1, TranscriptPlain DEF Texts
<1> QED BY <1>4, <1>5

\* What is bound at the end of a turn, if anything, is the session of the turn.
Bound(b) == b.valid => Ok /\ b.was = tokens /\ b.len = pos

LEMMA BindTrue ==
  ASSUME IInv, RequestsKnown, pc = "finish", FinishTrue, BindingsFaithful, Bind
  PROVE  /\ BindingsFaithful'
         /\ Bound(responses') /\ Bound(anthropic') /\ Bound(thinking')
<1>1. /\ VisibleAfter \in Texts
      /\ Begins(VisibleAfter) => /\ Plain(VisibleAfter)
                                 /\ VisibleAfter = Transcript(job.conv, job.n + 1)
  BY VisibleAfterShows
<1>2. tokens \in Texts /\ pos = Len(tokens) /\ ~Begins(<<>>)
  BY DEF IInv, pos, Begins
<1>3. ASSUME Ok, NEW text \in {VisibleAfter, <<>>}, NEW id \in {CallId, None}
      PROVE  Faithful(Remember(text, id)) /\ Bound(Remember(text, id))
  <2>1. pos > 0 => Visible(tokens) = Transcript(job.conv, job.n + 1)
    BY <1>3 DEF FinishTrue
  <2>2. id # None => id[1] = job.conv /\ id[2] = job.n + 1
    BY <1>3 DEF CallId
  <2>3. Begins(text) => Plain(text) /\ text = Transcript(job.conv, job.n + 1)
    BY <1>1, <1>2, <1>3
  <2>4. /\ Remember(text, id).was = tokens /\ Remember(text, id).len = pos
        /\ Remember(text, id).text = text /\ Remember(text, id).ids = id
    BY DEF Remember
  <2> HIDE DEF Begins
  <2> QED BY <1>2, <1>3, <2>1, <2>2, <2>3, <2>4 DEF Faithful, Bound
<1>4. CallId # None => Ok
  BY DEF CallId, Ok
<1>5. Faithful(NoBinding) /\ Bound(NoBinding)
  BY NothingBoundTrue DEF Bound
<1>6. Faithful(responses') /\ Bound(responses')
  <2>1. Api # "responses" => Faithful(responses) /\ Bound(responses)
    BY DEF BindingsFaithful, FinishTrue, OwnBindings, Bound
  <2> QED BY <1>3, <1>5, <2>1 DEF Bind
<1>7. Faithful(anthropic') /\ Bound(anthropic')
  <2>1. Api # "anthropic" => Faithful(anthropic) /\ Bound(anthropic)
    BY DEF BindingsFaithful, FinishTrue, OwnBindings, Bound
  <2> QED BY <1>3, <1>4, <1>5, <2>1 DEF Bind
<1>8. Faithful(thinking') /\ Bound(thinking')
  BY <1>3, <1>5 DEF Bind, RemembersThinking
<1>9. BindingsFaithful'
  BY <1>6, <1>7, <1>8 DEF BindingsFaithful, Faithful
<1> QED BY <1>6, <1>7, <1>8, <1>9

LEMMA FinishStepTrue == ASSUME IInv, RequestsKnown, Truth, Finish PROVE Truth'
<1>1. pc = "finish" /\ Bind /\ Return /\ UNCHANGED <<tokens, disk>>
  BY DEF Finish, diskVars
<1>2. FinishTrue /\ BindingsFaithful /\ FilesRestore
  BY <1>1 DEF Truth
<1>3. BindingsFaithful' /\ Bound(responses') /\ Bound(anthropic') /\ Bound(thinking')
  BY <1>1, <1>2, BindTrue
<1>4. RestTrue'
  BY <1>1, <1>3 DEF RestTrue, Describes, Bound
<1> QED BY <1>1, <1>2, <1>3, <1>4, FilesKept, ReturnTrue

\* What two texts share includes every prefix that they share.
\* What the session shares with a prompt is a beginning of both.
LEMMA CommonAgrees ==
  ASSUME tokens \in Texts, NEW p \in Texts
  PROVE  /\ SessionCommon(p) \in 0..pos /\ SessionCommon(p) <= Len(p)
         /\ SubSeq(tokens, 1, SessionCommon(p)) = SubSeq(p, 1, SessionCommon(p))
<1> DEFINE S == {k \in 0..pos : k <= Len(p) /\ SubSeq(tokens, 1, k) = SubSeq(p, 1, k)}
           C(k) == /\ k <= Len(p) /\ SubSeq(tokens, 1, k) = SubSeq(p, 1, k)
                   /\ k < pos /\ k < Len(p) => tokens[k + 1] # p[k + 1]
<1>1. pos \in Nat /\ Len(p) \in Nat /\ pos = Len(tokens)
  BY DEF Texts, pos
<1>2. SubSeq(tokens, 1, 0) = SubSeq(p, 1, 0)
  BY SubSeqEmpty
<1>3. 0 \in S
  BY <1>1, <1>2
<1>4. PICK m \in S : \A n \in S : n <= m
  <2>1. S \in SUBSET Nat /\ S # {} /\ \A n \in S : n <= pos
    BY <1>1, <1>3
  <2> HIDE DEF S
  <2> QED BY <1>1, <2>1, GreatestMember
<1>5. m \in 0..pos /\ m <= Len(p) /\ SubSeq(tokens, 1, m) = SubSeq(p, 1, m)
  BY <1>4
<1>6. m < pos /\ m < Len(p) => tokens[m + 1] # p[m + 1]
  <2> SUFFICES ASSUME m < pos, m < Len(p), tokens[m + 1] = p[m + 1] PROVE FALSE
    OBVIOUS
  <2>1. /\ 1 \in 1..Len(tokens) /\ m + 1 \in 1..Len(tokens) /\ (m + 1) - 1 = m
        /\ 1 \in 1..Len(p) /\ m + 1 \in 1..Len(p)
    BY <1>1, <1>5
  <2>2. SubSeq(tokens, 1, m + 1) = SubSeq(tokens, 1, m) \o <<tokens[m + 1]>>
    BY <2>1, SubSeqRecursiveSecond DEF Texts
  <2>3. SubSeq(p, 1, m + 1) = SubSeq(p, 1, m) \o <<p[m + 1]>>
    BY <2>1, SubSeqRecursiveSecond DEF Texts
  <2>4. m + 1 \in S
    BY <1>1, <1>5, <2>1, <2>2, <2>3
  <2>5. m + 1 <= m
    BY <1>4, <2>4
  <2> QED BY <1>5, <2>5
<1>7. CASE valid
  <2>1. SessionCommon(p) = CHOOSE k \in 0..pos : C(k)
    BY <1>7 DEF SessionCommon
  <2>2. \E k \in 0..pos : C(k)
    BY <1>5, <1>6
  <2>3. SessionCommon(p) \in 0..pos /\ C(SessionCommon(p))
    <3> HIDE DEF C
    <3> QED BY <2>1, <2>2
  <2> QED BY <2>3
<1>8. CASE ~valid
  BY <1>1, <1>2, <1>8 DEF SessionCommon
<1> QED BY <1>7, <1>8

LEMMA CommonStarts ==
  ASSUME tokens \in Texts, NEW p \in Texts, Len(p) > 0, SessionCommon(p) >= 1
  PROVE  Len(tokens) > 0 /\ tokens[1] = p[1]
<1> DEFINE n == SessionCommon(p)
<1>1. /\ n \in Nat /\ n >= 1 /\ n <= pos /\ n <= Len(p) /\ pos = Len(tokens)
      /\ SubSeq(tokens, 1, n) = SubSeq(p, 1, n) /\ Len(tokens) \in Nat /\ Len(p) \in Nat
  BY CommonAgrees DEF Texts, pos
<1> HIDE DEF n
<1>2. SubSeq(tokens, 1, n)[1] = tokens[1] /\ SubSeq(p, 1, n)[1] = p[1]
  BY <1>1 DEF Texts
<1> QED BY <1>1, <1>2

\* A rebuild has the whole transcript to go by: the answer to a tool output that
\* came alone shares nothing with the session.
LEMMA RebuiltIsWhole ==
  ASSUME IInv, RequestsKnown, pc = "finish", FinishTrue,
         NEW k \in CanonicalLengths, NeedsRebuild(k)
  PROVE  ~job.live
<1> SUFFICES ASSUME job.live PROVE FALSE
  OBVIOUS
<1> DEFINE x == Token(job.conv, job.n, "visible")
<1>1. /\ job.conv \in Conv /\ job.n \in Nat \ {0, 1} /\ job.n + 1 \in Nat /\ Known(job)
      /\ tokens \in Texts
  BY JobKnown DEF IInv
<1>2. x \in Message /\ <<x>> \in Texts /\ Len(<<x>>) = 1 /\ <<x>>[1] = x
  <2>1. x \in Message
    BY <1>1, TokenType DEF Kinds
  <2> HIDE DEF x
  <2> QED BY <2>1 DEF Texts
<1>3. job.text = <<x>>
  BY <1>1 DEF Known
<1>4. CallId # None /\ Ok /\ SessionCommon(Canonical(k)) >= 1
  <2>1. Len(job.text) = 1
    BY <1>2, <1>3
  <2> QED BY <2>1 DEF NeedsRebuild, Canonicalizes, CallId, Ok
<1>5. pos > 0 => Visible(tokens) = Transcript(job.conv, job.n + 1)
  BY <1>4 DEF FinishTrue
<1>6. Canonical(k) \in Texts /\ Len(Canonical(k)) > 0 /\ Canonical(k)[1] = x
  <2> DEFINE call == <<Token(job.conv, job.n + 1, "visible")>>
  <2>1. PICK mid \in Texts : Canonical(k) = <<x>> \o mid \o call
    BY <1>3, CanonicalType
  <2>2. call \in Texts
    BY <1>1, TokenType DEF Kinds, Texts
  <2> HIDE DEF call, x
  <2>4. <<x>> \o mid \in Texts /\ Len(<<x>> \o mid) = 1 + Len(mid) /\ Len(mid) \in Nat
        /\ (<<x>> \o mid)[1] = x
    BY <1>2, <2>1, ConcatProperties DEF Texts
  <2>5. ((<<x>> \o mid) \o call)[1] = (<<x>> \o mid)[1]
    BY <2>2, <2>4, ConcatProperties DEF Texts
  <2> QED BY <2>1, <2>4, <2>5, CanonicalType
<1>7. Len(tokens) > 0 /\ tokens[1] = x
  BY <1>1, <1>4, <1>6, CommonStarts
<1>8. IsPrefix(<<x>>, tokens)
  <2>1. Len(tokens) \in Nat /\ 1 \in 1..Len(tokens)
    BY <1>1, <1>7 DEF Texts
  <2>2. SubSeq(tokens, 1, 1) = <<tokens[1]>>
    <3>1. SubSeq(tokens, 1, 1) \in Texts /\ Len(SubSeq(tokens, 1, 1)) = 1
          /\ SubSeq(tokens, 1, 1)[1] = tokens[1]
      BY <1>1, <2>1, PrefixCut DEF Texts
    <3>2. <<x>> = SubSeq(tokens, 1, 1)
      <4>1. \A i \in 1..1 : <<x>>[i] = SubSeq(tokens, 1, 1)[i]
        BY <1>2, <1>7, <3>1
      <4> HIDE DEF x
      <4> QED BY <1>2, <3>1, <4>1, SeqEqual DEF Texts
    <3> QED BY <1>7, <3>2
  <2>3. SubSeq(<<x>>, 1, 1) = <<x>>
    BY <1>2, SubSeqFull DEF Texts
  <2> HIDE DEF x
  <2> QED BY <1>2, <1>7, <2>1, <2>2, <2>3 DEF IsPrefix
<1>9. Visible(tokens) = <<x>> \o Visible(Drop(tokens, 1))
  <2>1. tokens = <<x>> \o Drop(tokens, 1) /\ Drop(tokens, 1) \in Texts
    <3> HIDE DEF x
    <3>1. Len(<<x>>) = 1 /\ 1 \in Nat
      OBVIOUS
    <3>2. <<x>> \o Drop(tokens, Len(<<x>>)) = tokens
      BY <1>1, <1>2, <1>8, PrefixJoin
    <3>3. Drop(tokens, 1) \in Texts
      BY <1>1, <3>1, DropType
    <3> QED BY <3>1, <3>2, <3>3
  <2>2. Visible(<<x>>) = <<x>>
    <3>1. Plain(<<x>>)
      BY DEF Plain, Token
    <3> QED BY <1>2, <3>1, PlainShowsItself
  <2> QED BY <1>2, <2>1, <2>2, VisibleConcat
<1>10. Visible(tokens)[1] = x
  <2>1. Visible(Drop(tokens, 1)) \in Texts
    BY <1>1, DropType, VisibleType
  <2> HIDE DEF x
  <2> QED BY <1>2, <1>9, <2>1, ConcatProperties DEF Texts
<1>11. Transcript(job.conv, job.n + 1)[1].at = 1
  BY <1>1, TranscriptPlain DEF Begins
<1> QED BY <1>1, <1>5, <1>7, <1>10, <1>11 DEF Token, pos

LEMMA CanonicalShows ==
  ASSUME IInv, RequestsKnown, pc = "finish", FinishTrue,
         NEW k \in CanonicalLengths, NeedsRebuild(k)
  PROVE  /\ Canonical(k) \in Texts /\ Begins(Canonical(k))
         /\ Visible(Canonical(k)) = Transcript(job.conv, job.n + 1)
<1> DEFINE y == Token(job.conv, job.n + 1, "visible")
           t == Transcript(job.conv, job.n)
<1>1. /\ job.conv \in Conv /\ job.n \in Nat \ {0, 1} /\ job.n + 1 \in Nat
      /\ tokens \in Texts /\ job.text = t
  BY RebuiltIsWhole, JobKnown DEF IInv
<1>2. y \in Message /\ <<y>> \in Texts /\ Visible(<<y>>) = <<y>>
  <2>1. y \in Message /\ y.kind = "visible"
    BY <1>1, TokenType DEF Kinds, Token
  <2>2. <<y>> \in Texts
    <3> HIDE DEF y
    <3> QED BY <2>1 DEF Texts
  <2> HIDE DEF y
  <2>3. Plain(<<y>>)
    BY <2>1 DEF Plain
  <2> QED BY <2>1, <2>2, <2>3, PlainShowsItself
<1>3. t \in Texts /\ Len(t) > 0 /\ t[1].at = 1 /\ Visible(t) = t /\ Len(t) \in Nat
  <2>1. t \in Texts /\ Begins(t) /\ Visible(t) = t
    <3>1. job.n \in Nat
      BY <1>1
    <3> QED BY <1>1, <3>1, TranscriptType, TranscriptPlain
  <2> HIDE DEF t
  <2> QED BY <2>1 DEF Begins, Texts
<1>4. PICK mid \in Texts : /\ \A i \in 1..Len(mid) : mid[i].kind = "hidden"
                           /\ Canonical(k) = t \o mid \o <<y>>
  BY <1>1, CanonicalType
<1>5. AllHidden(mid)
  BY <1>4 DEF AllHidden
<1>6. Canonical(k) = (t \o mid) \o <<y>>
  BY <1>4
<1> HIDE DEF t, y
<1>7. t \o mid \in Texts /\ Visible(t \o mid) = t \o <<>> /\ t \o <<>> = t
  <2>1. t \o mid \in Texts
    BY <1>3, <1>5, PrefixConcat
  <2>2. Visible(t \o mid) = Visible(t) \o Visible(mid)
    BY <1>3, <1>5, VisibleConcat
  <2>3. Visible(mid) = <<>>
    BY <1>5, HiddenShowsNothing
  <2>4. t \o <<>> = t
    BY <1>3, ConcatEmptySeq DEF Texts
  <2> QED BY <1>3, <2>1, <2>2, <2>3, <2>4
<1>8. Visible(Canonical(k)) = t \o <<y>>
  BY <1>2, <1>6, <1>7, VisibleConcat
<1>9. t \o <<y>> = Transcript(job.conv, job.n + 1)
  BY <1>1, <1>2, <1>3, TranscriptGrows, AppendIsConcat DEF Texts, t, y
<1>10. Begins(Canonical(k))
  <2>1. /\ Len(mid) \in Nat /\ Len(t \o mid) = Len(t) + Len(mid) /\ (t \o mid)[1] = t[1]
        /\ Len(<<y>>) = 1
    BY <1>3, <1>5, ConcatProperties DEF Texts
  <2>2. Len((t \o mid) \o <<y>>) = Len(t) + Len(mid) + 1 /\ ((t \o mid) \o <<y>>)[1] = (t \o mid)[1]
    BY <1>2, <1>3, <1>7, <2>1, ConcatProperties DEF Texts
  <2> QED BY <1>3, <1>6, <2>1, <2>2 DEF Begins
<1> QED BY <1>8, <1>9, <1>10, CanonicalType

LEMMA BeginRebuildTrue == ASSUME IInv, RequestsKnown, Truth, BeginRebuild PROVE Truth'
<1>1. pc = "finish" /\ pc' = "rebuild" /\ Bind /\ UNCHANGED job
  BY DEF BeginRebuild
<1>2. FinishTrue /\ BindingsFaithful /\ FilesRestore
  BY <1>1 DEF Truth
<1>3. BindingsFaithful' /\ Bound(responses') /\ Bound(anthropic') /\ Bound(thinking')
  BY <1>1, <1>2, BindTrue
<1>4. PICK k \in CanonicalLengths :
        NeedsRebuild(k) /\ (FromFile(Canonical(k)) \/ Anew(Canonical(k)))
  BY RebuildBegins
<1> DEFINE c == Canonical(k)
<1>5. c \in Texts /\ Begins(c) /\ Visible(c) = Transcript(job.conv, job.n + 1)
  BY <1>1, <1>2, <1>4, CanonicalShows
<1>6. FromFile(c) \/ Anew(c)
  BY <1>4
<1> HIDE DEF c
<1>7. Visible(eff') = Transcript(job.conv, job.n + 1) /\ goal' = Len(eff') /\ FilesRestore'
  <2>1. CASE FromFile(c)
    BY <1>2, <1>5, <2>1, LoadShows DEF FromFile
  <2>2. CASE Anew(c)
    <3>1. disk' \subseteq disk
      BY <2>2 DEF Anew, LoadBreaks
    <3> QED BY <1>2, <1>5, <2>2, <3>1, FilesKept DEF Anew
  <2> QED BY <1>6, <2>1, <2>2
<1>8. pos > 0 /\ Ok => Visible(tokens) = Transcript(job.conv, job.n + 1)
  BY <1>2 DEF FinishTrue
<1>9. RebuildTrue'
  BY <1>1, <1>3, <1>7, <1>8 DEF RebuildTrue, Tells, Bound
<1> QED BY <1>1, <1>3, <1>7, <1>9 DEF Truth

LEMMA EndRebuildTrue ==
  ASSUME IInv, Truth, EndRebuild, "binding" \notin stale' PROVE Truth'
<1>1. pc = "rebuild" /\ Return /\ UNCHANGED <<bindings, disk>> /\ (SyncDone \/ SyncFails)
  BY DEF EndRebuild, diskVars
<1>2. RebuildTrue /\ BindingsFaithful' /\ FilesRestore'
  BY <1>1, SameFaithful, FilesKept DEF Truth
<1>3. CASE SyncDone
  <2>1. Visible(tokens') = Transcript(job.conv, job.n + 1)
    BY <1>1, <1>2, <1>3, TargetFacts DEF SyncDone, RebuildTrue
  <2>2. RestTrue'
    BY <1>1, <1>2, <2>1 DEF RestTrue, Describes, RebuildTrue, Tells, bindings
  <2> QED BY <1>1, <1>2, <2>2, ReturnTrue
<1>4. CASE SyncFails
  BY <1>1, <1>2, <1>4, FailureNoted, ReturnTrue
<1> QED BY <1>1, <1>3, <1>4

LEMMA RestartTrue == ASSUME IInv, Truth, Restart PROVE Truth'
<1>1. /\ responses' = NoBinding /\ anthropic' = NoBinding /\ thinking' = NoBinding
      /\ Return /\ (disk' = disk \/ (pc = "idle" /\ StoreCurrent(disk, disk')))
  BY DEF Restart
<1>2. BindingsFaithful' /\ RestTrue'
  BY <1>1, NothingBoundTrue DEF BindingsFaithful, Faithful, RestTrue, Describes
<1>3. FilesRestore'
  BY <1>1, FilesKept, StoreCurrentRestores DEF Truth
<1> QED BY <1>1, <1>2, <1>3, ReturnTrue
-----------------------------------------------------------------------------
LEMMA EvidenceInit == Init => EvidenceInv
<1> SUFFICES ASSUME Init PROVE EvidenceInv
  OBVIOUS
<1>1. BindingsFaithful /\ RestTrue
  BY NothingBoundTrue DEF Init, BindingsFaithful, RestTrue
<1>2. RequestsKnown
  BY DEF Init, RequestsKnown
<1> QED BY <1>1, <1>2 DEF Init, EvidenceInv, Truth, FilesRestore

LEMMA StaleStays == ASSUME [Next]_vars, "binding" \notin stale' PROVE "binding" \notin stale
<1>1. stale' = stale \/ stale' = stale \ {"schedule"} \/ stale \subseteq stale'
  BY DEF Next, vars, SendReplay, SendToolOutput, Begin, Refuse, LiveHit, LiveMiss, DiskHit,
         DiskLoadFails, DiskMiss, StartCold, PrefillChunk, PrefillFails, SyncFails,
         ColdPrefixDone, PrefillDone, ClientGone, DecodeReasoning, DecodeEnd, Finish,
         BeginRebuild, EndRebuild, Restart
<1> QED BY <1>1

LEMMA EvidenceNext == IInv /\ EvidenceInv /\ [Next]_vars => EvidenceInv'
<1> SUFFICES ASSUME IInv, EvidenceInv, [Next]_vars PROVE EvidenceInv'
  OBVIOUS
<1>1. RequestsKnown /\ RequestsKnown' /\ IInv'
  BY RequestsStep, IInvNext DEF EvidenceInv
<1> SUFFICES ASSUME "binding" \notin stale' PROVE Truth'
  BY <1>1 DEF EvidenceInv
<1>2. Truth
  BY StaleStays DEF EvidenceInv
<1>3. CASE \E c \in Conv : SendReplay(c) \/ SendToolOutput(c)
  BY <1>2, <1>3, ClientTrue DEF SendReplay, SendToolOutput, diskVars
<1>4. CASE Begin \/ Refuse \/ LiveHit \/ LiveMiss \/ DiskHit \/ DiskLoadFails \/ DiskMiss
  BY <1>1, <1>2, <1>4, BeginTrue, RefuseTrue, LiveHitTrue, LiveMissTrue, DiskHitTrue, DiskMissTrue
<1>5. CASE PrefillChunk \/ PrefillFails \/ ColdPrefixDone \/ PrefillDone
  BY <1>1, <1>2, <1>5, PrefillChunkTrue, PrefillFailsTrue, ColdPrefixDoneTrue, PrefillDoneTrue
<1>6. CASE \/ ClientGone \/ DecodeReasoning
           \/ \E why \in {"stop", "length", "tool_calls", "error"} : DecodeEnd(why)
  BY <1>1, <1>2, <1>6, ClientGoneTrue, DecodeReasoningTrue, DecodeEndTrue
<1>7. CASE Finish \/ BeginRebuild \/ EndRebuild \/ Restart
  BY <1>1, <1>2, <1>7, FinishStepTrue, BeginRebuildTrue, EndRebuildTrue, RestartTrue
<1>8. CASE UNCHANGED vars
  BY <1>2, <1>8, ClientTrue DEF vars, diskVars
<1> QED BY <1>3, <1>4, <1>5, <1>6, <1>7, <1>8 DEF Next

LEMMA EvidenceAlways == Spec => [](IInv /\ EvidenceInv)
BY IInvInit, IInvNext, EvidenceInit, EvidenceNext, PTL DEF Spec

\* Whatever candidate a request was continued from, the session it is answered
\* from shows the transcript of its client and nothing else (generate_job), as
\* long as no failed request has left a binding that fits another session.
THEOREM AnswersFollowOwnTranscript == Spec => []AnsweredFromOwnTranscript
<1>1. IInv /\ EvidenceInv => AnsweredFromOwnTranscript
  BY DEF EvidenceInv, Truth, DecodeTrue, AnsweredFromOwnTranscript, ReadOwnTranscript
<1> QED BY <1>1, EvidenceAlways, PTL

\* Between two jobs and when a request is looked up, a binding with the length of
\* the session was remembered for what the session shows (responses_live,
\* anthropic_live, thinking_live), under the same condition.
THEOREM LengthIsEvidence == Spec => []BindingsDescribeSession
<1>1. IInv /\ EvidenceInv => BindingsDescribeSession
  BY RestIsNotMisled DEF EvidenceInv, Truth, BindingsDescribeSession
<1> QED BY <1>1, EvidenceAlways, PTL

\* Every KV file restores a session that shows the text in its key, through
\* stores at a frontier, at a cold boundary, on eviction and at shutdown, loads,
\* consumption and restarts (kv_cache_store_live_prefix_text).
THEOREM FilesRestoreTheirKeys == Spec => []KeyDescribesPayload
<1>1. IInv /\ EvidenceInv => KeyDescribesPayload
  BY DEF EvidenceInv, Truth, FilesRestore, Restores, Begins, KeyDescribesPayload
<1> QED BY <1>1, EvidenceAlways, PTL

-----------------------------------------------------------------------------
(* Hidden reasoning is kept, whatever failed before.                       *)

\* The session ends in the message n of c, as it was sampled.
EndsIn(s, c, n) ==
  s = <<>> \/ \E t \in Texts, k \in {"visible", "sampled"} : s = Append(t, Token(c, n, k))

\* A binding with a text was remembered at the end of the turn it tells of.
OfTurn(b) ==
  b.valid => /\ b.was \in Texts /\ b.len = Len(b.was) /\ Len(b.text) > 0
             /\ Begins(b.text) => \E c \in Conv, n \in Nat \ {0, 1} :
                                     b.text = Transcript(c, n) /\ EndsIn(b.was, c, n)

TurnsInv ==
  /\ OfTurn(responses) /\ OfTurn(thinking)
  /\ pc = "finish" /\ Ok => EndsIn(tokens, job.conv, job.n + 1)

LEMMA BindOfTurn ==
  ASSUME IInv, RequestsKnown, TurnsInv, pc = "finish", Bind
  PROVE  OfTurn(responses') /\ OfTurn(thinking')
<1>1. /\ VisibleAfter \in Texts /\ Len(VisibleAfter) > 0
      /\ Begins(VisibleAfter) => VisibleAfter = Transcript(job.conv, job.n + 1)
  BY VisibleAfterShows
<1>2. job.conv \in Conv /\ job.n + 1 \in Nat \ {0, 1} /\ tokens \in Texts /\ pos = Len(tokens)
  BY JobKnown DEF IInv, pos
<1>3. ASSUME Ok, NEW id PROVE OfTurn(Remember(VisibleAfter, id))
  <2>1. EndsIn(tokens, job.conv, job.n + 1)
    BY <1>3 DEF TurnsInv
  <2> QED BY <1>1, <1>2, <2>1 DEF OfTurn, Remember
<1>4. OfTurn(NoBinding)
  BY DEF OfTurn, NoBinding
<1> QED BY <1>3, <1>4 DEF Bind, RemembersThinking, TurnsInv

LEMMA TurnsNext ==
  ASSUME IInv, RequestsKnown, TurnsInv, [Next]_vars PROVE TurnsInv'
<1>1. OfTurn(NoBinding)
  BY DEF OfTurn, NoBinding
<1>2. CASE OfTurn(responses') /\ OfTurn(thinking') /\ pc' # "finish"
  BY <1>2 DEF TurnsInv, OfTurn
<1>3. CASE UNCHANGED <<bindings, pc, job, finish, tokens>>
  BY <1>3 DEF TurnsInv, OfTurn, EndsIn, bindings, Ok
<1>4. OfTurn(responses) /\ OfTurn(thinking)
  BY DEF TurnsInv
<1>5. CASE \E c \in Conv : SendReplay(c) \/ SendToolOutput(c)
  BY <1>3, <1>5 DEF SendReplay, SendToolOutput, jobVars, sessionVars
<1>6. CASE Begin \/ Refuse \/ LiveHit \/ LiveMiss \/ DiskHit \/ DiskLoadFails \/ DiskMiss
  <2>1. UNCHANGED bindings /\ pc' # "finish"
    BY <1>6 DEF Begin, Refuse, LiveHit, LiveMiss, DiskHit, DiskLoadFails, DiskMiss, StartCold,
                Return
  <2> QED BY <1>2, <1>4, <2>1 DEF bindings
<1>7. CASE PrefillChunk \/ PrefillFails \/ ColdPrefixDone \/ ClientGone \/ DecodeReasoning
           \/ EndRebuild
  <2>1. UNCHANGED bindings /\ pc' # "finish"
    BY <1>7 DEF PrefillChunk, PrefillFails, ColdPrefixDone, ClientGone, DecodeReasoning,
                EndRebuild, Return, jobVars
  <2> QED BY <1>2, <1>4, <2>1 DEF bindings
<1>8. CASE PrefillDone
  BY <1>1, <1>2, <1>4, <1>8 DEF PrefillDone
<1>9. CASE Restart
  BY <1>1, <1>2, <1>9 DEF Restart, Return
<1>10. CASE Finish \/ BeginRebuild
  <2>1. OfTurn(responses') /\ OfTurn(thinking') /\ pc' # "finish"
    BY <1>10, BindOfTurn DEF Finish, BeginRebuild, Return
  <2> QED BY <1>2, <2>1
<1>11. ASSUME NEW why \in {"stop", "length", "tool_calls", "error"}, DecodeEnd(why)
       PROVE  TurnsInv'
  <2>1. UNCHANGED <<bindings, job>> /\ finish' = why /\ tokens \in Texts
    BY <1>11 DEF DecodeEnd, IInv
  <2>2. OfTurn(responses)' /\ OfTurn(thinking)'
    BY <1>4, <2>1 DEF OfTurn, bindings
  <2>3. why \in {"stop", "tool_calls"} => EndsIn(tokens', job.conv, job.n + 1)
    <3>1. ASSUME NEW k \in {"visible", "sampled"}, Sample(k)
          PROVE  EndsIn(tokens', job.conv, job.n + 1)
      BY <2>1, <3>1 DEF Sample, EndsIn
    <3>2. ToolSpellings \subseteq {"visible", "sampled"}
      BY DEF ToolSpellings
    <3>3. EndsIn(<<>>, job.conv, job.n + 1)
      BY DEF EndsIn
    <3> QED BY <1>11, <3>1, <3>2, <3>3 DEF DecodeEnd
  <2>4. (EndsIn(tokens, job.conv, job.n + 1))' <=> EndsIn(tokens', job.conv, job.n + 1)
    BY <2>1 DEF EndsIn
  <2> QED BY <2>1, <2>2, <2>3, <2>4 DEF TurnsInv, Ok
<1>12. CASE UNCHANGED vars
  BY <1>3, <1>12 DEF vars, jobVars, sessionVars
<1> QED BY <1>5, <1>6, <1>7, <1>8, <1>9, <1>10, <1>11, <1>12 DEF Next

\* A session that ends in message n of c and shows the beginning of some
\* transcript shows that of c up to n.
LEMMA EndTellsTranscript ==
  ASSUME NEW s \in Texts, Len(s) > 0, NEW c \in Conv, NEW n \in Nat \ {0, 1}, EndsIn(s, c, n),
         NEW d \in Conv, NEW m \in Nat, IsPrefix(Visible(s), Transcript(d, m))
  PROVE  Visible(s) = Transcript(c, n)
<1>1. PICK t \in Texts, k \in {"visible", "sampled"} : s = Append(t, Token(c, n, k))
  BY DEF EndsIn
<1> DEFINE x == Token(c, n, k)
           y == Token(c, n, "visible")
           v == Visible(s)
           l == Len(v)
           T == Transcript(d, m)
<1>2. x \in Message /\ y \in Message /\ Shown(x) = <<y>>
  <2>1. x \in Message /\ y \in Message
    BY TokenType DEF Kinds
  <2>2. Shown(x) = <<y>>
    BY DEF Shown, Token
  <2> QED BY <2>1, <2>2
<1>3. v = Visible(t) \o <<y>> /\ Visible(t) \in Texts
  BY <1>1, <1>2, VisibleAppend, VisibleType
<1>4. v = Append(Visible(t), y) /\ v \in Texts
  BY <1>2, <1>3, AppendIsConcat, PrefixAppend DEF Texts
<1> HIDE DEF x, y
<1>5. l \in Nat \ {0} /\ v[l] = y
  <2> HIDE DEF v
  <2> QED BY <1>2, <1>3, <1>4, LastOfAppend
<1>6. /\ T \in Texts /\ Len(T) = m /\ l <= m /\ SubSeq(v, 1, l) = SubSeq(T, 1, l)
  BY TranscriptType DEF IsPrefix
<1>7. \A i \in 1..l : v[i] = Token(d, i, "visible")
  <2> TAKE i \in 1..l
  <2>1. i \in 1..m /\ SubSeq(v, 1, l)[i] = v[i] /\ SubSeq(T, 1, l)[i] = T[i]
    <3> HIDE DEF v, T
    <3> QED BY <1>4, <1>5, <1>6 DEF Texts
  <2>2. T[i] = Token(d, i, "visible")
    BY <2>1 DEF Transcript
  <2> HIDE DEF v, T
  <2> QED BY <1>6, <2>1, <2>2
<1>8. Token(d, l, "visible") = y
  <2>1. l \in 1..l
    BY <1>5
  <2> HIDE DEF v, l
  <2> QED BY <1>5, <1>7, <2>1
<1>9. l = n /\ d = c
  <2>1. Token(d, l, "visible").at = l /\ Token(c, n, "visible").at = n
    BY DEF Token
  <2>2. l = n
    BY <1>8, <2>1 DEF y
  <2>3. Token(d, n, "visible").of = d /\ Token(c, n, "visible").of = c
    BY DEF Token
  <2> HIDE DEF l
  <2> QED BY <1>8, <2>2, <2>3 DEF y
<1>10. Transcript(c, n) \in Texts /\ Len(Transcript(c, n)) = n
       /\ \A i \in 1..n : Transcript(c, n)[i] = Token(c, i, "visible")
  BY TranscriptType DEF Transcript
<1>11. \A i \in 1..n : v[i] = Transcript(c, n)[i]
  <2> HIDE DEF v
  <2> QED BY <1>7, <1>9, <1>10
<1>12. Len(v) = n
  BY <1>9
<1>13. v = Transcript(c, n)
  <2> HIDE DEF v
  <2> QED BY <1>4, <1>10, <1>11, <1>12, SeqEqual DEF Texts
<1> QED BY <1>13

LEMMA OnlyMissDrops == ASSUME [Next]_vars, Dropped PROVE LiveMiss
<1>1. pc = "lookup" /\ pc' = "load"
  BY DEF Dropped
<1>2. ~ \E c \in Conv : SendReplay(c) \/ SendToolOutput(c)
  BY <1>1 DEF SendReplay, SendToolOutput, jobVars
<1>3. ~(Begin \/ Refuse \/ LiveHit \/ DiskHit \/ DiskLoadFails \/ DiskMiss)
  BY <1>1 DEF Begin, Refuse, LiveHit, DiskHit, DiskLoadFails, DiskMiss, Return
<1>4. ~(PrefillChunk \/ PrefillFails \/ ColdPrefixDone \/ PrefillDone \/ ClientGone
        \/ DecodeReasoning \/ Finish \/ BeginRebuild \/ EndRebuild)
  BY <1>1 DEF PrefillChunk, PrefillFails, ColdPrefixDone, PrefillDone, ClientGone,
              DecodeReasoning, Finish, BeginRebuild, EndRebuild
<1>5. ~ \E why \in {"stop", "length", "tool_calls", "error"} : DecodeEnd(why)
  BY <1>1 DEF DecodeEnd
<1>6. ~Restart /\ ~UNCHANGED vars
  BY <1>1 DEF Restart, Return, vars, jobVars
<1> QED BY <1>2, <1>3, <1>4, <1>5, <1>6 DEF Next

LEMMA MissKeepsReasoning ==
  ASSUME IInv, RequestsKnown, TurnsInv, LiveMiss, Continues(Evidence)
  PROVE  Evidence.text # <<>> /\ Evidence.text[1].at # 1
<1> DEFINE b == Evidence
<1>1. pc = "lookup" /\ Winner.source = "none"
  BY DEF LiveMiss
<1>2. /\ b.valid /\ b.was = tokens /\ pos > 0
      /\ Len(Visible(tokens)) < Len(job.text) /\ IsPrefix(Visible(tokens), job.text)
  BY DEF Continues
<1>3. OfTurn(b)
  BY DEF TurnsInv, Evidence
<1>4. b.text # <<>> /\ Len(b.text) > 0 /\ b.len = pos /\ tokens \in Texts
  BY <1>2, <1>3 DEF OfTurn, pos, IInv
<1>5. job.text = Transcript(job.conv, job.n) /\ job.conv \in Conv /\ job.n \in Nat
  BY <1>1, JobKnown, NoWinner
<1>6. ~Begins(b.text)
  <2> SUFFICES ASSUME Begins(b.text) PROVE FALSE
    OBVIOUS
  <2>1. PICK c \in Conv, n \in Nat \ {0, 1} :
          b.text = Transcript(c, n) /\ EndsIn(tokens, c, n)
    BY <1>2, <1>3 DEF OfTurn
  <2>2. Visible(tokens) = b.text
    BY <1>2, <1>4, <1>5, <2>1, EndTellsTranscript DEF pos
  <2>3. TextMatches(b, job.text)
    BY <1>2, <1>4, <2>2 DEF TextMatches, AtFrontier
  <2> QED BY <1>1, <1>2, <2>3, NoWinner DEF Evidence
<1> QED BY <1>4, <1>6 DEF Begins

LEMMA TurnsInit == Init => TurnsInv
BY DEF Init, TurnsInv, OfTurn, NoBinding

LEMMA TurnsAlways == Spec => [](IInv /\ RequestsKnown /\ TurnsInv)
<1>1. Init => IInv /\ RequestsKnown /\ TurnsInv
  BY IInvInit, EvidenceInit, TurnsInit DEF EvidenceInv
<1>2. IInv /\ RequestsKnown /\ TurnsInv /\ [Next]_vars => (IInv /\ RequestsKnown /\ TurnsInv)'
  BY IInvNext, RequestsStep, TurnsNext
<1> QED BY <1>1, <1>2, PTL DEF Spec

\* A session whose hidden reasoning the looked-up request goes on from is never
\* given up for the disk (generate_job's live candidates), whatever failed before:
\* the binding remembered at the end of its turn is found.
THEOREM ReasoningIsKept == Spec => ReasoningKept
<1>1. IInv /\ RequestsKnown /\ TurnsInv /\ [Next]_vars
        => [Dropped /\ Continues(Evidence)
              => Evidence.text # <<>> /\ Evidence.text[1].at # 1]_vars
  BY OnlyMissDrops, MissKeepsReasoning
<1> QED BY <1>1, TurnsAlways, PTL DEF Spec, ReasoningKept

-----------------------------------------------------------------------------
(* The schedule of the continued checkpoints, whatever failed before.      *)

\* How far the schedule is: never beyond what the session has or will have; a
\* rebuild from nothing is not asked about, its end is noted in "stale".
Scheduled ==
  /\ pc \in {"idle", "lookup", "finish"} => lastStore <= pos \/ pos = 0
  /\ pc = "load" => lastStore = 0
  /\ pc = "sync" => lastStore <= goal
  /\ pc = "rebuild" => cached \in Nat /\ (cached > 0 => lastStore <= goal)
  /\ pc = "decode" => lastStore <= pos

ScheduleInv == lastStore \in Nat /\ ("schedule" \notin stale => Scheduled)

LEMMA DoneIsTarget ==
  ASSUME IInv, pc \in {"sync", "rebuild"}, goal = Len(eff), SyncDone
  PROVE  tokens' = eff
<1>1. eff \in Texts
  BY DEF IInv, PromptOK
<1>2. SubSeq(eff, 1, Len(eff)) = eff
  BY <1>1, SubSeqFull DEF Texts
<1> QED BY <1>2 DEF SyncDone, Target

\* A chunk that is not the last leaves the session short of the prompt.
LEMMA ChunkIsCut ==
  ASSUME IInv, PrefillChunk
  PROVE  /\ pc \in {"sync", "rebuild"} /\ tokens' = SubSeq(eff, 1, NextChunk)
         /\ NextChunk \in 0..Len(eff) /\ NextChunk < Len(eff)
         /\ Len(tokens') = NextChunk /\ NextChunk < goal
<1>1. pc \in {"sync", "rebuild"} /\ tokens' = SubSeq(eff, 1, NextChunk) /\ NextChunk < goal
  BY DEF PrefillChunk
<1>2. goal \in 1..Len(eff) /\ Len(eff) \in Nat /\ pos \in Nat /\ eff \in Texts
  BY <1>1 DEF IInv, PromptOK, Texts, pos
<1>3. NextChunk \in Nat
  <2>1. Chunk \in Nat \ {0}
    BY LiveSessionAssumption
  <2>2. pos \div Chunk \in Nat
    BY <1>2, <2>1
  <2>3. \A n \in Nat : (n + 1) * Chunk \in Nat
    BY <2>1
  <2> QED BY <2>1, <2>2, <2>3 DEF NextChunk
<1>4. NextChunk \in 0..Len(eff) /\ NextChunk < Len(eff)
  BY <1>1, <1>2, <1>3
<1>5. \A k \in 0..Len(eff) : Len(SubSeq(eff, 1, k)) = k
  BY <1>2 DEF Texts
<1> QED BY <1>1, <1>4, <1>5

LEMMA NotedSchedule ==
  ASSUME lastStore \in Nat, NEW s, Len(s) \in Nat, NEW ok, Continued(s, ok) \/ StoredAndNoted(s)
  PROVE  lastStore' \in {lastStore, Len(s)}
<1>1. \A a, b \in Nat : Max({a, b}) \in {a, b}
  <2> TAKE a, b \in Nat
  <2>1. \E x \in {a, b} : \A y \in {a, b} : x >= y
    OBVIOUS
  <2> QED BY <2>1 DEF Max
<1> QED BY <1>1 DEF Continued, StoredAndNoted, diskVars

\* A live session is not longer than the prompt that goes on from it.
LEMMA HitIsLonger ==
  ASSUME IInv, RequestsKnown, LiveHit PROVE pos > 0 /\ pos <= goal'
<1>1. /\ pc = "lookup" /\ pc # "idle" /\ Winner.source \notin {"refused", "none"}
      /\ goal' = Len(Winner.prompt)
  BY DEF LiveHit
<1>2. /\ tokens \in Texts /\ pos = Len(tokens) /\ pos \in Nat /\ job.text \in Texts
      /\ Last(job.text) \in Message
  BY <1>1, JobKnown DEF IInv, Texts, pos
<1>3. \A n \in Nat : Len(tokens \o Drop(job.text, n)) >= pos
  <2> TAKE n \in Nat
  <2>1. Drop(job.text, n) \in Texts
    BY <1>2, DropType
  <2>2. Len(Drop(job.text, n)) \in Nat
    BY <2>1 DEF Texts
  <2> QED BY <1>2, <2>1, <2>2, PrefixConcat
<1>4. Len(Append(tokens, Last(job.text))) >= pos
  BY <1>2 DEF Texts
<1>5. Len(responses.text) \in Nat /\ Len(thinking.text) \in Nat
  BY DEF IInv, BindingsOK, Texts
<1> QED BY <1>1, <1>2, <1>3, <1>4, <1>5, WinnerIs

\* A prefill that fails, and one that loads a file.
LEMMA FailureSchedule ==
  ASSUME IInv', lastStore \in Nat, UNCHANGED lastStore, SyncFails, "schedule" \notin stale'
  PROVE  lastStore' <= pos'
<1>1. ~(lastStore > Len(tokens')) /\ Len(tokens') \in Nat
  BY DEF SyncFails, IInv, Texts
<1> QED BY <1>1 DEF pos

LEMMA LoadSchedule ==
  ASSUME IInv, NEW text \in Texts, NEW f \in disk, Load(f, text)
  PROVE  lastStore' \in Nat /\ lastStore' <= goal'
<1>1. f.tokens \in Texts /\ Len(f.key) \in Nat /\ Len(f.tokens) \in Nat
  BY DEF IInv, FilesOK, Texts
<1> DEFINE rest == Drop(text, Len(f.key))
<1>2. rest \in Texts
  BY <1>1, DropType
<1>3. eff' = f.tokens \o rest /\ goal' = Len(eff') /\ lastStore' = Len(f.tokens)
  BY DEF Load
<1> HIDE DEF rest
<1>4. Len(f.tokens \o rest) = Len(f.tokens) + Len(rest) /\ Len(rest) \in Nat
  BY <1>1, <1>2, PrefixConcat DEF Texts
<1> QED BY <1>1, <1>3, <1>4

LEMMA ScheduledNext ==
  ASSUME IInv, IInv', RequestsKnown, ScheduleInv, [Next]_vars
  PROVE  lastStore' \in Nat /\ ("schedule" \notin stale' => Scheduled')
<1>1. /\ eff \in Texts /\ tokens \in Texts /\ Len(eff) \in Nat /\ pos \in Nat /\ pos = Len(tokens)
      /\ pos' = Len(tokens') /\ Len(tokens') \in Nat /\ lastStore \in Nat
  BY DEF IInv, PromptOK, Texts, pos, ScheduleInv
<1>2. "schedule" \notin stale => Scheduled
  BY DEF ScheduleInv
<1>3. pc \in {"sync", "rebuild"} => goal \in 1..Len(eff)
  BY DEF IInv, PromptOK
<1>4. CASE UNCHANGED <<pc, goal, cached, tokens, lastStore, stale>>
  BY <1>1, <1>2, <1>4 DEF Scheduled, pos
<1>5. CASE /\ UNCHANGED <<tokens, lastStore, stale>>
           /\ \/ pc \in {"idle", "lookup", "finish"} /\ pc' \in {"idle", "lookup"}
              \/ pc = "decode" /\ pc' = "idle"
  BY <1>1, <1>2, <1>5 DEF Scheduled, pos
<1>6. CASE LiveHit
  <2>1. pc = "lookup" /\ pc' = "sync" /\ UNCHANGED <<lastStore, stale>> /\ pos > 0 /\ pos <= goal'
    BY <1>6, HitIsLonger DEF LiveHit, diskVars
  <2>2. goal' \in Nat
    BY <2>1 DEF IInv, PromptOK, Texts
  <2> QED BY <1>1, <1>2, <2>1, <2>2 DEF Scheduled
<1>7. CASE LiveMiss \/ Restart
  <2>1. pc' \in {"idle", "load"} /\ lastStore' = 0
    BY <1>7 DEF LiveMiss, RestartSchedule, Restart, Return
  <2> QED BY <1>1, <2>1 DEF Scheduled
<1>8. CASE DiskHit
  <2>1. PICK f \in Best(Hits(job.text)) : Load(f, job.text)
    BY <1>8 DEF DiskHit
  <2>2. f \in disk /\ pc = "load" /\ pc' = "sync" /\ job.text \in Texts
    BY <1>8, <2>1, JobKnown DEF DiskHit, Best, Hits
  <2>3. lastStore' \in Nat /\ lastStore' <= goal'
    BY <2>1, <2>2, LoadSchedule
  <2> QED BY <2>2, <2>3 DEF Scheduled
<1>9. CASE DiskLoadFails \/ DiskMiss
  <2>1. pc = "load" /\ pc' = "sync" /\ UNCHANGED <<lastStore, stale>>
    BY <1>9 DEF DiskLoadFails, DiskMiss, StartCold, LoadBreaks, diskVars
  <2>2. goal' \in Nat
    BY <2>1 DEF IInv, PromptOK, Texts
  <2> QED BY <1>1, <1>2, <2>1, <2>2 DEF Scheduled
<1>10. CASE PrefillChunk
  <2>1. pc \in {"sync", "rebuild"} /\ Len(tokens') < goal
    BY <1>10, ChunkIsCut
  <2>2. UNCHANGED <<pc, goal, cached, stale>> /\ lastStore' \in {lastStore, Len(tokens')}
    <3>1. Continued(tokens', TRUE) \/ UNCHANGED diskVars
      BY <1>10 DEF PrefillChunk
    <3>2. UNCHANGED <<pc, goal, cached, stale>>
      BY <1>10 DEF PrefillChunk, jobVars, syncVars
    <3> QED BY <1>1, <3>1, <3>2, NotedSchedule DEF diskVars
  <2> QED BY <1>1, <1>2, <1>3, <2>1, <2>2 DEF Scheduled
<1>11. CASE PrefillFails
  <2>1. pc' = "idle" /\ UNCHANGED lastStore /\ SyncFails
    BY <1>11 DEF PrefillFails, Return, diskVars
  <2> QED BY <1>1, <2>1, FailureSchedule DEF Scheduled
<1>12. CASE ColdPrefixDone
  <2>1. /\ pc = "sync" /\ pc' = "sync" /\ goal' = Len(eff) /\ stale' = stale
        /\ StoredAndNoted(Target)
    BY <1>12 DEF ColdPrefixDone
  <2>2. Len(Target) = goal
    BY <1>1, <1>3, <2>1, PrefixCut DEF Target
  <2>3. lastStore' \in {lastStore, goal}
    BY <1>1, <1>3, <2>1, <2>2, NotedSchedule
  <2> QED BY <1>1, <1>2, <1>3, <2>1, <2>3 DEF Scheduled
<1>13. CASE PrefillDone
  <2>1. /\ pc = "sync" /\ pc' = "decode" /\ goal = Len(eff) /\ stale' = stale
        /\ Continued(eff, TRUE) \/ StoredAndNoted(eff)
    BY <1>13 DEF PrefillDone
  <2>2. tokens' = eff
    BY <1>13, <2>1, DoneIsTarget DEF PrefillDone
  <2>3. lastStore' \in {lastStore, Len(eff)}
    BY <1>1, <2>1, NotedSchedule
  <2> QED BY <1>1, <1>2, <2>1, <2>2, <2>3 DEF Scheduled
<1>14. CASE DecodeReasoning
  <2>1. /\ pc = "decode" /\ pc' = "decode" /\ stale' = stale /\ Continued(tokens, valid)
        /\ tokens' = Append(tokens, Token(job.conv, job.n + 1, "hidden"))
    BY <1>14 DEF DecodeReasoning, jobVars
  <2>2. lastStore' \in {lastStore, pos} /\ pos' = pos + 1
    BY <1>1, <2>1, NotedSchedule DEF Texts
  <2> QED BY <1>1, <1>2, <2>1, <2>2 DEF Scheduled
<1>15. ASSUME NEW why \in {"stop", "length", "tool_calls", "error"}, DecodeEnd(why)
       PROVE  lastStore' \in Nat /\ ("schedule" \notin stale' => Scheduled')
  <2>1. pc = "decode" /\ pc' = "finish" /\ stale' = stale /\ Continued(tokens, valid)
    BY <1>15 DEF DecodeEnd
  <2>2. lastStore' \in {lastStore, pos}
    BY <1>1, <2>1, NotedSchedule
  <2>3. UNCHANGED tokens \/ tokens' = <<>> \/ \E kind : Sample(kind)
    BY <1>15 DEF DecodeEnd
  <2>4. pos' \in {pos, pos + 1, 0}
    BY <1>1, <2>3 DEF Sample, Texts
  <2> QED BY <1>1, <1>2, <2>1, <2>2, <2>4 DEF Scheduled
<1>16. CASE BeginRebuild
  <2>1. pc = "finish" /\ pc' = "rebuild" /\ stale' = stale
    BY <1>16 DEF BeginRebuild
  <2>2. PICK k \in CanonicalLengths : FromFile(Canonical(k)) \/ Anew(Canonical(k))
    BY <1>16, RebuildBegins
  <2>3. Canonical(k) \in Texts
    BY <2>1, CanonicalType
  <2>4. CASE FromFile(Canonical(k))
    <3>1. PICK f \in disk : Load(f, Canonical(k))
      BY <2>4 DEF FromFile, Best, Hits
    <3>2. lastStore' \in Nat /\ lastStore' <= goal' /\ cached' = lastStore'
      BY <2>3, <3>1, LoadSchedule DEF Load
    <3> QED BY <2>1, <3>2 DEF Scheduled
  <2>5. CASE Anew(Canonical(k))
    BY <1>1, <2>1, <2>5 DEF Scheduled, Anew
  <2> QED BY <2>2, <2>4, <2>5
<1>17. CASE EndRebuild
  <2>1. /\ pc = "rebuild" /\ pc' = "idle" /\ UNCHANGED lastStore
        /\ \/ /\ SyncDone
              /\ stale' = stale \cup {what \in {"schedule"} :
                                        cached = 0 /\ lastStore > Len(tokens')}
           \/ SyncFails
    BY <1>17 DEF EndRebuild, Return, diskVars
  <2>2. CASE SyncDone /\ stale' = stale \cup {what \in {"schedule"} :
                                               cached = 0 /\ lastStore > Len(tokens')}
    <3>1. pos' = goal
      BY <1>1, <1>3, <2>1, <2>2, PrefixCut DEF SyncDone, Target
    <3>2. "schedule" \notin stale' =>
            "schedule" \notin stale /\ ~(cached = 0 /\ lastStore > Len(tokens'))
      BY <2>2
    <3>3. "schedule" \notin stale' => lastStore <= pos'
      BY <1>1, <1>2, <1>3, <2>1, <3>1, <3>2 DEF Scheduled
    <3> QED BY <1>1, <2>1, <3>3 DEF Scheduled
  <2>3. CASE SyncFails
    BY <1>1, <2>1, <2>3, FailureSchedule DEF Scheduled
  <2> QED BY <2>1, <2>2, <2>3
<1>18. \/ UNCHANGED <<pc, goal, cached, tokens, lastStore, stale>>
       \/ /\ UNCHANGED <<tokens, lastStore, stale>>
          /\ \/ pc \in {"idle", "lookup", "finish"} /\ pc' \in {"idle", "lookup"}
             \/ pc = "decode" /\ pc' = "idle"
       \/ LiveHit \/ LiveMiss \/ Restart \/ DiskHit \/ DiskLoadFails \/ DiskMiss
       \/ PrefillChunk \/ PrefillFails \/ ColdPrefixDone \/ PrefillDone \/ DecodeReasoning
       \/ BeginRebuild \/ EndRebuild
       \/ \E why \in {"stop", "length", "tool_calls", "error"} : DecodeEnd(why)
  BY ZenonT(60) DEF Next, vars, sessionVars, diskVars, jobVars, syncVars, SendReplay,
     SendToolOutput, Begin, Refuse, ClientGone, Finish, Return
<1> QED BY <1>4, <1>5, <1>6, <1>7, <1>8, <1>9, <1>10, <1>11, <1>12, <1>13, <1>14, <1>15,
           <1>16, <1>17, <1>18

LEMMA ScheduleInit == Init => ScheduleInv
BY DEF Init, ScheduleInv, Scheduled, pos

\* The schedule of the continued checkpoints (kv.continued_last_store_tokens)
\* is never beyond the session that is decoding, so that the next frontier that
\* kv_cache_maybe_store_continued reaches is stored, for every mix of clients and
\* whatever length a reasoning has when it is tokenized again, unless a prefill
\* that started over failed or a tool call was rebuilt from nothing and left a
\* shorter session: the two steps that are noted in "stale".
THEOREM ScheduleStaysBehind == Spec => []ScheduleNotAhead
<1>1. ScheduleInv => ScheduleNotAhead
  BY DEF ScheduleInv, Scheduled, ScheduleNotAhead
<1>2. IInv /\ IInv' /\ RequestsKnown /\ ScheduleInv /\ [Next]_vars => ScheduleInv'
  BY ScheduledNext DEF ScheduleInv
<1> QED BY <1>1, <1>2, ScheduleInit, TurnsAlways, PTL DEF Spec
=============================================================================
