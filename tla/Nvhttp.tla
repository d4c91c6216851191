------------------------------- MODULE Nvhttp -------------------------------
(***************************************************************************)
(* The HTTPS half of run_moonlight (session.rs) and nvhttp.rs, on top of   *)
(* Pairing: what a session that is paired asks of Sunshine - /applist,     *)
(* /launch, /cancel - with how the replies are taken apart, and the one    *)
(* video session that Sunshine holds from /launch to /cancel.  Sessions    *)
(* of one host overlap, calls are lost, the process may be killed.         *)
(*                                                                         *)
(* A body is the sequence of its tags and words.  Between the reply to     *)
(* /launch and /cancel lies the stream, one label here and the subject of  *)
(* the modules Session and Stream.                                         *)
(***************************************************************************)
EXTENDS Pairing, SequencesExt

CONSTANTS
    Offers,     \* the lists of apps that Sunshine may have to offer
    Numerals    \* the texts that parse as the number of an app

VARIABLES
    stage,    \* stage[s]: the call of run_moonlight that comes next
    app,      \* app[s]: the HostApp it has chosen, or None
    offer,    \* Sunshine: the apps it has, in the order it lists them
    holder,   \* Sunshine: whose video session it holds, or None
    answer,   \* answer[s]: the reply to /launch on its way to s, or None
    left,     \* history: ... and whether that session will not release it
    alone     \* history: every connect waited for the end of the last session

httpVars == <<stage, app, offer, holder, answer, left, alone>>
allVars == <<vars, httpVars>>

Stages == {"paired", "applist", "launch", "stream", "cancel", "over"}

-----------------------------------------------------------------------------
(* The bodies of the replies                                               *)

Open(tag) == <<"open", tag>>
Close(tag) == <<"close", tag>>
Word(text) == <<"word", text>>
Space == Word(" ")

ASSUME HttpAssumption == \A text \in {"0", "1"} : None # <<Word(text)>>

\* What Sunshine offers has words for a title and an id, or lacks the field.
Words == {"word"} \X STRING
Field == Seq(Words) \cup {None}
ASSUME OffersAssumption == Offers \subseteq Seq([title : Field, id : Field])

Element(tag, words) == <<Open(tag)>> \o words \o <<Close(tag)>>

\* An app has the fields that Sunshine gives it, which may lack one.
RenderedApp(a) ==
    Element("App", (IF a.title = None THEN <<>> ELSE Element("AppTitle", a.title))
                     \o (IF a.id = None THEN <<>> ELSE Element("ID", a.id)))

Rendered(apps) ==
    Element("root", FlattenSeq([i \in DOMAIN apps |-> RenderedApp(apps[i])]))

\* Up to the first closing tag that follows the first opening one.
xml_tag(xml, tag) ==
    LET starts == {i \in DOMAIN xml : xml[i] = Open(tag)}
        ends == {j \in DOMAIN xml : xml[j] = Close(tag) /\ j > Min(starts)}
    IN IF starts = {} \/ ends = {} THEN None
       ELSE SubSeq(xml, Min(starts) + 1, Min(ends) - 1)

\* Without the spaces at both ends.
trim(words) ==
    LET kept == {i \in DOMAIN words : words[i] # Space}
    IN IF kept = {} THEN <<>> ELSE SubSeq(words, Min(kept), Max(kept))

\* Mutant: the id is passed on as it is.
BugIsNumber(words) == TRUE

IsNumber(words) == words \in Numerals

\* Mutant: a chunk ends where the list does.
BugChunk(xml, i) == SubSeq(xml, i + 1, Len(xml))

\* What follows an <App>, up to the next one or to the end of the body.
Chunk(xml, i) ==
    LET next == {j \in DOMAIN xml : xml[j] = Open("App") /\ j > i}
    IN SubSeq(xml, i + 1, IF next = {} THEN Len(xml) ELSE Min(next) - 1)

\* split("<App>").skip(1).filter_map(..): a chunk with a title and a number.
\* An app is at the place of its <App>, and so in the order of the body.
app_list(xml) ==
    LET IsApp(c) == xml_tag(c, "AppTitle") # None /\ xml_tag(c, "ID") # None
                      /\ IsNumber(trim(xml_tag(c, "ID")))
        places == {i \in DOMAIN xml : xml[i] = Open("App") /\ IsApp(Chunk(xml, i))}
    IN [i \in places |-> [title |-> xml_tag(Chunk(xml, i), "AppTitle"),
                          id |-> trim(xml_tag(Chunk(xml, i), "ID"))]]

IsDesktop(a) == a.title \in {<<Word("Desktop")>>, <<Word("desktop")>>}

\* "Desktop" in whatever case, or the first one.
Chosen(apps) ==
    LET desktops == {i \in DOMAIN apps : IsDesktop(apps[i])}
        wanted == IF desktops # {} THEN desktops ELSE DOMAIN apps
    IN IF wanted = {} THEN None ELSE apps[Min(wanted)]

Reply(status, xml) == [status |-> status, body |-> xml]

ASSUME ReplyAssumption ==
    \A tag \in {"gamesession", "resume"} : None # Reply(200, Element(tag, <<Word("1")>>))

Says(reply_, tag) ==
    LET value == xml_tag(reply_.body, tag)
    IN value # None /\ trim(value) # <<Word("0")>>

\* Mutant: a 200 is enough.
BugLaunched(reply_) == reply_.status = 200

\* A 200 that tells of a fresh session or of a resumed one.
Launched(reply_) ==
    reply_.status = 200 /\ (Says(reply_, "gamesession") \/ Says(reply_, "resume"))

-----------------------------------------------------------------------------
\* What Sunshine is asked to start is a number, and nobody leaves a session
\* behind that there is not.
HttpTypeOK ==
    /\ stage \in [Sessions -> Stages]
    /\ \A s \in Sessions : app[s] # None => app[s].id \in Numerals
    /\ offer \in Offers
    /\ holder \in Sessions \cup {None}
    /\ left \in BOOLEAN /\ alone \in BOOLEAN
    /\ left => holder # None

HttpInit ==
    /\ Init
    /\ stage = [s \in Sessions |-> "paired"]
    /\ app = [s \in Sessions |-> None]
    /\ offer \in Offers
    /\ holder = None
    /\ answer = [s \in Sessions |-> None]
    /\ left = FALSE
    /\ alone = TRUE

\* run_moonlight of s has returned.
Returned(s) == at[s] = "failed" \/ stage[s] = "over"

Advance(s, label) == stage' = [stage EXCEPT ![s] = label]
Receives(s, what) == answer' = [answer EXCEPT ![s] = what]

\* The steps of module Pairing.
PairingSteps ==
    /\ \/ \E s \in Sessions : Client(s) \/ SunshineHandles(s) \/ HostPersists(s)
       \/ \E i \in Identities, p \in Pins : UserTypesPin(i, p)
    /\ alone' = (alone /\ \A s \in Sessions : at[s] = "unborn" /\ at'[s] # "unborn"
                            => \A r \in Sessions : at[r] # "unborn" => Returned(r))
    /\ UNCHANGED <<stage, app, offer, holder, answer, left>>

\* The look at the stop flag ahead of /applist.
CheckStop(s) ==
    /\ at[s] = "paired" /\ stage[s] = "paired"
    /\ \/ Advance(s, "applist")
       \/ Advance(s, "over")
    /\ UNCHANGED <<vars, app, offer, holder, answer, left, alone>>

AppList(s) ==
    /\ stage[s] = "applist"
    /\ app' = [app EXCEPT ![s] = Chosen(app_list(Rendered(offer)))]
    /\ Advance(s, IF app'[s] = None THEN "over" ELSE "launch")
    /\ UNCHANGED <<vars, offer, holder, answer, left, alone>>

\* Sunshine starts the app; or it cannot; or it is busy, and refuses (419) or
\* hands its session over.
LaunchArrives(s) ==
    /\ stage[s] = "launch" /\ answer[s] = None
    /\ \/ /\ holder = None
          /\ holder' = s
          /\ Receives(s, Reply(200, Element("gamesession", <<Word("1")>>)))
          /\ UNCHANGED left
       \/ /\ Receives(s, Reply(200, Element("gamesession", <<Space, Word("0")>>)))
          /\ UNCHANGED <<holder, left>>
       \/ /\ holder # None
          /\ Receives(s, Reply(419, Element("resume", <<Word("0")>>)))
          /\ UNCHANGED <<holder, left>>
       \/ /\ holder # None
          /\ holder' = s /\ left' = FALSE
          /\ Receives(s, Reply(200, Element("resume", <<Word("1")>>)))
    /\ UNCHANGED <<vars, stage, app, offer, alone>>

LaunchReply(s) ==
    /\ stage[s] = "launch" /\ answer[s] # None
    /\ Advance(s, IF Launched(answer[s]) THEN "stream" ELSE "over")
    /\ Receives(s, None)
    /\ UNCHANGED <<vars, app, offer, holder, left, alone>>

\* Mutant: a stream that did not come up is not released.
BugReleases(why) == why = "closed"

\* Any exit the client initiates is followed by /cancel.
Releases(why) == why \in {"closed", "failed"}

\* The stream fails to come up, or it is closed, or its host ends it; or it
\* breaks down, which looks the same, with the session still held.
StreamEnds(s) ==
    /\ stage[s] = "stream"
    /\ \E why \in {"failed", "closed", "terminated", "broken"} :
         /\ Advance(s, IF Releases(why) THEN "cancel" ELSE "over")
         /\ holder' = IF why = "terminated" THEN None ELSE holder
         /\ left' = (holder' # None /\ (left \/ (why = "broken" /\ holder = s)))
    /\ UNCHANGED <<vars, app, offer, answer, alone>>

\* /cancel ends whatever session there is.
Cancel(s) ==
    /\ stage[s] = "cancel"
    /\ holder' = None /\ left' = FALSE
    /\ Advance(s, "over")
    /\ UNCHANGED <<vars, app, offer, answer, alone>>

\* A call fails, or its reply is lost: run_moonlight returns.  It does so
\* after a lost /cancel, and after a lost reply to /launch without one.
CallFails(s) ==
    /\ stage[s] \in {"applist", "launch", "cancel"}
    /\ Advance(s, "over")
    /\ Receives(s, None)
    /\ left' = (left \/ (holder # None /\ holder = s))
    /\ UNCHANGED <<vars, app, offer, holder, alone>>

\* With the streams, whose video sessions nobody releases then.
KilledToo ==
    /\ \E s \in Sessions : at[s] # "unborn" /\ ~Returned(s)
    /\ Killed
    /\ stage' = [s \in Sessions |-> IF at[s] = "unborn" THEN stage[s] ELSE "over"]
    /\ answer' = [s \in Sessions |-> None]
    /\ left' = (holder # None)
    /\ UNCHANGED <<app, offer, holder, alone>>

\* Every session is over.
HttpRest == (\A s \in Sessions : Returned(s) /\ ~learned[s]) /\ UNCHANGED allVars

HttpNext ==
    \/ PairingSteps
    \/ \E s \in Sessions :
         \/ CheckStop(s) \/ AppList(s) \/ LaunchArrives(s) \/ LaunchReply(s)
         \/ StreamEnds(s) \/ Cancel(s) \/ CallFails(s)
    \/ KilledToo
    \/ HttpRest

HttpSpec == HttpInit /\ [][HttpNext]_allVars

-----------------------------------------------------------------------------
(* Properties                                                              *)

\* The apps that can be launched, without a look at the body.
Launchable == {a \in ToSet(offer) : a.title # None /\ a.id # None
                                      /\ IsNumber(trim(a.id))}
SameApp(a, b) == a.title = b.title /\ a.id = trim(b.id)

\* The id that goes into /launch is that of an app with the title the user is
\* told, Desktop if Sunshine has one: an app without an id or a title takes
\* none from its neighbours.
LaunchesDesktop ==
    \A s \in Sessions : stage[s] = "launch" =>
        /\ \E a \in Launchable : SameApp(app[s], a)
        /\ (\E a \in Launchable : IsDesktop(a)) => IsDesktop(app[s])

\* The stream is only started on a video session that Sunshine holds for it,
\* under its key, unless sessions overlap.
StreamsItsOwn ==
    \A s \in Sessions : alone /\ stage[s] = "stream" =>
        holder = s

\* Sunshine is left busy only if a reply to /launch or a /cancel was lost, a
\* stream broke down, or the process was killed: every other way out of every
\* session, overlapping or not, has released it.
HeldIsExplained ==
    holder # None /\ ~left => stage[holder] \in {"launch", "stream", "cancel"}
=============================================================================
