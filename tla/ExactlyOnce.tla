---------------------------- MODULE ExactlyOnce ----------------------------
(***************************************************************************)
(* What the interaction path promises, with no outbox, queue, worker or    *)
(* retry in it: an accepted command takes effect at most once, at one      *)
(* moment; the counters are the number of rows they stand for; each change *)
(* is added to the heat once.  Interaction implements this module.         *)
(***************************************************************************)
EXTENDS Integers, FiniteSets

CONSTANTS Users, Videos, Events, None

VARIABLES
    command,     \* event -> the accepted command, None before
    applied,     \* events that have taken effect
    gain,        \* event -> what its effect added to the popularity
    scored,      \* events whose gain is in the heat
    videos, likes, comments, lastComment,
    likesCount, popularity, heat

vars == <<command, applied, gain, scored, videos, likes, comments, lastComment,
          likesCount, popularity, heat>>

Command == [action : {"like", "unlike", "publish", "delete"},
            user : Users, video : Videos, comment : Nat]

Init ==
    /\ command = [e \in Events |-> None]
    /\ applied = {}
    /\ gain = [e \in Events |-> 0]
    /\ scored = {}
    /\ videos = Videos
    /\ likes = {}
    /\ comments = {}
    /\ lastComment = 0
    /\ likesCount = [v \in Videos |-> 0]
    /\ popularity = [v \in Videos |-> 0]
    /\ heat = [v \in Videos |-> 0]

\* The counters are recounted from the rows, not kept by increments: the likes
\* of a video, and those plus the publications that counted.
Recount ==
    /\ likesCount' = [v \in Videos |-> Cardinality({u \in Users : <<u, v>> \in likes'})]
    /\ popularity' = [v \in Videos |-> likesCount'[v] + Cardinality(
           {e \in applied' : /\ command[e].action = "publish"
                             /\ command[e].video = v
                             /\ gain'[e] = 1})]

Accept(e) ==
    /\ command[e] = None
    /\ \E u \in Users, v \in Videos, n \in 0..lastComment,
          a \in {"like", "unlike", "publish", "delete"} :
         command' = [command EXCEPT
                       ![e] = [action |-> a, user |-> u, video |-> v, comment |-> n]]
    /\ UNCHANGED <<applied, gain, scored, videos, likes, comments, lastComment,
                   likesCount, popularity, heat>>

\* The effect of a command on the rows, and its gain.
Effect(c, delta) ==
    \/ /\ c.action = "like" /\ c.video \in videos /\ <<c.user, c.video>> \notin likes
       /\ likes' = likes \cup {<<c.user, c.video>>}
       /\ delta = 1
       /\ UNCHANGED <<comments, lastComment>>
    \/ /\ c.action = "unlike" /\ c.video \in videos /\ <<c.user, c.video>> \in likes
       /\ likes' = likes \ {<<c.user, c.video>>}
       /\ delta = -1
       /\ UNCHANGED <<comments, lastComment>>
    \/ /\ c.action = "publish" /\ c.video \in videos
       /\ lastComment' = lastComment + 1
       /\ comments' = comments \cup {[id |-> lastComment', video |-> c.video,
                                      author |-> c.user]}
       /\ delta = 1
       /\ UNCHANGED likes
    \/ /\ c.action = "delete"
       /\ comments' = {r \in comments : r.id # c.comment}
       /\ delta = 0
       /\ UNCHANGED <<likes, lastComment>>
    \/ /\ \/ c.action # "delete" /\ c.video \notin videos
          \/ c.action = "like"   /\ <<c.user, c.video>> \in likes
          \/ c.action = "unlike" /\ <<c.user, c.video>> \notin likes
       /\ delta = 0
       /\ UNCHANGED <<likes, comments, lastComment>>

Apply(e) ==
    /\ command[e] # None
    /\ e \notin applied
    /\ applied' = applied \cup {e}
    /\ \E delta \in {-1, 0, 1} : /\ Effect(command[e], delta)
                                 /\ gain' = [gain EXCEPT ![e] = delta]
    /\ Recount
    /\ UNCHANGED <<command, scored, videos, heat>>

Score(e) ==
    /\ gain[e] # 0
    /\ e \notin scored
    /\ scored' = scored \cup {e}
    /\ heat' = [heat EXCEPT ![command[e].video] = @ + gain[e]]
    /\ UNCHANGED <<command, applied, gain, videos, likes, comments, lastComment,
                   likesCount, popularity>>

RemoveVideo(v) ==
    /\ v \in videos
    /\ videos' = videos \ {v}
    /\ UNCHANGED <<command, applied, gain, scored, likes, comments, lastComment,
                   likesCount, popularity, heat>>

Next == \/ \E e \in Events : Accept(e) \/ Apply(e) \/ Score(e)
        \/ \E v \in Videos : RemoveVideo(v)

Spec == Init /\ [][Next]_vars
=============================================================================
