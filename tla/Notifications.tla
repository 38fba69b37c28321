---------------------------- MODULE Notifications ----------------------------
(***************************************************************************)
(* In-app notifications: the table and its retention, creation with push   *)
(* and mail or SMS (services/notificationService.ts), the endpoints        *)
(* (controllers/notificationController.ts), and the browser's two cache    *)
(* entries - the one the push stream writes (useNotificationStream) and    *)
(* the one the pages read (useNotifications).                              *)
(***************************************************************************)
EXTENDS Integers, FiniteSets

CONSTANTS
    Notices,            \* ids, numbers in order of creation
    NoticeOwner,
    Viewer,             \* the user signed in to the browser
    FETCH_LIMIT,        \* rows a GET or a stream's init message carries
    RetentionDays, ReadRetentionDays,
    MaxNoticeFaults

ASSUME NoticeConstants == IsFiniteSet(Notices)

VARIABLES
    notice,             \* id -> [status, age] of its row
    creating,           \* id -> what createNotification has still to do
    pushStream,         \* the viewer's stream request
    initial,            \* id -> read flag, the rows read for the init message
    feed,               \* the cache entry ["notifications"]
    list,               \* the cache entry ["notifications", {...}]
    noticeFaults

noticeVars == <<notice, creating, pushStream, initial, feed, list,
                noticeFaults>>

NoNotice == [status |-> "none", age |-> 0]
Present(i) == notice[i].status \in {"unread", "read", "archived"}

(* getNotificationsForUser: the newest rows of the user, id -> read.       *)
getNotificationsForUser(u) ==
    LET mine == {i \in Notices : NoticeOwner[i] = u /\ Present(i)}
        newest == {i \in mine : Cardinality({j \in mine : j > i}) < FETCH_LIMIT}
    IN  [i \in newest |-> notice[i].status # "unread"]

------------------------------------------------------------------------------
(* createNotification: insert, push, mail and SMS.                         *)

Inserted(i, next) ==
    /\ notice[i].status = "none" /\ \A j \in Notices : j < i => notice[j].status # "none"
    /\ notice' = [notice EXCEPT ![i].status = "unread"]
    /\ creating' = [creating EXCEPT ![i] = next]
    /\ UNCHANGED <<pushStream, initial, feed, list, noticeFaults>>

InsertNotice(i) == Inserted(i, "push")

(* A dispute tells every admin wallet, one row after the other; an insert  *)
(* that fails leaves out the wallets after it.  Nobody is mailed besides   *)
(* the configured address.                                                 *)
notifyAdmins(i) == Inserted(i, "pushOnly")

WithPushed_Faulty(i) ==
    [rows |-> [j \in DOMAIN feed.rows \cup {i} |-> IF j = i THEN FALSE ELSE feed.rows[j]],
     unreadCount |-> feed.unreadCount + 1]

(* The browser's handler of a pushed notification.                         *)
WithPushed(i) ==
    IF i \in DOMAIN feed.rows THEN feed
    ELSE [rows |-> [j \in DOMAIN feed.rows \cup {i} |-> IF j = i THEN FALSE ELSE feed.rows[j]],
          unreadCount |-> feed.unreadCount + 1]

broadcastNotice(i) ==
    /\ creating[i] \in {"push", "pushOnly"}
    /\ creating' = [creating EXCEPT ![i] = IF @ = "push" THEN "external" ELSE "done"]
    /\ feed' = IF pushStream = "live" /\ NoticeOwner[i] = Viewer THEN WithPushed(i) ELSE feed
    /\ UNCHANGED <<notice, pushStream, initial, list, noticeFaults>>

(* The profile is read and mail or SMS sent, as it wants; what the         *)
(* providers answer is only logged.                                        *)
notifyUserExternal(i) ==
    /\ creating[i] = "external"
    /\ creating' = [creating EXCEPT ![i] = "done"]
    /\ UNCHANGED <<notice, pushStream, initial, feed, list, noticeFaults>>

------------------------------------------------------------------------------
(* Acknowledging, and retention.                                           *)

Acknowledge(ids, from, to) ==
    notice' = [i \in Notices |->
        IF i \in ids /\ NoticeOwner[i] = Viewer /\ notice[i].status \in from
        THEN [notice[i] EXCEPT !.status = to] ELSE notice[i]]

(* The mutations invalidate every key that begins with "notifications": the *)
(* mounted list is fetched again, the feed has no fetcher.                 *)
Refetched == getNotificationsForUser(Viewer)

markRead(ids) ==
    /\ ids # {} /\ \E i \in ids : notice[i].status = "unread"
    /\ Acknowledge(ids, {"unread"}, "read")
    /\ list' = Refetched'
    /\ UNCHANGED <<creating, pushStream, initial, feed, noticeFaults>>

markAllRead == markRead({i \in Notices : NoticeOwner[i] = Viewer /\ notice[i].status = "unread"})

archiveNotifications(i) ==
    /\ notice[i].status \in {"unread", "read"} /\ NoticeOwner[i] = Viewer
    /\ Acknowledge({i}, {"unread", "read"}, "archived")
    /\ UNCHANGED <<creating, pushStream, initial, feed, list, noticeFaults>>

DayPasses ==
    /\ \E i \in Notices : Present(i) /\ notice[i].age <= RetentionDays
    /\ notice' = [i \in Notices |-> IF Present(i) /\ notice[i].age <= RetentionDays
                                    THEN [notice[i] EXCEPT !.age = @ + 1] ELSE notice[i]]
    /\ UNCHANGED <<creating, pushStream, initial, feed, list, noticeFaults>>

(* deleteOldNotifications and deleteReadAndArchived, of one scheduled run. *)
Expired(i) ==
    \/ notice[i].age > RetentionDays
    \/ notice[i].status \in {"read", "archived"} /\ notice[i].age > ReadRetentionDays

CleanUp ==
    /\ \E i \in Notices : Present(i) /\ Expired(i)
    /\ notice' = [i \in Notices |-> IF Present(i) /\ Expired(i)
                                    THEN [notice[i] EXCEPT !.status = "deleted"] ELSE notice[i]]
    /\ UNCHANGED <<creating, pushStream, initial, feed, list, noticeFaults>>

------------------------------------------------------------------------------
(* The push stream: init message, then registration.                       *)

streamNotifications ==
    /\ pushStream = "closed"
    /\ pushStream' = "init"
    /\ initial' = LET rows == getNotificationsForUser(Viewer)
                  IN  [i \in {j \in DOMAIN rows : ~rows[j]} |-> rows[i]]
    /\ UNCHANGED <<notice, creating, feed, list, noticeFaults>>

MergeInit ==
    LET rows == [i \in DOMAIN initial \cup DOMAIN feed.rows |->
                    IF i \in DOMAIN feed.rows THEN feed.rows[i] ELSE initial[i]]
    IN  [rows |-> rows, unreadCount |-> Cardinality({i \in DOMAIN rows : ~rows[i]})]

SubscribeStream ==
    /\ pushStream = "init"
    /\ pushStream' = "live"
    /\ feed' = IF DOMAIN initial = {} THEN feed ELSE MergeInit
    /\ initial' = [i \in {} |-> FALSE]
    /\ UNCHANGED <<notice, creating, list, noticeFaults>>

StreamDrops ==
    /\ pushStream # "closed"
    /\ pushStream' = "closed" /\ initial' = [i \in {} |-> FALSE]
    /\ UNCHANGED <<notice, creating, feed, list, noticeFaults>>

useNotifications_Faulty ==
    LET merged == [i \in DOMAIN list \cup DOMAIN Refetched |->
                      IF i \in DOMAIN Refetched THEN Refetched[i] ELSE list[i]]
    IN  /\ list # merged
        /\ list' = merged
        /\ UNCHANGED <<notice, creating, pushStream, initial, feed, noticeFaults>>

(* The poll every 60 seconds, a focus, or a remount.                       *)
useNotifications ==
    /\ list # Refetched
    /\ list' = Refetched
    /\ UNCHANGED <<notice, creating, pushStream, initial, feed,
                   noticeFaults>>

BackendDies ==
    /\ noticeFaults < MaxNoticeFaults
    /\ noticeFaults' = noticeFaults + 1
    /\ creating' = [i \in Notices |-> IF creating[i] = "none" THEN "none" ELSE "done"]
    /\ pushStream' = "closed" /\ initial' = [i \in {} |-> FALSE]
    /\ UNCHANGED <<notice, feed, list>>

NoticeInit ==
    /\ notice = [i \in Notices |-> NoNotice]
    /\ creating = [i \in Notices |-> "none"]
    /\ pushStream = "closed" /\ initial = [i \in {} |-> FALSE]
    /\ feed = [rows |-> [i \in {} |-> FALSE], unreadCount |-> 0]
    /\ list = [i \in {} |-> FALSE]
    /\ noticeFaults = 0

NoticeNext ==
    \/ \E i \in Notices : \/ InsertNotice(i) \/ notifyAdmins(i) \/ broadcastNotice(i) \/ notifyUserExternal(i)
                          \/ archiveNotifications(i)
    \/ \E ids \in SUBSET Notices : markRead(ids)
    \/ markAllRead \/ DayPasses \/ CleanUp
    \/ streamNotifications \/ SubscribeStream \/ StreamDrops
    \/ useNotifications \/ BackendDies

NoticeSpec == NoticeInit /\ [][NoticeNext]_noticeVars /\ WF_noticeVars(useNotifications)

------------------------------------------------------------------------------
(* Correctness.                                                            *)

(* The badge of the pushed feed counts its unread entries, whatever the    *)
(* order of init messages, pushes of rows the init message already held,   *)
(* and reconnections.                                                      *)
BadgeCountsTheFeed ==
    feed.unreadCount = Cardinality({i \in DOMAIN feed.rows : ~feed.rows[i]})

(* The page's list comes to agree with the table and stays there once the  *)
(* table is quiet, although pushes are lost between the init query and the *)
(* registration, in restarts and in dropped streams: the poll repairs it.  *)
ListConverges == <>[](list = Refetched)
==============================================================================
