-------------------------------- MODULE Downloads --------------------------------
(***************************************************************************)
(* Downloader of manager/hahapent/downloads.py: up to four hops within one *)
(* deadline.  A hop looks its host up in a thread that may outlive it,     *)
(* connects to the address found, and reads a reply through a socket that  *)
(* two owners close: the connection and the reader of the reply.           *)
(***************************************************************************)
EXTENDS Naturals, Sequences

CONSTANTS
  Public,           \* PUBLIC_HOSTS
  Raw,              \* raw.githubusercontent.com, one of them
  Asset,            \* ASSET_HOSTS
  OtherHosts,       \* any other host
  DnsSlots,         \* 4: _DNS_SLOTS
  MaxBytes,         \* max_bytes of the call, in blocks
  Framing,          \* 128 KiB for headers and chunk framing, in blocks
  MaxDownloads      \* bound: downloads

Hosts == Public \cup Asset \cup OtherHosts
MaxHops == 4
ASSUME DownloadAssumption ==
  /\ Raw \in Public /\ Public \cap Asset = {} /\ (Public \cup Asset) \cap OtherHosts = {}
  /\ DnsSlots \in Nat \ {0} /\ MaxBytes \in Nat

VARIABLES
  downloads,        \* how many began
  stage,            \* where download() is: "idle", "look", "waiting", "connect",
                    \* "request", "reply", "body"; "idle" also when it is over
  hops,          \* the hosts of the hops, in order
  expired,          \* the deadline has passed
  free,             \* _DNS_SLOTS
  asked, answer,    \* this hop's resolver thread runs; what it put, "none" before
  strays,           \* other resolver threads that hold a slot
  socket,           \* the _BudgetSocket: open, its readers, whether the connection has it
  declared,         \* Content-Length, Undeclared without one
  total, received,  \* blocks of the body; blocks received, framing included
  outcome           \* "none", "done" or how it failed
downloadVars == <<downloads, stage, hops, expired, free, asked, answer, strays,
                  socket, declared, total, received, outcome>>

NoSocket == [open |-> FALSE, readers |-> 0, held |-> FALSE]
Undeclared == MaxBytes + 2      \* no Content-Length

DownloadInit ==
  /\ downloads = 0 /\ stage = "idle" /\ hops = <<>> /\ expired = FALSE
  /\ free = DnsSlots /\ asked = FALSE /\ answer = "none" /\ strays = 0
  /\ socket = NoSocket /\ declared = Undeclared /\ total = 0 /\ received = 0
  /\ outcome = "none"

Host == hops[Len(hops)]

-----------------------------------------------------------------------------
(* _BudgetSocket *)

\* Faulty SocketClosed: the reader of a reply does not keep the socket.
SocketClosedAtOnce(s) == [s EXCEPT !.open = FALSE]

\* close: nothing while a reader is left.
SocketClosed(s) == IF s.readers = 0 THEN [s EXCEPT !.open = FALSE] ELSE s

\* close of the reader's file, once.
ReaderClosed(s) ==
  IF s.readers = 0 THEN s ELSE SocketClosed([s EXCEPT !.readers = @ - 1])
\* HTTPConnection.close: it gives the socket away.
ConnectionClosed(s) == IF s.held THEN SocketClosed([s EXCEPT !.held = FALSE]) ELSE s

\* "finally": the reply, then the connection.
Over(how) ==
  /\ stage' = "idle" /\ outcome' = how
  /\ socket' = ConnectionClosed(ReaderClosed(socket))

-----------------------------------------------------------------------------
(* download and public_addresses *)

Begin ==
  \E host \in Hosts :
    /\ stage = "idle" /\ downloads < MaxDownloads
    /\ downloads' = downloads + 1 /\ hops' = <<host>> /\ expired' = FALSE
    /\ IF host \in Public THEN stage' = "look" /\ outcome' = "none"
       ELSE stage' = "idle" /\ outcome' = "unsafe_download_url"
    /\ total' = 0 /\ received' = 0 /\ declared' = Undeclared /\ socket' = NoSocket
    /\ UNCHANGED <<free, asked, answer, strays>>

\* The clock passes the deadline of the download.
Expire ==
  /\ stage # "idle" /\ ~expired /\ expired' = TRUE
  /\ UNCHANGED <<downloads, stage, hops, free, asked, answer, strays, socket,
                 declared, total, received, outcome>>

\* A slot and a thread, or no slot.
Look ==
  /\ stage = "look"
  /\ IF free = 0
     THEN Over("download_dns_busy") /\ UNCHANGED <<free, asked, answer>>
     ELSE /\ free' = free - 1 /\ asked' = TRUE /\ answer' = "none" /\ stage' = "waiting"
          /\ UNCHANGED <<socket, outcome>>
  /\ UNCHANGED <<downloads, hops, expired, strays, declared, total, received>>

\* The thread has its answer; its slot it gives back later.
Put ==
  \E found \in {"public", "private", "failed"} :
    /\ asked /\ asked' = FALSE /\ answer' = found /\ strays' = strays + 1
    /\ UNCHANGED <<downloads, stage, hops, expired, free, socket, declared, total,
                   received, outcome>>

\* A thread ends, and may be one that a download gave up long ago.
Release ==
  /\ strays > 0 /\ strays' = strays - 1 /\ free' = free + 1
  /\ UNCHANGED <<downloads, stage, hops, expired, asked, answer, socket, declared,
                 total, received, outcome>>

\* A late answer may still be taken, or the time is up and the thread left behind.
TakeAnswer ==
  /\ stage = "waiting"
  /\ \/ /\ answer = "public" /\ stage' = "connect" /\ UNCHANGED <<socket, outcome>>
     \/ answer = "private" /\ Over("private_download_target")
     \/ answer = "failed" /\ Over("download_dns_failed")
     \/ expired /\ Over("download_timeout")
  /\ asked' = FALSE /\ answer' = "none"
  /\ strays' = IF asked THEN strays + 1 ELSE strays
  /\ UNCHANGED <<downloads, hops, expired, free, declared, total, received>>

\* Past its deadline it does not connect; a socket of a failed handshake is closed.
OpenConnection ==
  /\ stage = "connect"
  /\ \/ expired /\ Over("download_timeout")
     \/ ~expired /\ Over("download_failed")
     \/ /\ ~expired /\ stage' = "request" /\ UNCHANGED outcome
        /\ socket' = [open |-> TRUE, readers |-> 0, held |-> TRUE]
  /\ UNCHANGED <<downloads, hops, expired, free, asked, answer, strays, declared,
                 total, received>>

\* connection.request, and getresponse, which makes the reader; an error in the
\* reply's head closes what there is.
Ask ==
  /\ stage = "request"
  /\ \/ Over("download_failed")
     \/ expired /\ Over("download_timeout")
     \/ /\ ~expired /\ stage' = "reply" /\ UNCHANGED outcome
        /\ socket' = [socket EXCEPT !.readers = @ + 1]
  /\ UNCHANGED <<downloads, hops, expired, free, asked, answer, strays, declared,
                 total, received>>

HeadFails ==
  /\ stage = "reply"
  /\ \/ \E how \in {"download_failed", "download_http_failed", "download_redirect_limit"} : Over(how)
     \/ expired /\ Over("download_timeout")
  /\ UNCHANGED <<downloads, hops, expired, free, asked, answer, strays, declared,
                 total, received>>

\* What the next hop may be: a redirect leads to a trusted host, from a raw
\* file nowhere else, and never from one asset host away.
MayFollow(next) == Host \in Asset \cup {Raw} => next = Host

Redirect ==
  \E next \in Hosts :
    /\ stage = "reply"
    /\ IF Len(hops) = MaxHops THEN Over("download_redirect_limit") /\ UNCHANGED hops
       ELSE IF next \in OtherHosts THEN Over("unsafe_download_url") /\ UNCHANGED hops
       ELSE IF ~MayFollow(next) THEN Over("unsafe_redirect") /\ UNCHANGED hops
       ELSE /\ hops' = Append(hops, next) /\ stage' = "look" /\ UNCHANGED outcome
            /\ socket' = ConnectionClosed(ReaderClosed(socket))
    /\ received' = 0
    /\ UNCHANGED <<downloads, expired, free, asked, answer, strays, declared, total>>

\* 200: a server that closes after its reply makes the connection give the socket
\* to the reader at once.
AcceptReply ==
  \E length \in 0..Undeclared, closes \in BOOLEAN :
    /\ stage = "reply"
    /\ IF length = MaxBytes + 1 THEN Over("download_too_large") /\ UNCHANGED declared
       ELSE /\ stage' = "body" /\ declared' = length /\ UNCHANGED outcome
            /\ socket' = IF closes THEN ConnectionClosed(socket) ELSE socket
    /\ UNCHANGED <<downloads, hops, expired, free, asked, answer, strays, total, received>>

\* One block, with framing or not; http.client reads no more than was declared.
Read ==
  \E framing \in {0, 1} :
    /\ stage = "body" /\ ~expired /\ total < declared
    /\ received' = received + 1 + framing /\ total' = total + 1
    /\ IF received' > MaxBytes + Framing \/ total' > MaxBytes
       THEN Over("download_too_large") ELSE UNCHANGED <<stage, socket, outcome>>
    /\ UNCHANGED <<downloads, hops, expired, free, asked, answer, strays, declared>>

ReadFails ==
  /\ stage = "body"
  /\ Over(IF expired THEN "download_timeout" ELSE "download_failed")
  /\ UNCHANGED <<downloads, hops, expired, free, asked, answer, strays, declared,
                 total, received>>

\* The end of the body, or of the connection.
Finish ==
  /\ stage = "body" /\ ~expired
  /\ Over(IF declared # Undeclared /\ total # declared THEN "download_truncated" ELSE "done")
  /\ UNCHANGED <<downloads, hops, expired, free, asked, answer, strays, declared,
                 total, received>>

DownloadNext ==
  \/ Begin \/ Expire \/ Look \/ Put \/ Release \/ TakeAnswer \/ OpenConnection \/ Ask
  \/ HeadFails \/ Redirect \/ AcceptReply \/ Read \/ ReadFails \/ Finish

DownloadSpec == DownloadInit /\ [][DownloadNext]_downloadVars

-----------------------------------------------------------------------------
\* However a download ends, by any reply, error or its deadline: no socket stays
\* open and none is closed under its reader (downloads.py:121-132), a resolver
\* thread that outlives it still accounts for its slot (56-73), only trusted hosts
\* were asked, raw files and assets by themselves only (225-232), and what it
\* returns is whole (237-254).
DownloadContained ==
  /\ stage \notin {"request", "reply", "body"} => ~socket.open
  /\ stage = "body" => socket.open
  /\ free + strays + (IF asked THEN 1 ELSE 0) = DnsSlots
  /\ downloads > 0 =>
       /\ hops[1] \in Public \/ outcome = "unsafe_download_url"
       /\ Len(hops) <= MaxHops
       /\ \A i \in 2..Len(hops) :
            /\ hops[i] \in Public \cup Asset
            /\ hops[i - 1] \in Asset \cup {Raw} => hops[i] = hops[i - 1]
  /\ outcome = "done" => total <= MaxBytes /\ declared \in {total, Undeclared}
=============================================================================
