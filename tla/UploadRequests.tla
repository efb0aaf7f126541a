--------------------------- MODULE UploadRequests ---------------------------
(***************************************************************************)
(* nas/upload-admin-helper.py: one process per request.  It reads one JSON *)
(* object from its standard input under an alarm, turns it into the        *)
(* arguments of the upload application's own CLI and becomes that command. *)
(* Texts are told apart by what the checks see of them.                    *)
(***************************************************************************)
EXTENDS Integers

CONSTANTS
    Labels, Folders,            \* texts the caller sends, as classes of TextClasses
    Profiles,                   \* allowed profiles and others
    Ttls, FileSizes, FileCounts, Quotas,  \* numbers the caller sends
    Malformed                   \* bodies that are no JSON object of distinct fields

VARIABLES
    request,  \* what the caller sent: the action and the body
    helper,   \* the step the process is at
    alarmed,  \* is the alarm of REQUEST_TIMEOUT_SECONDS running
    command   \* the arguments of the command the process became

uploadVars == <<request, helper, alarmed, command>>

Actions == {"open", "list", "close", "sweep"}
MIN_TTL_SECONDS == 300
MAX_TTL_SECONDS == 7 * 24 * 60 * 60
MAX_FILE_BYTES == 512 * 1024 * 1024
MAX_FILES == 500
MAX_QUOTA_BYTES == 1024 * 1024 * 1024

\* "lone": printable but for a lone surrogate, which UTF-8 cannot encode.
TextClasses == {"segment", "phrase", "empty", "padded", "long", "wide", "control", "lone", "number"}

None == "none"
NoBody == [malformed |-> None]

\* A field is sent or not; 0, outside every range, stands for a value of
\* another type, TRUE among them.
Sent(values) == {<<v>> : v \in values}
Maybe(values) == {<<>>} \cup Sent(values)

OpenBodies == [label : Maybe(Labels), folder : Maybe(Folders), profile : Maybe(Profiles),
               ttlSeconds : Maybe(Ttls), maxFileBytes : Maybe(FileSizes),
               maxFiles : Maybe(FileCounts), quotaBytes : Maybe(Quotas), other : BOOLEAN]
Ids == {"canonical", "variant", "garbage", "number"}
CloseBodies == [inviteId : Maybe(Ids), other : BOOLEAN]
BareBodies == [other : BOOLEAN]

Bodies(action) ==
    {[malformed |-> m] : m \in Malformed} \cup (CASE action = "open" -> OpenBodies
                      [] action = "close" -> CloseBodies
                      [] OTHER -> BareBodies)

IsObject(b) == "malformed" \notin DOMAIN b

Or(field, default) == IF field = <<>> THEN default ELSE field[1]

-----------------------------------------------------------------------------
(* The checks: RequestError refuses, any other exception is a traceback.   *)

TextOK(t) == t \in {"segment", "phrase"}
FolderOK(t) == t = "segment"

\* _integer: both ends are allowed.
Integral(field, low, high) == field = <<>> \/ field[1] \in low .. high

\* Mutant: a time to live is cut to whole minutes.
AnyMinutes(b) == TRUE
WholeMinutes(b) == Or(b.ttlSeconds, 24 * 60 * 60) % 60 = 0

FileFitsQuota(b) == Or(b.maxFileBytes, MAX_FILE_BYTES) <= Or(b.quotaBytes, MAX_QUOTA_BYTES)

OpenOK(b) ==
    /\ b.label # <<>> /\ ~b.other
    /\ TextOK(b.label[1])
    /\ Or(b.profile, "photos") \in {"photos", "videos", "both", "live"}
    /\ Integral(b.ttlSeconds, MIN_TTL_SECONDS, MAX_TTL_SECONDS)
    /\ WholeMinutes(b)
    /\ Integral(b.maxFileBytes, 1, MAX_FILE_BYTES)
    /\ Integral(b.maxFiles, 1, MAX_FILES)
    /\ Integral(b.quotaBytes, 1, MAX_QUOTA_BYTES)
    /\ FileFitsQuota(b)
    /\ b.folder = <<>> \/ FolderOK(b.folder[1])

Accepts(action, b) ==
    /\ IsObject(b)
    /\ CASE action = "open" -> OpenOK(b)
         [] action = "close" -> b.inviteId = <<"canonical">> /\ ~b.other
         [] OTHER -> ~b.other

\* _text encodes before it asks whether the value is printable, and nothing
\* catches what the encoding raises.
Unencodable(action, b) ==
    /\ action = "open" /\ IsObject(b)
    /\ b.label # <<>> /\ ~b.other
    /\ \/ b.label[1] = "lone"
       \/ b.folder = <<"lone">> /\ OpenOK([b EXCEPT !.folder = <<>>])

\* json.loads may raise RecursionError, depending on the version of Python.
TooDeep(b) == b = [malformed |-> "nested"]

\* Mutant: the number of files is always the default one.
DefaultFiles(b) == MAX_FILES
Files(b) == Or(b.maxFiles, MAX_FILES)

Argv(action, b) ==
    CASE action = "open" ->
           [do |-> action, label |-> b.label[1], profile |-> Or(b.profile, "photos"),
            minutes |-> Or(b.ttlSeconds, 24 * 60 * 60) \div 60,
            maxFile |-> Or(b.maxFileBytes, MAX_FILE_BYTES), maxFiles |-> Files(b),
            quota |-> Or(b.quotaBytes, MAX_QUOTA_BYTES), folder |-> b.folder]
      [] action = "close" -> [do |-> action, invite |-> b.inviteId[1]]
      [] OTHER -> [do |-> action]

-----------------------------------------------------------------------------
(* main                                                                    *)

\* The gate of forward-command.sh starts the helper for one of the actions.
Call ==
    /\ helper = "idle"
    /\ \E a \in Actions : request' = [action |-> a, body |-> NoBody]
    /\ helper' = "reading"
    /\ alarmed' = TRUE
    /\ UNCHANGED command

\* The body ends, or is longer than MAX_REQUEST_BYTES.
ReadBody ==
    /\ helper = "reading"
    /\ \E b \in Bodies(request.action) : request' = [request EXCEPT !.body = b]
    /\ helper' = "read"
    /\ UNCHANGED <<alarmed, command>>

\* Mutant: the alarm is left running.
StillAlarmed ==
    /\ helper = "read"
    /\ helper' = "checking"
    /\ UNCHANGED <<request, alarmed, command>>

\* The finally clause, with or without a RequestError on its way.
Disarm ==
    /\ helper = "read"
    /\ alarmed' = FALSE
    /\ helper' = "checking"
    /\ UNCHANGED <<request, command>>

Check ==
    /\ helper = "checking"
    /\ LET a == request.action
           b == request.body
       IN IF Accepts(a, b) THEN helper' = "running" /\ command' = Argv(a, b)
          ELSE /\ helper' \in {IF Unencodable(a, b) THEN "crashed" ELSE "refused"}
                               \cup (IF TooDeep(b) THEN {"crashed"} ELSE {})
               /\ UNCHANGED command
    /\ UNCHANGED <<request, alarmed>>

\* The alarm raises RequestError in the helper, and would kill the command.
Alarm ==
    /\ alarmed
    /\ alarmed' = FALSE
    /\ helper' = IF helper = "running" THEN "killed" ELSE "refused"
    /\ UNCHANGED <<request, command>>

Done ==
    /\ helper \in {"running", "refused", "crashed", "killed"}
    /\ helper' = "idle"
    /\ request' = [action |-> None, body |-> NoBody]
    /\ alarmed' = FALSE
    /\ command' = [do |-> None]

UploadInit ==
    /\ request = [action |-> None, body |-> NoBody]
    /\ helper = "idle"
    /\ alarmed = FALSE
    /\ command = [do |-> None]

UploadNext == Call \/ ReadBody \/ Disarm \/ Check \/ Done \/ Alarm

UploadSpec == UploadInit /\ [][UploadNext]_uploadVars

-----------------------------------------------------------------------------
(* The drop that the application opens is the one the caller asked for: it *)
(* has the label, the folder and the profile that were sent, it lasts to   *)
(* the second as long (request_to_argv: seconds become minutes), and every *)
(* limit that was sent is kept; what was not sent is within the hard       *)
(* limits, and one file never exceeds the whole quota, also where a        *)
(* default fills in.                                                       *)
OpensWhatWasAsked ==
    helper = "running" /\ command.do = "open" =>
        LET b == request.body IN
        /\ command.label = b.label[1] /\ command.folder = b.folder
        /\ command.profile = IF b.profile = <<>> THEN "photos" ELSE b.profile[1]
        /\ b.ttlSeconds # <<>> => command.minutes * 60 = b.ttlSeconds[1]
        /\ 5 <= command.minutes /\ command.minutes <= 7 * 24 * 60
        /\ b.maxFileBytes # <<>> => command.maxFile = b.maxFileBytes[1]
        /\ b.quotaBytes # <<>> => command.quota = b.quotaBytes[1]
        /\ b.maxFiles # <<>> => command.maxFiles = b.maxFiles[1]
        /\ 1 <= command.maxFile /\ command.maxFile <= command.quota
        /\ command.quota <= MAX_QUOTA_BYTES
        /\ command.maxFiles \in 1 .. MAX_FILES

(* The alarm runs as long as a caller may withhold the end of its body,    *)
(* and never into the command: it would survive the execve and kill docker *)
(* exec in the middle of its work.                                         *)
CommandUndisturbed ==
    /\ helper = "reading" => alarmed
    /\ helper = "running" => ~alarmed
=============================================================================
