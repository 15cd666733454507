----------------------------- MODULE Downloader -----------------------------
(***************************************************************************)
(* src/moderntools.cpp with include/skutils/net_tools.h: the releases of   *)
(* the tools that were asked for are looked up, and each of their files is *)
(* downloaded on a thread of its own.  The network answers as it likes.  A *)
(* file is a sequence of the blocks that were written to it.               *)
(***************************************************************************)
EXTENDS Integers, Sequences, FiniteSets

CONSTANTS
    Repos,     \* repositories
    Names,     \* names of tools, some of which no repository may have
    Name,      \* [Repos -> Names], FromRepoToName(): what follows the slash, which may be shared
    Defaults,  \* the repositories of GetDefaultToolSet(), a sequence
    Links,     \* [Repos -> sets of links that the latest release has for this system]
    FileName,  \* [links -> what follows their last slash]
    OneFile,   \* the path of -o, if it has an extension
    Blocks,    \* in how many pieces each download arrives
    MaxNew     \* bound on the arguments of --tool that are repositories

ASSUME DownAssumption ==
    /\ \A r \in Repos : Name[r] \in Names
    /\ Defaults \in Seq(Repos)
    /\ Blocks \in Nat \ {0}
    /\ OneFile \notin {FileName[u] : u \in DOMAIN FileName}

VARIABLES
    command,    \* "all", "latest" (-c) or "some", with
    request,    \*   a sequence of what --tool names
    toFile,     \* whether -o is OneFile, and not a directory
    tools,      \* tools_: the repository of each
    links,      \* the keys of download_links of each
    answer,     \* what release_future of each holds: "none", "pending" or an answer
    main,       \* where main() is: "register", "extract", "check" or "end"; or how it
                \*   died: of an answer ("terminated") or of a download ("aborted")
    turn,       \* which argument or tool its loop has reached
    downloads,  \* [started downloads -> "opening", "writing", "ok", "failed", "threw"]
    written,    \* how many blocks each has received
    disk,       \* what the files hold
    announced,  \* history: what was printed of each download
    asked,      \* history: how often each repository was looked up
    handles,    \* curl handles that are in use
    unopened,   \* history: how many files, or their directories, could not be made
    lost        \* history: the files of which a write failed

downVars == <<command, request, toFile, tools, links, answer, main, turn, downloads, written,
              disk, announced, asked, handles, unopened, lost>>

\* where nothing was written, in front of something
Hole == "hole"

\* EnsuredFilePath(): in a directory, a file is called what its link ends in.
Target(u) == IF toFile THEN OneFile ELSE FileName[u]

\* An argument of --tool is a repository, which is registered and then replaced by its
\* name, or the name of a tool.
Arguments == ({"repo"} \X Repos) \cup ({"name"} \X Names)
NameOf(a) == IF a[1] = "repo" THEN Name[a[2]] ELSE a[2]

\* tool_references_, or in Download() the tools of a name that was asked for
Selected == IF command # "some" THEN 1 .. Len(Defaults)
            ELSE {i \in 1 .. Len(tools) :
                    \E k \in 1 .. Len(request) : NameOf(request[k]) = Name[tools[i]]}

DownInit ==
    /\ \/ command \in {"all", "latest"} /\ request = <<>>
       \/ /\ command = "some"
          /\ request \in UNION {[1 .. n -> Arguments] : n \in 1 .. 2}
          /\ Cardinality({k \in DOMAIN request : request[k][1] = "repo"}) <= MaxNew
    /\ toFile \in BOOLEAN
    /\ tools = Defaults
    /\ links = [i \in 1 .. Len(Defaults) |-> {}]
    /\ answer = [i \in 1 .. Len(Defaults) |-> "none"]
    /\ main = "register"
    /\ turn = 1
    /\ downloads = <<>>
    /\ written = <<>>
    /\ disk = <<>>
    /\ announced = <<>>
    /\ asked = [r \in Repos |-> 0]
    /\ handles = 0
    /\ unopened = 0
    /\ lost = {}

\* What a look-up may return: a release, an error with a text, or what Json::parse() or
\* at() throws for.
Answers == {"release", "error", "malformed"}

\* AsyncDownloader::FetchAsString() of the thread of tool i; its handle lives as long as it.
Respond(i) ==
    /\ answer[i] = "pending"
    /\ \E a \in Answers : answer' = [answer EXCEPT ![i] = a]
    /\ asked' = [asked EXCEPT ![tools[i]] = @ + 1]
    /\ UNCHANGED <<command, request, toFile, tools, links, main, turn, downloads, written,
                   disk, announced, handles, unopened, lost>>

-----------------------------------------------------------------------------
(* main() *)

\* RegisterNewRepo() of a repository, whether or not it is there already; a name is only
\* looked for, later.
Register ==
    /\ main = "register"
    /\ turn <= Len(request)
    /\ turn' = turn + 1
    /\ \/ request[turn][1] = "name" /\ UNCHANGED <<tools, links, answer, main, asked>>
       \/ /\ request[turn][1] = "repo"
          /\ asked' = [asked EXCEPT ![request[turn][2]] = @ + 1]
          /\ \E a \in Answers :
               \/ a = "malformed" /\ main' = "terminated" /\ UNCHANGED <<tools, links, answer>>
               \/ /\ a # "malformed"
                  /\ tools' = Append(tools, request[turn][2])
                  /\ links' = Append(links, IF a = "release" THEN Links[request[turn][2]] ELSE {})
                  /\ answer' = Append(answer, "none")
                  /\ UNCHANGED main
    /\ UNCHANGED <<command, request, toFile, downloads, written, disk, announced, handles,
                   unopened, lost>>

\* A mistake that the property below must tell from the code: every tool is looked up.
Bug_Fetch ==
    /\ main = "register"
    /\ turn > Len(request)
    /\ main' = "extract"
    /\ turn' = 1
    /\ answer' = [i \in DOMAIN tools |-> "pending"]
    /\ UNCHANGED <<command, request, toFile, tools, links, downloads, written, disk,
                   announced, asked, handles, unopened, lost>>

\* (1) of AsyncFetchLatestReleaseInfo(), for all of the selected tools
Fetch ==
    /\ main = "register"
    /\ turn > Len(request)
    /\ main' = "extract"
    /\ turn' = 1
    /\ answer' = [i \in DOMAIN tools |-> IF i \in Selected THEN "pending" ELSE answer[i]]
    /\ UNCHANGED <<command, request, toFile, tools, links, downloads, written, disk,
                   announced, asked, handles, unopened, lost>>

\* (2) SyncAndExtractLinkFromRelease(): emplace() adds the links that are not there.
Extract ==
    /\ main = "extract"
    /\ turn <= Len(tools)
    /\ turn \in Selected => answer[turn] # "pending"
    /\ turn' = turn + 1
    /\ main' = IF turn \in Selected /\ answer[turn] = "malformed" THEN "terminated" ELSE main
    /\ links' = IF turn \in Selected /\ answer[turn] = "release"
                  THEN [links EXCEPT ![turn] = @ \cup Links[tools[turn]]]
                  ELSE links
    /\ UNCHANGED <<command, request, toFile, tools, answer, downloads, written, disk,
                   announced, asked, handles, unopened, lost>>

\* (3) of AsyncDownloadToDirectory(); ShowLatestVersion() prints instead and is over.
Start ==
    /\ main = "extract"
    /\ turn > Len(tools)
    /\ main' = IF command = "latest" THEN "end" ELSE "check"
    /\ downloads' = IF command = "latest" THEN downloads
               ELSE [d \in {x \in Selected \X DOMAIN FileName : x[2] \in links[x[1]]} |-> "opening"]
    /\ written' = [d \in DOMAIN downloads' |-> 0]
    /\ turn' = 1
    /\ UNCHANGED <<command, request, toFile, tools, links, answer, disk, announced, asked,
                   handles, unopened, lost>>

\* (4) SyncAndCheckDownloadTask() of one tool after the other: get() rethrows what a
\* download threw, when some of that tool's are announced, and nothing catches it.
Check ==
    /\ main = "check"
    /\ turn <= Len(tools)
    /\ LET mine == {d \in DOMAIN downloads : d[1] = turn}
           over == {d \in mine : downloads[d] \in {"ok", "failed"}}
           announce(S) == announced' = [d \in DOMAIN announced \cup S |->
                                          IF d \in S THEN downloads[d] ELSE announced[d]]
       IN \/ over = mine /\ announce(mine) /\ turn' = turn + 1 /\ UNCHANGED main
          \/ /\ \E d \in mine : downloads[d] = "threw"
             /\ \E S \in SUBSET over : announce(S)
             /\ main' = "aborted"
             /\ UNCHANGED turn
    /\ UNCHANGED <<command, request, toFile, tools, links, answer, downloads, written, disk,
                   asked, handles, unopened, lost>>

Finish ==
    /\ main = "check"
    /\ turn > Len(tools)
    /\ main' = "end"
    /\ UNCHANGED <<command, request, toFile, tools, links, answer, turn, downloads, written,
                   disk, announced, asked, handles, unopened, lost>>

-----------------------------------------------------------------------------
(* AsyncDownloader::DownloadToFile(), a thread for each download *)

\* There may be no handle.  The file is created or emptied; if it cannot be, or
\* create_directories() throws, the handle is not cleaned up.
OpenFile(d) ==
    /\ downloads[d] = "opening"
    /\ \/ /\ downloads' = [downloads EXCEPT ![d] = "failed"]
          /\ UNCHANGED <<disk, handles, unopened>>
       \/ /\ \E how \in {"failed", "threw"} : downloads' = [downloads EXCEPT ![d] = how]
          /\ handles' = handles + 1
          /\ unopened' = unopened + 1
          /\ UNCHANGED disk
       \/ /\ downloads' = [downloads EXCEPT ![d] = "writing"]
          /\ handles' = handles + 1
          /\ disk' = [f \in DOMAIN disk \cup {Target(d[2])} |->
                        IF f = Target(d[2]) THEN <<>> ELSE disk[f]]
          /\ UNCHANGED unopened
    /\ UNCHANGED <<command, request, toFile, tools, links, answer, main, turn, written,
                   announced, asked, lost>>

\* WriteFileCallback(): a block is written where the stream stands.  If it cannot be, the
\* stream is bad from then on, and curl is told all the same that it was written.
Write(d) ==
    /\ downloads[d] = "writing"
    /\ written[d] < Blocks
    /\ written' = [written EXCEPT ![d] = @ + 1]
    /\ LET f == Target(d[2])
           here == written[d] + 1
           block(k) == IF k = here THEN d[2] ELSE IF k <= Len(disk[f]) THEN disk[f][k] ELSE Hole
       IN \/ /\ d \notin lost
             /\ disk' = [disk EXCEPT ![f] = [k \in (1 .. Len(@)) \cup (1 .. here) |-> block(k)]]
             /\ UNCHANGED lost
          \/ lost' = lost \cup {d} /\ UNCHANGED disk
    /\ UNCHANGED <<command, request, toFile, tools, links, answer, main, turn, downloads,
                   announced, asked, handles, unopened>>

\* All has arrived and the status is 2xx; or the transfer fails, as it may at any time.
EndDownload(d) ==
    /\ downloads[d] = "writing"
    /\ \/ written[d] = Blocks /\ downloads' = [downloads EXCEPT ![d] = "ok"]
       \/ downloads' = [downloads EXCEPT ![d] = "failed"]
    /\ handles' = handles - 1
    /\ UNCHANGED <<command, request, toFile, tools, links, answer, main, turn, written, disk,
                   announced, asked, unopened, lost>>

DownNext ==
    /\ main \notin {"terminated", "aborted"}
    /\ \/ Register \/ Fetch \/ Extract \/ Start \/ Check \/ Finish
       \/ \E i \in DOMAIN answer : Respond(i)
       \/ \E d \in DOMAIN downloads : OpenFile(d) \/ Write(d) \/ EndDownload(d)

DownSpec == DownInit /\ [][DownNext]_downVars

-----------------------------------------------------------------------------
(* Properties *)

DownTypeOK ==
    /\ DOMAIN links = DOMAIN tools /\ DOMAIN answer = DOMAIN tools
    /\ \A i \in DOMAIN tools : tools[i] \in Repos /\ links[i] \subseteq Links[tools[i]]
    /\ \A d \in DOMAIN downloads : written[d] \in 0 .. Blocks

\* A repository is looked up only if its name was asked for, once for each tool and once when
\* it is registered: the constructor looks nothing up for that reason.  Another repository of
\* the same name is looked up all the same.
AsksForWantedOnly ==
    \A r \in Repos :
      /\ asked[r] <= Cardinality({i \in Selected : tools[i] = r})
                     + Cardinality({k \in DOMAIN request : request[k] = <<"repo", r>>})
      /\ command = "some" /\ asked[r] > 0 => \E k \in DOMAIN request : NameOf(request[k]) = Name[r]

\* At the end every link of a selected tool was announced, as what became of it; the program
\* ends before that only if a download threw.
EverythingAnnounced ==
    /\ main = "end" /\ command # "latest" =>
         announced = [d \in {x \in Selected \X DOMAIN FileName : x[2] \in links[x[1]]} |-> downloads[d]]
    /\ main = "aborted" => \E d \in DOMAIN downloads : downloads[d] = "threw"
    /\ \A d \in DOMAIN announced : announced[d] \in {"ok", "failed"}

\* A download that is announced as a success has left a whole file, unless a write failed
\* or another download wrote to that file: one for a tool of the default set that was
\* registered again, for a file of the same name, or for the file that -o names.
SuccessIsWhole ==
    \A d \in DOMAIN announced :
      announced[d] = "ok" =>
        \/ disk[Target(d[2])] = [k \in 1 .. Blocks |-> d[2]]
        \/ d \in lost
        \/ \E e \in DOMAIN downloads \ {d} : Target(e[2]) = Target(d[2])

\* At the end the handles that are left are those of the files that could not be opened.
HandlesCleanedUp == main = "end" => handles = unopened

\* The downloader asks for no more than it must, tells the truth of every download that
\* has its file for itself, and forgets none.
DownloaderCorrect ==
    DownTypeOK /\ AsksForWantedOnly /\ EverythingAnnounced /\ SuccessIsWhole /\ HandlesCleanedUp
=============================================================================
