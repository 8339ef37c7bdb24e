---------------------------- MODULE StorePrograms ---------------------------
(***************************************************************************)
(* The programs that own the data files of a component, as a config        *)
(* program starts them: which files each makes, in which order, how, and   *)
(* what it asks.  ConfigOwner runs them; this module holds what differs    *)
(* between them.  What the user sees after a question and what a file says *)
(* are left out: a file is missing, cut, blank or whole.                   *)
(***************************************************************************)
EXTENDS Sequences

(* One file of a program.  how:                                            *)
(*   "place"      truncated and written where it is, every call looked at; *)
(*   "unchecked"  the same, but a write that fails in the close is not     *)
(*                noticed;                                                 *)
(*   "database"   opened where it is, then given its tables;               *)
(*   "folder"     created with its parents;                                *)
(*   "replace"    written as a temporary file and moved over the file;     *)
(*   "keep"       the same, but a file already there stays and is fine;    *)
(*   "claim"      the same, but a file already there is a failure;         *)
(*   "locked"     replaced by the holder of a mutex;                       *)
(*   "timed"      the same, given up when the mutex is not had in time.    *)
(* when: "missing" (looked at before any question), "missing_twice" (and   *)
(* again after it), "always", or "may" (what is there may be kept).        *)
(* leaves: what a finished write leaves.  asks: "end" if the end of input  *)
(* ends the program with 1, "leave" if the user may do without the file,   *)
(* "blank" if an empty answer is stored, or keeps the answer there is.     *)
(* wants: files that must be there first; reads: files it must understand. *)
File(name, how) ==
  [name |-> name, how |-> how, when |-> "missing", leaves |-> "whole",
   asks |-> {}, wants |-> {}, reads |-> {}]
AskedFor(f) == [f EXCEPT !.asks = {"end"}]
AskedTwice(f) == [AskedFor(f) EXCEPT !.when = "missing_twice"]
Always(f) == [f EXCEPT !.when = "always"]
Blank(f) == [f EXCEPT !.leaves = "blank"]

(* A program ends at the first file it cannot make, or goes on and ends    *)
(* with 1 after the last.                                                  *)
Stops(files) == [files |-> files, goes |-> FALSE]
GoesOn(files) == [files |-> files, goes |-> TRUE]

-----------------------------------------------------------------------------
(* writer_editor.exe: the prompts and tasks in place, the notes a folder.  *)
SessionPrompts == File("session_prompts.list", "place")
TaskList == File("task.list", "place")
Notes == File("notes", "folder")
WriterEditorSeed == GoesOn(<< SessionPrompts, TaskList, Notes >>)
WriterEditorInit ==
  Stops(<< AskedTwice(SessionPrompts), AskedTwice(TaskList),
           [AskedFor(Notes) EXCEPT !.asks = {"end", "leave"}] >>)

(* server_editor.exe, and server_builder.exe, which writes the site under  *)
(* the document root.                                                      *)
Port == File("port.id", "place")
DocumentRoot == File("document_root.id", "place")
ServerEditorSeed == GoesOn(<< Port, DocumentRoot >>)
ServerEditorInit ==
  Stops(<< AskedTwice(Port), AskedTwice(DocumentRoot) >>)
Site(name) ==
  [File(name, "place") EXCEPT !.reads = {"document_root.id"}]
ServerBuilder == GoesOn(<< Site("index.html"), Site("styles.css") >>)

(* taskbar_builder.exe: a .map for each button that has none, then         *)
(* taskbar_ac.exe --refresh-cache.  Two buttons stand for all of them.     *)
Map(name) == File(name, "unchecked")
WinkeyCache == Always(File("winkey_map.cache", "timed"))
TaskbarBuilder == Stops(<< Map("one.map"), Map("other.map"), WinkeyCache >>)

(* wake_ac.exe --snapshot: the current event and, unless it is known, the  *)
(* previous one are written whatever is there; without a capture only what *)
(* is missing.                                                             *)
WakeSnapshot ==
  LET Event(name) == [File(name, "place") EXCEPT !.when = "may"]
  IN Stops(<< Event("current.event"), File("wake_events.log", "place"),
              Event("previous.event") >>)

(* itunes_db.exe --seed leaves a history.db that exists alone, whatever it *)
(* holds; itunes_formatter.exe replaces its two formats.                   *)
History == File("history.db", "database")
ItunesDb == Stops(<< History >>)
LibraryFormat == File("library.format", "replace")
SongFormat == File("song.format", "replace")
ItunesFormatterSeed == Stops(<< LibraryFormat, SongFormat >>)
ItunesFormatterInit ==
  Stops(<< AskedFor(LibraryFormat), AskedFor(SongFormat) >>)

(* The journal's owners.  --seed keeps an alias file that appeared in the  *)
(* meantime, --init replaces it.                                           *)
Aliases ==
  << "make_print_choice.list", "print_and_insert_into_journal.list",
     "roll_dice.list" >>
JournalBuilderSeed ==
  Stops([n \in DOMAIN Aliases |-> File(Aliases[n], "keep")])
JournalBuilderInit ==
  Stops([n \in DOMAIN Aliases |-> AskedFor(File(Aliases[n], "replace"))])
Firebase == File("firebase.id", "place")
JournalCloudSeed == Stops(<< Blank(Firebase) >>)
JournalCloudInit == Stops(<< AskedFor(Firebase) >>)
ClockFile == File("extended_hour.clock", "place")
JournalClockSeed == Stops(<< ClockFile >>)
JournalClockInit == Stops(<< AskedFor(ClockFile) >>)
SeriesDb == File("series.db", "claim")
JournalDbSeed == Stops(<< SeriesDb >>)
JournalDbInit == Stops(<< AskedFor(SeriesDb) >>)
JournalSeries ==
  Stops(<< [File("series.map", "place") EXCEPT !.wants = {"series.db"}] >>)

(* Spotify's owners.  A cancelled format is not a failure; the client id   *)
(* is seeded blank, and may be left blank.                                 *)
SpotifyDb == Stops(<< History >>)
SpotifyFormatterSeed == Stops(<< SongFormat >>)
SpotifyFormatterInit ==
  Stops(<< [SongFormat EXCEPT !.asks = {"leave"}] >>)
ClientId == File("client.id", "replace")
SpotifyEditorSeed == Stops(<< Blank(ClientId) >>)
SpotifyEditorClientId ==
  Stops(<< [Always(ClientId) EXCEPT !.asks = {"end", "blank"}] >>)
SpotifyOauth ==
  Stops(<< [AskedFor(File("tokens.map", "locked"))
              EXCEPT !.reads = {"client.id"}] >>)

(* components_editor.exe writes the list again; ComponentsList models it.  *)
ComponentsEditor ==
  Stops(<< AskedFor(Always(File("components.list", "place"))) >>)

-----------------------------------------------------------------------------
Stores ==
  [writer_editor_seed      |-> WriterEditorSeed,
   writer_editor_init      |-> WriterEditorInit,
   server_editor_seed      |-> ServerEditorSeed,
   server_editor_init      |-> ServerEditorInit,
   server_builder          |-> ServerBuilder,
   taskbar_builder         |-> TaskbarBuilder,
   wake_snapshot           |-> WakeSnapshot,
   itunes_db               |-> ItunesDb,
   itunes_formatter_seed   |-> ItunesFormatterSeed,
   itunes_formatter_init   |-> ItunesFormatterInit,
   journal_builder_seed    |-> JournalBuilderSeed,
   journal_builder_init    |-> JournalBuilderInit,
   journal_cloud_seed      |-> JournalCloudSeed,
   journal_cloud_init      |-> JournalCloudInit,
   journal_clock_seed      |-> JournalClockSeed,
   journal_clock_init      |-> JournalClockInit,
   journal_db_seed         |-> JournalDbSeed,
   journal_db_init         |-> JournalDbInit,
   journal_series          |-> JournalSeries,
   spotify_db              |-> SpotifyDb,
   spotify_formatter_seed  |-> SpotifyFormatterSeed,
   spotify_formatter_init  |-> SpotifyFormatterInit,
   spotify_editor_seed     |-> SpotifyEditorSeed,
   spotify_editor_client   |-> SpotifyEditorClientId,
   spotify_oauth           |-> SpotifyOauth,
   components_editor       |-> ComponentsEditor]

(* The files a program makes, and those it cannot end with 0 without.      *)
Slots(store) ==
  {Stores[store].files[n] : n \in DOMAIN Stores[store].files}
FilesOf(store) == {f.name : f \in Slots(store)}
Promised(store) ==
  {f.name : f \in {g \in Slots(store) : "leave" \notin g.asks}}
=============================================================================
