-------------------------- MODULE StateSaveProofs --------------------------
(* What a restart finds, what the purge thread deletes and what an orderly *)
(* stop leaves, for every range of job numbers and every number of jobs,   *)
(* failing writes, stops and crashes.                                      *)
EXTENDS StateSave, TLAPS

\* The prover of a leaf that names none.
USE Zenon

-----------------------------------------------------------------------------
(* The system calls on the state files.                                    *)

\* Writing through job_state.new changes the names that are links to it.
LEMMA PutFiles ==
  ASSUME NEW f \in Files, NEW c \in Content
  PROVE  /\ put(f, c) \in Files
         /\ put(f, c).new = c /\ put(f, c).same = f.same
         /\ put(f, c).reg = (IF "reg" \in f.same THEN c ELSE f.reg)
         /\ put(f, c).old = (IF "old" \in f.same THEN c ELSE f.old)
  BY DEF put, Files

\* The contents that are written are contents.
LEMMA Contents ==
  ASSUME SaveAssumption
  PROVE  /\ None \in Content /\ Empty \in Content
         /\ \A c \in Content : Part(c) \in Content
  <1>1. 0 \in 0 .. MAX_JOB_ID - 1 /\ {} \in SUBSET Ids  BY SMT DEF SaveAssumption
  <1>2. None \in Content /\ Empty \in Content  BY <1>1 DEF None, Empty, Content
  <1>3. \A c \in Content : Part(c) \in Content  BY <1>1 DEF Part, Content
  <1> QED  BY <1>2, <1>3

\* What is under the three names at each point of the file shuffle.
LEMMA ShuffledFiles ==
  ASSUME SaveAssumption, NEW f \in Files
  PROVE  /\ \A i \in 2 .. 6 : shuffled(f)[i] \in Files
         /\ shuffled(f)[2].reg = f.reg /\ shuffled(f)[2].old = None
         /\ shuffled(f)[3].reg = f.reg /\ shuffled(f)[3].old = f.reg
         /\ shuffled(f)[4].reg = None /\ shuffled(f)[4].old = f.reg
         /\ shuffled(f)[5].reg = f.new
         /\ shuffled(f)[6].reg = f.new /\ shuffled(f)[6].new = None /\ shuffled(f)[6].same = {}
  <1> DEFINE a == unlink_old(f)  b == link_old(a)  c == unlink_reg(b)  d == link_reg(c)
             e == unlink_new(d)
  <1>0. None \in Content  BY Contents
  <1>1. a \in Files /\ a.reg = f.reg /\ a.old = None /\ a.new = f.new
      BY <1>0 DEF unlink_old, Files
  <1> HIDE DEF a
  <1>2. b \in Files /\ b.reg = a.reg /\ b.old = a.reg /\ b.new = a.new
      BY <1>1 DEF link_old, Files
  <1> HIDE DEF b
  <1>3. c \in Files /\ c.reg = None /\ c.old = b.old /\ c.new = b.new
      BY <1>0, <1>2 DEF unlink_reg, Files
  <1> HIDE DEF c
  <1>4. d \in Files /\ d.reg = c.new
      BY <1>3 DEF link_reg, Files
  <1> HIDE DEF d
  <1>5. e \in Files /\ e.reg = d.reg /\ e.new = None /\ e.same = {}
      BY <1>0, <1>4 DEF unlink_new, Files
  <1> HIDE DEF e
  <1>6. shuffled(f) = <<f, a, b, c, d, e>>
      BY DEF shuffled, a, b, c, d, e
  <1>7. /\ shuffled(f)[2] = a /\ shuffled(f)[3] = b /\ shuffled(f)[4] = c
        /\ shuffled(f)[5] = d /\ shuffled(f)[6] = e
      BY <1>6, SMT
  <1>8. \A i \in 2 .. 6 : i = 2 \/ i = 3 \/ i = 4 \/ i = 5 \/ i = 6
      BY SMT
  <1> QED  BY <1>1, <1>2, <1>3, <1>4, <1>5, <1>7, <1>8

\* Unlinking job_state.new leaves the other two names alone.
LEMMA UnlinkNewFiles ==
  ASSUME SaveAssumption, NEW f \in Files
  PROVE  /\ unlink_new(f) \in Files /\ unlink_new(f).reg = f.reg /\ unlink_new(f).old = f.old
         /\ unlink_new(f).new = None /\ unlink_new(f).same = {}
  BY Contents DEF unlink_new, Files

-----------------------------------------------------------------------------
(* The inductive invariant.                                                *)

Flags ==
  /\ locks_set \in BOOLEAN /\ missed \in BOOLEAN /\ save_jobs \in BOOLEAN
  /\ run_save_thread \in BOOLEAN /\ failed \in BOOLEAN

Types ==
  /\ ctld \in {"down", "up", "stopping", "saving", "joining"}
  /\ job_list \subseteq Ids /\ dirs \subseteq Ids
  /\ job_id_sequence \in 0 .. MAX_JOB_ID - 1
  /\ purger \in {"none", "test", "about", "wait", "work"}
  /\ saver \in {"none", "wait", "header", "records", "write"}
  /\ buffer \in Content /\ saved \in Content /\ fs \in Files
  /\ cut \in Nat

(* After a completed dump job_state is what it wrote and nothing is a link *)
(* to job_state.new, so that the next dump may be cut short anywhere.      *)
Dumps ==
  /\ saved = None \/ saved.state = "full"
  /\ saver \in {"records", "write"} => buffer.state = "full"
  /\ cut = 0 => /\ fs.same = {} /\ fs.reg = saved
                /\ saved = None => fs.old = None
  /\ cut <= 1 => _open_job_state_file = saved

(* A queued job that had a directory keeps it, and with it its number,     *)
(* until the only entry it has in the queue is served.                     *)
Queue ==
  /\ purge_files_list \in Seq(Ids) /\ bare \subseteq Range(purge_files_list)
  /\ ctld = "down" => purge_files_list = << >>
  /\ Range(purge_files_list) \cap job_list \subseteq bare
  /\ Range(purge_files_list) \subseteq dirs \cup bare
  /\ \A i, j \in 1 .. Len(purge_files_list) :
       i # j /\ purge_files_list[i] = purge_files_list[j] => purge_files_list[i] \in bare

(* Once save_all_state() has asked for it, a dump of what is in memory is  *)
(* due, under way or done.                                                 *)
Stopping ==
  /\ saver = "none" => ctld \in {"down", "joining"}
  /\ saver = "none" /\ ctld = "joining" => ~save_jobs
  /\ run_save_thread \/ ctld = "joining"
  /\ ctld \in {"saving", "joining"} =>
       /\ saver \in {"wait", "none"} => locks_set \/ save_jobs \/ failed \/ saved = Memory
       /\ saver = "records" => locks_set \/ save_jobs \/ buffer.seq = job_id_sequence
       /\ saver = "write" => locks_set \/ save_jobs \/ buffer = Memory

(* Whatever a stop does, a job that was submitted is in the file, or in    *)
(* the dump under way, or a dump has been asked for.                       *)
Asked ==
  /\ saver = "write" => save_jobs \/ job_list \subseteq buffer.jobs
  /\ ctld # "down" /\ saver \in {"wait", "none"} =>
       save_jobs \/ failed \/ job_list \subseteq _open_job_state_file.jobs

Inv == Types /\ Flags /\ Dumps /\ Queue /\ Stopping /\ Asked

\* The invariant holds before slurmctld is started for the first time.
LEMMA InitInv == SaveAssumption /\ Init => Inv
  <1> SUFFICES ASSUME SaveAssumption, Init PROVE Inv  OBVIOUS
  <1>1. Types  BY Contents, SMT DEF Init, Types, SaveAssumption, Ids, Files
  <1>2. Flags  BY DEF Init, Flags
  <1>3. Dumps  BY DEF Init, Dumps, None, _open_job_state_file
  <1>4. Queue
    <2>1. purge_files_list = << >> /\ bare = {} /\ job_list = {}  BY DEF Init
    <2>2. Range(purge_files_list) = {}  BY <2>1, SMT DEF Range
    <2> QED  BY <2>1, <2>2, SMT DEF Queue
  <1>5. Stopping  BY DEF Init, Stopping
  <1>6. Asked  BY DEF Init, Asked
  <1> QED  BY <1>1, <1>2, <1>3, <1>4, <1>5, <1>6 DEF Inv

-----------------------------------------------------------------------------
(* Every step keeps it.                                                    *)

\* The files that a dump may leave are files.
LEMMA WrittenFiles ==
  ASSUME SaveAssumption, NEW f \in Files, NEW c \in Content, NEW g \in written(f, c)
  PROVE  /\ g \in Files
         /\ f.same = {} => g.reg = f.reg /\ g.old = f.old
  <1>1. open_new(f) \in Files /\ open_new(f).same = f.same
        /\ (f.same = {} => open_new(f).reg = f.reg /\ open_new(f).old = f.old)
      BY Contents, PutFiles DEF open_new
  <1> DEFINE o == open_new(f)
  <1> HIDE DEF o
  <1>2. \A d \in Content : /\ put(o, d) \in Files
                           /\ f.same = {} => put(o, d).reg = f.reg /\ put(o, d).old = f.old
      BY <1>1, PutFiles DEF o
  <1>3. g = o \/ g = put(o, Part(c)) \/ g = put(o, c)
      BY DEF written, o
  <1> QED  BY <1>1, <1>2, <1>3, Contents DEF o

\* The file that a dump has written, before the shuffle.
LEMMA WholeFile ==
  ASSUME SaveAssumption, NEW f \in Files, NEW c \in Content
  PROVE  /\ put(open_new(f), c) \in Files /\ put(open_new(f), c).new = c
         /\ f.same = {} => put(open_new(f), c).reg = f.reg
  BY Contents, PutFiles, SMT DEF open_new

\* What a shuffle leaves in which one of the links could not be made.
LEMMA UnlinkedFiles ==
  ASSUME SaveAssumption, NEW f \in Files
  PROVE  /\ unlink_new(link_reg(unlink_reg(unlink_old(f)))) \in Files
         /\ unlink_new(link_reg(unlink_reg(unlink_old(f)))).reg = f.new
         /\ unlink_new(link_reg(unlink_reg(unlink_old(f)))).same = {}
         /\ unlink_new(unlink_reg(link_old(unlink_old(f)))) \in Files
         /\ unlink_new(unlink_reg(link_old(unlink_old(f)))).reg = None
         /\ unlink_new(unlink_reg(link_old(unlink_old(f)))).old = f.reg
  <1> DEFINE a == unlink_old(f)  b == unlink_reg(a)  c == link_reg(b)
             d == link_old(a)  e == unlink_reg(d)
  <1>1. a \in Files /\ a.new = f.new /\ a.reg = f.reg  BY Contents DEF unlink_old, Files
  <1> HIDE DEF a
  <1>2. b \in Files /\ b.new = f.new  BY <1>1, Contents DEF unlink_reg, Files
  <1>3. d \in Files /\ d.old = f.reg  BY <1>1 DEF link_old, Files
  <1> HIDE DEF b, d
  <1>4. c \in Files /\ c.reg = f.new  BY <1>2 DEF link_reg, Files
  <1>5. e \in Files /\ e.reg = None /\ e.old = f.reg  BY <1>3, Contents DEF unlink_reg, Files
  <1> HIDE DEF c, e
  <1>6. /\ unlink_new(c) \in Files /\ unlink_new(c).reg = f.new /\ unlink_new(c).same = {}
        /\ unlink_new(e) \in Files /\ unlink_new(e).reg = None /\ unlink_new(e).old = f.reg
      BY <1>4, <1>5, UnlinkNewFiles
  <1> QED  BY <1>6 DEF a, b, c, d, e

\* Every step keeps the types of the variables that hold no Boolean.
LEMMA TypesStep ==
  ASSUME SaveAssumption, Types, Flags, Dumps, Queue, Next \/ UNCHANGED vars
  PROVE  Types'
  <1> USE DEF Types, Goto, vars, job_vars, purge_vars, file_vars, save_vars
  <1>1. CASE checkpoint  BY <1>1 DEF checkpoint
  <1>2. CASE purge_wait  BY <1>2 DEF purge_wait, looped
  <1>3. CASE delete_job_desc_files  BY <1>3 DEF delete_job_desc_files, looped
  <1>4. CASE slurmctld_state_save  BY <1>4 DEF slurmctld_state_save
  <1>5. CASE pack_header
    <2>1. Full(job_id_sequence, {}) \in Content  BY DEF Full, Content
    <2> QED  BY <1>5, <2>1 DEF pack_header
  <1>6. CASE _dump_job_state
    <2>1. [buffer EXCEPT !.jobs = job_list] \in Content  BY DEF Content
    <2> QED  BY <1>6, <2>1 DEF _dump_job_state
  <1>7. CASE dump_done
    <2>1. shuffled(put(open_new(fs), buffer))[6] \in Files  BY WholeFile, ShuffledFiles, SMT
    <2> QED  BY <1>7, <2>1, Contents DEF dump_done
  <1>8. CASE dump_error
    <2>1. PICK f \in {fs} \cup written(fs, buffer) :
             fs' = unlink_new(f) /\ cut' = IF f = fs THEN cut ELSE cut + 1
        BY <1>8 DEF dump_error
    <2>2. f \in Files  BY <2>1, WrittenFiles
    <2>3. fs' \in Files /\ cut' \in Nat  BY <2>1, <2>2, UnlinkNewFiles, SMT
    <2> QED  BY <1>8, <2>3, Contents DEF dump_error
  <1>9. CASE save_all_state  BY <1>9 DEF save_all_state
  <1>10. CASE shutdown_state_save  BY <1>10 DEF shutdown_state_save, signal
  <1>11. CASE exit  BY <1>11, Contents, SMT DEF exit, gone, SaveAssumption
  <1>12. CASE load_all_job_state
    <2>1. _open_job_state_file \in Content  BY DEF _open_job_state_file, Files
    <2>2. /\ _open_job_state_file.jobs \subseteq Ids
          /\ MAX(_open_job_state_file.seq, FIRST_JOB_ID) \in 0 .. MAX_JOB_ID - 1
        BY <2>1, SMT DEF Content, MAX, SaveAssumption
    <2> QED  BY <1>12, <2>2 DEF load_all_job_state, started
  <1>13. CASE load_last_job_id
    <2>1. MAX(fs.reg.seq, FIRST_JOB_ID) \in 0 .. MAX_JOB_ID - 1
        BY SMT DEF Files, Content, MAX, SaveAssumption
    <2> QED  BY <1>13, <2>1 DEF load_last_job_id, started
  <1>14. CASE stop  BY <1>14 DEF stop
  <1>15. CASE crash
    <2>1. fs' \in Files /\ saved' \in Content /\ cut' \in Nat
      <3>1. CASE UNCHANGED <<fs, saved, cut>>  BY <3>1
      <3>2. CASE cut' = cut + 1 /\ fs' \in written(fs, buffer) /\ UNCHANGED saved
          BY <3>2, WrittenFiles, SMT
      <3>3. CASE /\ cut' = cut + 1
                 /\ \E i \in 2 .. 5 : /\ fs' = shuffled(put(open_new(fs), buffer))[i]
                                      /\ saved' = IF i = 5 THEN buffer ELSE saved
          BY <3>3, WholeFile, ShuffledFiles, SMT
      <3> QED  BY <1>15, <3>1, <3>2, <3>3 DEF crash
    <2> QED  BY <1>15, <2>1, Contents, SMT DEF crash, gone, SaveAssumption
  <1>16. CASE \E script \in BOOLEAN : job_submit(script)
      BY <1>16, SMT DEF job_submit, numbers, Ids, SaveAssumption
  <1>17. CASE \E id \in Ids : purge_old_job(id)
      BY <1>17 DEF purge_old_job, signal
  <1>18. CASE UNCHANGED vars  BY <1>18
  <1>19. CASE can_not_save_state  BY <1>19 DEF can_not_save_state
  <1>20. CASE link_error
    <2> DEFINE p == put(open_new(fs), buffer)
    <2>1. p \in Files  BY WholeFile
    <2>2. /\ \/ fs' = unlink_new(link_reg(unlink_reg(unlink_old(p)))) /\ saved' = buffer /\ cut' = 0
             \/ fs' = unlink_new(unlink_reg(link_old(unlink_old(p)))) /\ saved' = saved
                /\ cut' = cut + 1
          /\ saver' = "wait" /\ buffer' = None
        BY <1>20 DEF link_error
    <2> HIDE DEF p
    <2>3. fs' \in Files /\ saved' \in Content  BY <2>1, <2>2, UnlinkedFiles
    <2>4. cut' \in Nat  BY <2>2, SMT
    <2> QED  BY <1>20, <2>2, <2>3, <2>4, Contents DEF link_error
  <1> QED
      BY <1>1, <1>2, <1>3, <1>4, <1>5, <1>6, <1>7, <1>8, <1>9, <1>10, <1>11, <1>12, <1>13, <1>14,
         <1>15, <1>16, <1>17, <1>18, <1>19, <1>20
       DEF Next, purge_step, save_step, main_step, start_step, dump_all_job_state

\* Every step keeps the Boolean variables Boolean.
LEMMA FlagsStep ==
  ASSUME SaveAssumption, Types, Flags, Dumps, Queue, Stopping, Next \/ UNCHANGED vars
  PROVE  Flags'
  <1> USE DEF Flags, vars, job_vars, purge_vars, file_vars, save_vars
  <1>1. CASE checkpoint  BY <1>1 DEF checkpoint
  <1>2. CASE purge_wait  BY <1>2 DEF purge_wait
  <1>3. CASE delete_job_desc_files  BY <1>3 DEF delete_job_desc_files
  <1>4. CASE slurmctld_state_save  BY <1>4 DEF slurmctld_state_save
  <1>5. CASE pack_header  BY <1>5 DEF pack_header
  <1>6. CASE _dump_job_state  BY <1>6 DEF _dump_job_state
  <1>7. CASE dump_done  BY <1>7 DEF dump_done
  <1>8. CASE dump_error  BY <1>8 DEF dump_error
  <1>9. CASE save_all_state  BY <1>9 DEF save_all_state
  <1>10. CASE shutdown_state_save  BY <1>10 DEF shutdown_state_save
  <1>11. CASE exit  BY <1>11 DEF exit, gone
  <1>12. CASE load_all_job_state  BY <1>12 DEF load_all_job_state, started
  <1>13. CASE load_last_job_id  BY <1>13 DEF load_last_job_id, started
  <1>14. CASE stop  BY <1>14 DEF stop
  <1>15. CASE crash  BY <1>15 DEF crash, gone
  <1>16. CASE \E script \in BOOLEAN : job_submit(script)  BY <1>16 DEF job_submit
  <1>17. CASE \E id \in Ids : purge_old_job(id)  BY <1>17 DEF purge_old_job
  <1>18. CASE UNCHANGED vars  BY <1>18
  <1>19. CASE can_not_save_state  BY <1>19 DEF can_not_save_state
  <1>20. CASE link_error  BY <1>20 DEF link_error
  <1> QED
      BY <1>1, <1>2, <1>3, <1>4, <1>5, <1>6, <1>7, <1>8, <1>9, <1>10, <1>11, <1>12, <1>13, <1>14,
         <1>15, <1>16, <1>17, <1>18, <1>19, <1>20
       DEF Next, purge_step, save_step, main_step, start_step, dump_all_job_state

\* Every step keeps the last completed dump where a start finds it.
LEMMA DumpsStep ==
  ASSUME SaveAssumption, Types, Flags, Dumps, Queue, Stopping, Next \/ UNCHANGED vars
  PROVE  Dumps'
  <1> USE DEF Dumps, vars, job_vars, purge_vars, file_vars, save_vars
  <1>1. CASE checkpoint  BY <1>1 DEF checkpoint, _open_job_state_file
  <1>2. CASE purge_wait  BY <1>2 DEF purge_wait, _open_job_state_file
  <1>3. CASE delete_job_desc_files  BY <1>3 DEF delete_job_desc_files, _open_job_state_file
  <1>4. CASE slurmctld_state_save  BY <1>4 DEF slurmctld_state_save, Goto, _open_job_state_file
  <1>5. CASE pack_header
      BY <1>5 DEF pack_header, _open_job_state_file, Goto, Full
  <1>6. CASE _dump_job_state
      BY <1>6 DEF _dump_job_state, _open_job_state_file, Goto, Types, Content
  <1>7. CASE dump_done
    <2> DEFINE p == put(open_new(fs), buffer)
    <2>1. p \in Files /\ p.new = buffer  BY WholeFile DEF Types
    <2>2. fs' = shuffled(p)[6] /\ saved' = buffer /\ cut' = 0 /\ buffer.state = "full"
          /\ saver' = "wait"
        BY <1>7 DEF dump_done, Goto
    <2> HIDE DEF p
    <2>3. fs'.reg = buffer /\ fs'.same = {}  BY <2>1, <2>2, ShuffledFiles
    <2>4. None.state = "none"  BY DEF None
    <2>5. _open_job_state_file' = buffer  BY <2>2, <2>3 DEF _open_job_state_file
    <2> QED  BY <2>2, <2>3, <2>4, <2>5
  <1>8. CASE dump_error
    <2>1. PICK f \in {fs} \cup written(fs, buffer) :
             fs' = unlink_new(f) /\ cut' = IF f = fs THEN cut ELSE cut + 1
        BY <1>8 DEF dump_error
    <2>2. f \in Files  BY <2>1, WrittenFiles DEF Types
    <2>3. fs'.reg = f.reg /\ fs'.old = f.old /\ fs'.same = {}  BY <2>1, <2>2, UnlinkNewFiles
    <2>4. saved' = saved /\ saver' = "wait"  BY <1>8 DEF dump_error, Goto
    <2>5. CASE f = fs
        BY <2>1, <2>3, <2>4, <2>5 DEF _open_job_state_file
    <2>6. CASE f # fs
      <3>1. cut' = cut + 1 /\ cut \in Nat  BY <2>1, <2>6 DEF Types
      <3>2. cut = 0 => f.reg = fs.reg /\ f.old = fs.old  BY <2>1, <2>6, WrittenFiles DEF Types
      <3> QED  BY <2>3, <2>4, <3>1, <3>2, SMT DEF _open_job_state_file
    <2> QED  BY <2>5, <2>6
  <1>9. CASE save_all_state  BY <1>9 DEF save_all_state, _open_job_state_file
  <1>10. CASE shutdown_state_save  BY <1>10 DEF shutdown_state_save, _open_job_state_file
  <1>11. CASE exit  BY <1>11 DEF exit, gone, _open_job_state_file
  <1>12. CASE load_all_job_state  BY <1>12 DEF load_all_job_state, started, _open_job_state_file
  <1>13. CASE load_last_job_id  BY <1>13 DEF load_last_job_id, started, _open_job_state_file
  <1>14. CASE stop  BY <1>14 DEF stop, _open_job_state_file
  <1>15. CASE crash
    <2>0. saver' = "none"  BY <1>15 DEF crash, gone
    <2>1. CASE UNCHANGED <<fs, saved, cut>>  BY <2>0, <2>1 DEF _open_job_state_file
    <2>2. CASE cut' = cut + 1 /\ fs' \in written(fs, buffer) /\ UNCHANGED saved
      <3>1. cut = 0 => fs'.reg = fs.reg /\ fs'.old = fs.old  BY <2>2, WrittenFiles DEF Types
      <3> QED  BY <2>0, <2>2, <3>1, SMT DEF _open_job_state_file, Types
    <2>3. CASE /\ saver = "write" /\ cut' = cut + 1
               /\ \E i \in 2 .. 5 : /\ fs' = shuffled(put(open_new(fs), buffer))[i]
                                    /\ saved' = IF i = 5 THEN buffer ELSE saved
      <3> DEFINE p == put(open_new(fs), buffer)
      <3>1. p \in Files /\ p.new = buffer /\ (cut = 0 => p.reg = saved)  BY WholeFile DEF Types
      <3>2. PICK i \in 2 .. 5 : fs' = shuffled(p)[i] /\ saved' = IF i = 5 THEN buffer ELSE saved
          BY <2>3
      <3>3. buffer.state = "full" /\ None.state = "none" /\ cut \in Nat  BY <2>3 DEF None, Types
      <3>4. cut' <= 1 => cut = 0  BY <2>3, <3>3, SMT
      <3> HIDE DEF p
      <3>5. i = 2 \/ i = 3 \/ i = 4 \/ i = 5  BY SMT
      <3>6. cut = 0 => _open_job_state_file' = saved'
        <4> SUFFICES ASSUME cut = 0 PROVE _open_job_state_file' = saved'  OBVIOUS
        <4>1. CASE i = 5  BY <3>1, <3>2, <3>3, <4>1, ShuffledFiles DEF _open_job_state_file
        <4>2. CASE i = 4  BY <3>1, <3>2, <3>3, <4>2, ShuffledFiles DEF _open_job_state_file
        <4>3. CASE i = 3  BY <3>1, <3>2, <3>3, <4>3, ShuffledFiles DEF _open_job_state_file
        <4>4. CASE i = 2  BY <3>1, <3>2, <3>3, <4>4, ShuffledFiles DEF _open_job_state_file
        <4> QED  BY <3>5, <4>1, <4>2, <4>3, <4>4
      <3>7. saved' = None \/ saved'.state = "full"  BY <3>2, <3>3
      <3>8. cut' # 0  BY <2>3, <3>3, SMT
      <3> QED  BY <2>0, <3>4, <3>6, <3>7, <3>8
    <2> QED  BY <1>15, <2>1, <2>2, <2>3 DEF crash
  <1>16. CASE \E script \in BOOLEAN : job_submit(script)  BY <1>16 DEF job_submit, _open_job_state_file
  <1>17. CASE \E id \in Ids : purge_old_job(id)  BY <1>17 DEF purge_old_job, _open_job_state_file
  <1>18. CASE UNCHANGED vars  BY <1>18 DEF _open_job_state_file
  <1>19. CASE can_not_save_state  BY <1>19 DEF can_not_save_state, _open_job_state_file
  <1>20. CASE link_error
    <2> DEFINE p == put(open_new(fs), buffer)
    <2>1. p \in Files /\ p.new = buffer /\ (cut = 0 => p.reg = saved)  BY WholeFile DEF Types
    <2>2. /\ \/ fs' = unlink_new(link_reg(unlink_reg(unlink_old(p)))) /\ saved' = buffer /\ cut' = 0
             \/ fs' = unlink_new(unlink_reg(link_old(unlink_old(p)))) /\ saved' = saved
                /\ cut' = cut + 1
          /\ saver' = "wait" /\ buffer.state = "full" /\ None.state = "none"
        BY <1>20 DEF link_error, Goto, None
    <2> HIDE DEF p
    <2>3. CASE fs' = unlink_new(link_reg(unlink_reg(unlink_old(p)))) /\ saved' = buffer /\ cut' = 0
      <3>1. fs'.reg = buffer /\ fs'.same = {}  BY <2>1, <2>3, UnlinkedFiles
      <3>2. _open_job_state_file' = buffer  BY <3>1, <2>2 DEF _open_job_state_file
      <3> QED  BY <2>2, <2>3, <3>1, <3>2
    <2>4. CASE /\ fs' = unlink_new(unlink_reg(link_old(unlink_old(p)))) /\ saved' = saved
               /\ cut' = cut + 1
      <3>1. fs'.reg = None /\ fs'.old = p.reg  BY <2>1, <2>4, UnlinkedFiles
      <3>2. _open_job_state_file' = p.reg  BY <3>1, <2>2 DEF _open_job_state_file
      <3>3. cut' # 0 /\ (cut' <= 1 => cut = 0)  BY <2>4, SMT DEF Types
      <3> QED  BY <2>1, <2>2, <2>4, <3>2, <3>3
    <2> QED  BY <2>2, <2>3, <2>4
  <1> QED
      BY <1>1, <1>2, <1>3, <1>4, <1>5, <1>6, <1>7, <1>8, <1>9, <1>10, <1>11, <1>12, <1>13, <1>14,
         <1>15, <1>16, <1>17, <1>18, <1>19, <1>20
       DEF Next, purge_step, save_step, main_step, start_step, dump_all_job_state

\* Taking the head off a queue.
LEMMA TailElements ==
  ASSUME NEW S, NEW q \in Seq(S), q # << >>
  PROVE  /\ Tail(q) \in Seq(S) /\ Len(Tail(q)) = Len(q) - 1
         /\ \A i \in 1 .. Len(Tail(q)) : i + 1 \in 1 .. Len(q) /\ Tail(q)[i] = q[i + 1]
         /\ 1 \in 1 .. Len(q) /\ Head(q) = q[1]
         /\ Range(q) = {Head(q)} \cup Range(Tail(q))
         /\ \A x \in Range(Tail(q)) : \E i \in 1 .. Len(Tail(q)) : x = Tail(q)[i]
         /\ \A i \in 1 .. Len(Tail(q)) : Tail(q)[i] \in Range(Tail(q))
  <1> DEFINE r == Tail(q)
  <1>1. /\ r \in Seq(S) /\ Len(r) = Len(q) - 1 /\ 1 \in 1 .. Len(q) /\ Head(q) = q[1]
        /\ \A i \in 1 .. Len(r) : i + 1 \in 1 .. Len(q) /\ r[i] = q[i + 1]
      BY SMT
  <1>2. DOMAIN r = 1 .. Len(r) /\ DOMAIN q = 1 .. Len(q) /\ Len(q) \in Nat  BY SMT
  <1> HIDE DEF r
  <1>3. Range(r) = {r[i] : i \in 1 .. Len(r)} /\ Range(q) = {q[i] : i \in 1 .. Len(q)}
      BY <1>2 DEF Range
  <1>4. \A i \in 1 .. Len(q) : i = 1 \/ (i - 1 \in 1 .. Len(r) /\ r[i - 1] = q[i])
      BY <1>1, <1>2, SMT
  <1>5. Range(q) = {Head(q)} \cup Range(r)  BY <1>1, <1>3, <1>4, SMT
  <1> QED  BY <1>1, <1>3, <1>5 DEF r

\* Adding an entry at the end of a queue.
LEMMA AppendElements ==
  ASSUME NEW S, NEW q \in Seq(S), NEW e \in S
  PROVE  /\ Append(q, e) \in Seq(S) /\ Len(Append(q, e)) = Len(q) + 1 /\ Len(q) \in Nat
         /\ \A i \in 1 .. Len(q) : Append(q, e)[i] = q[i] /\ q[i] \in Range(q)
         /\ Append(q, e)[Len(q) + 1] = e
         /\ Range(Append(q, e)) = Range(q) \cup {e}
  <1> DEFINE r == Append(q, e)
  <1>1. /\ r \in Seq(S) /\ Len(r) = Len(q) + 1 /\ Len(q) \in Nat /\ r[Len(q) + 1] = e
        /\ \A i \in 1 .. Len(q) : r[i] = q[i]
        /\ DOMAIN r = 1 .. Len(r) /\ DOMAIN q = 1 .. Len(q)
      BY SMT
  <1> HIDE DEF r
  <1>2. Range(r) = {r[i] : i \in 1 .. Len(r)} /\ Range(q) = {q[i] : i \in 1 .. Len(q)}
      BY <1>1 DEF Range
  <1>3. \A i \in 1 .. Len(r) : i = Len(q) + 1 \/ i \in 1 .. Len(q)  BY <1>1, SMT
  <1>4. \A i \in 1 .. Len(q) : i \in 1 .. Len(r)  BY <1>1, SMT
  <1>5. Len(q) + 1 \in 1 .. Len(r)  BY <1>1, SMT
  <1>6. Range(r) = Range(q) \cup {e}  BY <1>1, <1>2, <1>3, <1>4, <1>5
  <1> QED  BY <1>1, <1>2, <1>6 DEF r

\* Every step keeps the directories of the queued jobs.
LEMMA QueueStep ==
  ASSUME SaveAssumption, Types, Flags, Dumps, Queue, Stopping, Next \/ UNCHANGED vars
  PROVE  Queue'
  <1> USE DEF Queue, vars, job_vars, purge_vars, file_vars, save_vars
  <1>1. CASE checkpoint  BY <1>1 DEF checkpoint
  <1>2. CASE purge_wait  BY <1>2, SMT DEF purge_wait
  <1>3. CASE delete_job_desc_files
    <2>1. CASE /\ purge_files_list # << >> /\ purge_files_list' = Tail(purge_files_list)
               /\ dirs' = dirs \ {Head(purge_files_list)}
               /\ bare' = bare \cap Range(purge_files_list')
      <3> DEFINE q == purge_files_list  r == Tail(q)
      <3>1. q \in Seq(Ids) /\ q # << >>  BY <2>1
      <3> HIDE DEF q
      <3>2. /\ r \in Seq(Ids) /\ Range(q) = {Head(q)} \cup Range(r) /\ Len(r) = Len(q) - 1
            /\ \A i \in 1 .. Len(r) : i + 1 \in 1 .. Len(q) /\ r[i] = q[i + 1]
            /\ \A x \in Range(r) : \E i \in 1 .. Len(r) : x = r[i]
            /\ \A i \in 1 .. Len(r) : r[i] \in Range(r)
            /\ 1 \in 1 .. Len(q) /\ Head(q) = q[1]
          BY <3>1, TailElements
      <3>3. ctld' = ctld /\ job_list' = job_list  BY <1>3 DEF delete_job_desc_files
      <3>4. q' = r /\ bare' = bare \cap Range(r) /\ dirs' = dirs \ {Head(q)}  BY <2>1 DEF q
      <3>5. /\ bare \subseteq Range(q) /\ ctld # "down" /\ Range(q) \cap job_list \subseteq bare
            /\ Range(q) \subseteq dirs \cup bare
            /\ \A i, j \in 1 .. Len(q) : i # j /\ q[i] = q[j] => q[i] \in bare
          BY <3>1 DEF q
      <3> HIDE DEF r
      <3>6. Head(q) \in Range(r) => Head(q) \in bare
        <4> SUFFICES ASSUME Head(q) \in Range(r) PROVE Head(q) \in bare  OBVIOUS
        <4>1. PICK i \in 1 .. Len(r) : Head(q) = r[i]  BY <3>2
        <4>2. i + 1 \in 1 .. Len(q) /\ i + 1 # 1 /\ q[i + 1] = q[1]  BY <3>2, <4>1, SMT
        <4> QED  BY <3>2, <3>5, <4>2
      <3>7. Range(r) \subseteq dirs' \cup bare'  BY <3>2, <3>4, <3>5, <3>6
      <3>8. Range(r) \cap job_list' \subseteq bare'  BY <3>2, <3>3, <3>4, <3>5
      <3>9. \A i, j \in 1 .. Len(r) : i # j /\ r[i] = r[j] => r[i] \in bare'
        <4> SUFFICES ASSUME NEW i \in 1 .. Len(r), NEW j \in 1 .. Len(r), i # j, r[i] = r[j]
                     PROVE  r[i] \in bare'
            OBVIOUS
        <4>1. i + 1 \in 1 .. Len(q) /\ j + 1 \in 1 .. Len(q) /\ i + 1 # j + 1
              /\ q[i + 1] = q[j + 1] /\ r[i] = q[i + 1]
            BY <3>2, SMT
        <4>2. q[i + 1] \in bare  BY <3>5, <4>1
        <4> QED  BY <3>2, <3>4, <4>1, <4>2
      <3>10. bare' \subseteq Range(r)  BY <3>4
      <3> QED  BY <3>2, <3>3, <3>4, <3>5, <3>7, <3>8, <3>9, <3>10 DEF q
    <2>2. CASE UNCHANGED <<dirs, purge_files_list, bare>>
        BY <1>3, <2>2, SMT DEF delete_job_desc_files
    <2> QED  BY <1>3, <2>1, <2>2 DEF delete_job_desc_files
  <1>4. CASE slurmctld_state_save  BY <1>4, SMT DEF slurmctld_state_save
  <1>5. CASE pack_header  BY <1>5, SMT DEF pack_header
  <1>6. CASE _dump_job_state  BY <1>6, SMT DEF _dump_job_state
  <1>7. CASE dump_done  BY <1>7, SMT DEF dump_done
  <1>8. CASE dump_error  BY <1>8, SMT DEF dump_error
  <1>9. CASE save_all_state  BY <1>9 DEF save_all_state
  <1>10. CASE shutdown_state_save  BY <1>10 DEF shutdown_state_save
  <1>11. CASE exit
    <2>1. purge_files_list' = << >> /\ bare' = {}  BY <1>11 DEF exit, gone
    <2>2. Range(purge_files_list') = {}  BY <2>1, SMT DEF Range
    <2> QED  BY <2>1, <2>2, SMT
  <1>12. CASE load_all_job_state
    <2>1. purge_files_list' = << >> /\ bare' = bare /\ purge_files_list' = purge_files_list
        BY <1>12 DEF load_all_job_state, started
    <2>2. Range(purge_files_list') = {}  BY <2>1, SMT DEF Range
    <2> QED  BY <2>1, <2>2, SMT
  <1>13. CASE load_last_job_id
    <2>1. purge_files_list' = << >> /\ bare' = bare /\ purge_files_list' = purge_files_list
        BY <1>13 DEF load_last_job_id, started
    <2>2. Range(purge_files_list') = {}  BY <2>1, SMT DEF Range
    <2> QED  BY <2>1, <2>2, SMT
  <1>14. CASE stop  BY <1>14 DEF stop
  <1>15. CASE crash
    <2>1. purge_files_list' = << >> /\ bare' = {}  BY <1>15 DEF crash, gone
    <2>2. Range(purge_files_list') = {}  BY <2>1, SMT DEF Range
    <2> QED  BY <2>1, <2>2, SMT
  <1>16. CASE \E script \in BOOLEAN : job_submit(script)
    <2>1. PICK script \in BOOLEAN : job_submit(script)  BY <1>16
    <2>2. PICK id \in numbers : /\ get_next_job_id(id) /\ job_list' = job_list \cup {id}
                                /\ dirs' = IF script THEN dirs \cup {id} ELSE dirs
        BY <2>1 DEF job_submit
    <2>3. id \notin dirs  BY <2>2 DEF get_next_job_id, is_free, _dup_job_file_test
    <2>4. UNCHANGED <<ctld, purge_files_list, bare>>  BY <2>1 DEF job_submit
    <2>5. Range(purge_files_list) \cap job_list' \subseteq bare  BY <2>2, <2>3
    <2>6. dirs \subseteq dirs'  BY <2>2
    <2> QED  BY <2>4, <2>5, <2>6, SMT
  <1>17. CASE \E id \in Ids : purge_old_job(id)
    <2>1. PICK id \in Ids : purge_old_job(id)  BY <1>17
    <2> DEFINE q == purge_files_list  r == Append(q, id)
    <2>2. /\ id \in job_list /\ job_list' = job_list \ {id} /\ q' = r /\ UNCHANGED dirs
          /\ bare' = IF id \in dirs THEN bare ELSE bare \cup {id}
          /\ ctld \in {"up", "stopping"} /\ UNCHANGED ctld
        BY <2>1 DEF purge_old_job
    <2>3. q \in Seq(Ids)  OBVIOUS
    <2>4. /\ bare \subseteq Range(q) /\ Range(q) \cap job_list \subseteq bare
          /\ Range(q) \subseteq dirs \cup bare
          /\ \A i, j \in 1 .. Len(q) : i # j /\ q[i] = q[j] => q[i] \in bare
        OBVIOUS
    <2> HIDE DEF q
    <2>5. /\ r \in Seq(Ids) /\ Range(r) = Range(q) \cup {id} /\ Len(r) = Len(q) + 1
          /\ \A i \in 1 .. Len(q) : r[i] = q[i] /\ q[i] \in Range(q)
          /\ r[Len(q) + 1] = id /\ Len(q) \in Nat
        BY <2>3, AppendElements, SMT
    <2> HIDE DEF r
    <2>6. bare \subseteq bare' /\ bare' \subseteq Range(r)  BY <2>2, <2>4, <2>5
    <2>7. id \in Range(q) => id \in bare  BY <2>2, <2>4
    <2>8. Range(r) \cap job_list' \subseteq bare' /\ Range(r) \subseteq dirs' \cup bare'
        BY <2>2, <2>4, <2>5, <2>6
    <2>9. \A i, j \in 1 .. Len(r) : i # j /\ r[i] = r[j] => r[i] \in bare'
      <3> SUFFICES ASSUME NEW i \in 1 .. Len(r), NEW j \in 1 .. Len(r), i # j, r[i] = r[j]
                   PROVE  r[i] \in bare'
          OBVIOUS
      <3>1. CASE i \in 1 .. Len(q) /\ j \in 1 .. Len(q)  BY <2>4, <2>5, <2>6, <3>1
      <3>2. CASE i \in 1 .. Len(q) /\ j \notin 1 .. Len(q)
        <4>1. j = Len(q) + 1  BY <2>5, <3>2, SMT
        <4> QED  BY <2>5, <2>6, <2>7, <3>2, <4>1
      <3>3. CASE i \notin 1 .. Len(q)
        <4>1. i = Len(q) + 1 /\ j \in 1 .. Len(q)  BY <2>5, <3>3, SMT
        <4> QED  BY <2>5, <2>6, <2>7, <4>1
      <3> QED  BY <3>1, <3>2, <3>3
    <2> QED  BY <2>2, <2>5, <2>6, <2>8, <2>9, SMT DEF q
  <1>18. CASE UNCHANGED vars  BY <1>18, SMT
  <1>19. CASE can_not_save_state  BY <1>19, SMT DEF can_not_save_state
  <1>20. CASE link_error  BY <1>20, SMT DEF link_error
  <1> QED
      BY <1>1, <1>2, <1>3, <1>4, <1>5, <1>6, <1>7, <1>8, <1>9, <1>10, <1>11, <1>12, <1>13, <1>14,
         <1>15, <1>16, <1>17, <1>18, <1>19, <1>20
       DEF Next, purge_step, save_step, main_step, start_step, dump_all_job_state

\* Every step keeps the promise of a stop to save what is in memory.
LEMMA StoppingStep ==
  ASSUME SaveAssumption, Types, Flags, Dumps, Queue, Stopping, Next \/ UNCHANGED vars
  PROVE  Stopping'
  <1> USE DEF Stopping, Memory, Goto, vars, job_vars, purge_vars, file_vars, save_vars
  <1>1. CASE checkpoint  BY <1>1 DEF checkpoint
  <1>2. CASE purge_wait  BY <1>2 DEF purge_wait
  <1>3. CASE delete_job_desc_files  BY <1>3 DEF delete_job_desc_files
  <1>4. CASE slurmctld_state_save  BY <1>4, SMT DEF slurmctld_state_save
  <1>5. CASE pack_header  BY <1>5 DEF pack_header, Full
  <1>6. CASE _dump_job_state
    <2>1. buffer' = [buffer EXCEPT !.jobs = job_list] /\ saver = "records" /\ saver' = "write"
          /\ buffer.state = "full" /\ buffer \in Content
        BY <1>6 DEF _dump_job_state, Goto, Dumps, Types
    <2>2. buffer.seq = job_id_sequence => buffer' = Memory
        BY <2>1 DEF Content, Memory, Full
    <2>3. UNCHANGED <<ctld, locks_set, save_jobs, run_save_thread, job_id_sequence, job_list>>
        BY <1>6 DEF _dump_job_state
    <2> QED  BY <2>1, <2>2, <2>3 DEF Memory
  <1>7. CASE dump_done  BY <1>7 DEF dump_done
  <1>8. CASE dump_error  BY <1>8 DEF dump_error
  <1>9. CASE save_all_state  BY <1>9 DEF save_all_state
  <1>10. CASE shutdown_state_save  BY <1>10 DEF shutdown_state_save
  <1>11. CASE exit  BY <1>11 DEF exit, gone
  <1>12. CASE load_all_job_state  BY <1>12 DEF load_all_job_state, started
  <1>13. CASE load_last_job_id  BY <1>13 DEF load_last_job_id, started
  <1>14. CASE stop  BY <1>14 DEF stop
  <1>15. CASE crash  BY <1>15 DEF crash, gone
  <1>16. CASE \E script \in BOOLEAN : job_submit(script)  BY <1>16, SMT DEF job_submit
  <1>17. CASE \E id \in Ids : purge_old_job(id)  BY <1>17, SMT DEF purge_old_job
  <1>18. CASE UNCHANGED vars  BY <1>18
  <1>19. CASE can_not_save_state  BY <1>19 DEF can_not_save_state
  <1>20. CASE link_error  BY <1>20 DEF link_error
  <1> QED
      BY <1>1, <1>2, <1>3, <1>4, <1>5, <1>6, <1>7, <1>8, <1>9, <1>10, <1>11, <1>12, <1>13, <1>14,
         <1>15, <1>16, <1>17, <1>18, <1>19, <1>20
       DEF Next, purge_step, save_step, main_step, start_step, dump_all_job_state

-----------------------------------------------------------------------------
\* Every step keeps the promise to a submission.
LEMMA AskedStep ==
  ASSUME SaveAssumption, Types, Flags, Dumps, Queue, Stopping, Asked, Next \/ UNCHANGED vars
  PROVE  Asked'
  <1> USE DEF Asked, Goto, vars, job_vars, purge_vars, file_vars, save_vars
  <1>1. CASE checkpoint  BY <1>1 DEF checkpoint, _open_job_state_file
  <1>2. CASE purge_wait  BY <1>2 DEF purge_wait, _open_job_state_file
  <1>3. CASE delete_job_desc_files  BY <1>3 DEF delete_job_desc_files, _open_job_state_file
  <1>4. CASE slurmctld_state_save  BY <1>4 DEF slurmctld_state_save, _open_job_state_file
  <1>5. CASE pack_header  BY <1>5 DEF pack_header
  <1>6. CASE _dump_job_state
    <2>1. buffer'.jobs = job_list  BY <1>6 DEF _dump_job_state, Types, Content
    <2> QED  BY <1>6, <2>1 DEF _dump_job_state
  <1>7. CASE dump_done
    <2> DEFINE p == put(open_new(fs), buffer)
    <2>1. p \in Files /\ p.new = buffer  BY WholeFile DEF Types
    <2>2. fs' = shuffled(p)[6] /\ buffer.state = "full"  BY <1>7 DEF dump_done, Dumps
    <2> HIDE DEF p
    <2>3. fs'.reg = buffer  BY <2>1, <2>2, ShuffledFiles
    <2>4. _open_job_state_file' = buffer  BY <2>2, <2>3 DEF _open_job_state_file
    <2>5. save_jobs' \/ job_list' \subseteq buffer.jobs  BY <1>7 DEF dump_done
    <2>6. saver' = "wait"  BY <1>7 DEF dump_done
    <2> QED  BY <2>4, <2>5, <2>6
  <1>8. CASE dump_error  BY <1>8 DEF dump_error
  <1>9. CASE save_all_state  BY <1>9 DEF save_all_state
  <1>10. CASE shutdown_state_save  BY <1>10 DEF shutdown_state_save, _open_job_state_file
  <1>11. CASE exit  BY <1>11 DEF exit, gone
  <1>12. CASE load_all_job_state
      BY <1>12 DEF load_all_job_state, started, _open_job_state_file
  <1>13. CASE load_last_job_id  BY <1>13 DEF load_last_job_id, started
  <1>14. CASE stop  BY <1>14 DEF stop, _open_job_state_file
  <1>15. CASE crash  BY <1>15 DEF crash, gone
  <1>16. CASE \E script \in BOOLEAN : job_submit(script)  BY <1>16 DEF job_submit
  <1>17. CASE \E id \in Ids : purge_old_job(id)
    <2>1. /\ UNCHANGED <<ctld, save_jobs, saver, buffer, failed, fs>>
          /\ job_list' \subseteq job_list
        BY <1>17 DEF purge_old_job
    <2> QED  BY <2>1 DEF _open_job_state_file
  <1>18. CASE UNCHANGED vars  BY <1>18 DEF _open_job_state_file
  <1>19. CASE can_not_save_state  BY <1>19 DEF can_not_save_state, _open_job_state_file
  <1>20. CASE link_error
    <2> DEFINE p == put(open_new(fs), buffer)
    <2>1. p \in Files /\ p.new = buffer  BY WholeFile DEF Types
    <2>2. CASE fs' = unlink_new(link_reg(unlink_reg(unlink_old(p)))) /\ failed' = FALSE
      <3>1. fs'.reg = buffer  BY <2>1, <2>2, UnlinkedFiles
      <3>2. buffer.state = "full"  BY <1>20 DEF link_error, Dumps
      <3>3. _open_job_state_file' = buffer  BY <3>1, <3>2 DEF _open_job_state_file
      <3>4. save_jobs' \/ job_list' \subseteq buffer.jobs  BY <1>20 DEF link_error
      <3>5. saver' = "wait"  BY <1>20 DEF link_error
      <3> QED  BY <3>3, <3>4, <3>5
    <2>3. CASE failed' = TRUE  BY <1>20, <2>3 DEF link_error
    <2> QED  BY <1>20, <2>2, <2>3 DEF link_error
  <1> QED
      BY <1>1, <1>2, <1>3, <1>4, <1>5, <1>6, <1>7, <1>8, <1>9, <1>10, <1>11, <1>12, <1>13, <1>14,
         <1>15, <1>16, <1>17, <1>18, <1>19, <1>20
       DEF Next, purge_step, save_step, main_step, start_step, dump_all_job_state

\* The invariant is inductive.
LEMMA InvStep ==
  ASSUME SaveAssumption, Inv, [Next]_vars
  PROVE  Inv'
  BY TypesStep, FlagsStep, DumpsStep, QueueStep, StoppingStep, AskedStep DEF Inv

\* The invariant holds in every behaviour.
LEMMA Invariance == Spec => []Inv
  <1>1. Inv /\ [Next]_vars => Inv'  BY SaveAssumption, InvStep
  <1> QED  BY SaveAssumption, InitInv, <1>1, PTL DEF Spec

\* Type correctness: job numbers are below max_job_id, files hold saves.
THEOREM TypeCorrect == Spec => []TypeOK
  <1>1. Inv => TypeOK
    <2>1. Flags => locks_set \in BOOLEAN /\ missed \in BOOLEAN /\ save_jobs \in BOOLEAN
                   /\ run_save_thread \in BOOLEAN /\ failed \in BOOLEAN
        BY DEF Flags
    <2> QED  BY <2>1 DEF Inv, Types, Queue, TypeOK
  <1> QED  BY Invariance, <1>1, PTL

\* Wherever slurmctld is killed, and whichever call fails, the next start
\* finds what the last completed dump_all_job_state() wrote, unless two dumps
\* in a row were cut short.
THEOREM LastSaveFound == Spec => []Recoverable
  <1>1. Inv => Recoverable  BY DEF Inv, Dumps, Recoverable
  <1> QED  BY Invariance, <1>1, PTL

\* _dup_job_file_test() keeps the number of a queued job that had a directory
\* from being handed out before the purge thread has deleted it.
THEOREM NoScriptDeleted == Spec => []ScriptsKept
  <1>1. Inv => ScriptsKept  BY DEF Inv, Queue, ScriptsKept
  <1> QED  BY Invariance, <1>1, PTL

\* When an orderly stop is over everything is in the file, unless the last
\* dump failed, or locks were still set and it was not asked for; then the
\* jobs that were submitted are in the file all the same.
THEOREM StopLosesNothing == Spec => StopSaves
  <1>1. Inv /\ [Next]_vars
          => [ctld = "joining" /\ ctld' = "down" /\ saver = "none" /\ purger = "none"
                => \/ failed \/ saved = Memory
                   \/ locks_set /\ job_list \subseteq _open_job_state_file.jobs]_vars
    <2> SUFFICES ASSUME Inv, ctld = "joining", saver = "none", ~failed, saved # Memory
                 PROVE  locks_set /\ job_list \subseteq _open_job_state_file.jobs
        OBVIOUS
    <2>1. ~save_jobs  BY DEF Inv, Stopping
    <2> QED  BY <2>1 DEF Inv, Stopping, Asked
  <1> QED  BY Invariance, <1>1, PTL DEF Spec, StopSaves
=============================================================================
