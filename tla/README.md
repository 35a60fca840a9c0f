# A TLA+ model of the IoT_Linux_RaspberryPi programs

The repository is a collection of independent C programs for Linux on a
Raspberry Pi. Most are exercises of one system call; the ones that hold real
control logic are the network servers in `NetworkProgramming/`, and among them
`rpi6.c`, the controller that all the others lead up to. Next come the programs
of `Process_Signal/` that share an object of the kernel with another program or
with their own children, and those of `File/`, whose files, terminals and
directories others use at the same time. This directory holds TLA+ modules of
those, TLC configurations that check them on small instances, and proofs,
checked by TLAPS, of what holds on every instance.

## The system

### Inventory

| Part | State | Operations | What is hard |
|---|---|---|---|
| `webserver.c` | listening socket, `csock`, one handler thread at a time with two stdio streams over one connection | accept loop with `pthread_join`, `clnt_connection`, `sendData`, `sendOk`, `sendError` | requests in pieces, browsers that stall or leave, unread bytes turning a close into a reset, descriptors on every path |
| `rpi6.c`, web part | the same, any number of handler threads, `csock` shared by all, `strtok`'s static pointer | accept loop **without** the join, the form's parser | races on `csock`, on descriptor numbers and on `strtok` |
| `rpi6.c`, sensors | two I2C devices with a power bit, a busy bit and result registers | power off/on, trigger, poll, read, from every handler thread | no mutex is taken; polling without a limit |
| `rpi6.c`, main | `is_run`, keyboard, joystick | main loop, `joystickFunction`, `q`, cleanup at `END` | shutdown while threads are at work |
| `tcp_server.c`, `tcp_client.c` | one connection, the buffer `mesg` | accept, read, write, close, test for `q` | a text in several segments, a reset that overtakes the echo |
| `select_server.c` | `client_fd[5]`, `client_index`, `readfd` | select, accept, the loop over the array | array and index drift apart from the open connections |
| `epoll_server.c` | `nfds`, `events[32]`, the kernel's ready list | epoll_wait, accept, the loop over `events` | a loop bound that changes in the loop; edge-triggered events that are not reported twice |
| `udp_server.c`, `udp_client.c` | one datagram at a time | recvfrom, sendto | loss without a timeout, answers without numbers, `mesg[n]` out of bounds |
| `posix_sem.c`, `thread.c` | the semaphore named `posix_sem`, a counter in each program | open, post, wait, close, unlink; two threads | two programs on one value, unprotected updates, a name that outlives a crash |
| `msg_server.c`, `msg_client.c`, `posix_msg_server.c`, `posix_msg_client.c` | a queue with a key or a name | create or open, send, receive, remove | removal with messages of others in the queue, full queues, servers that died |
| `IPC/pipe.c` (`IPC/fork.c` is the same text), `system.c`, `spawn.c` | children, zombies, `pid` and `status` of each process | fork, exec, posix_spawn, waitpid | a failed `execve()` makes a second parent, waits that may take another child, a `status` nobody has set |
| `pipe.c`, `socketpair.c` | who has which side of a channel open | fork, dup2, exec, read, write, wait | the end of the data comes only when every copy of the writing side is closed; waiting before reading |
| `shm.c` | the segment with the key, an earlier run's segment | create, look up, attach, count, remove | parent and child race from the first call to the last |
| `fifo_server.c`, `fifo_client.c` | the name `fifo`, readers and writers, what is unread | unlink, mkfifo, the rendezvous of `open()`, read, write | a name taken away from others, clients that come too late |
| `sem.c` | a private semaphore for each run, what `SEM_UNDO` will add | semget, SETVAL, `v()`, `p()`, remove | kills, semaphores running out |
| `fork.c`, `vfork.c`, `thread_mutex.c` | `g_var`, `var`, whose memory they are in | fork, vfork, threads under a mutex | who sees whose change |
| `handleSingal.c` | mask, dispositions, pending signals, handlers at work | block, register, pause, `sigHandler` | signals before they are registered, and inside the handler |
| `daemon.c` | descriptors, session, SIGHUP | fork, setsid, close, open, dup | the bound of the close loop, failures that go unnoticed |
| `copy.c`, `fcopy.c` | two files, two offsets, a stream's buffer | open, read, write, close | short writes, errors taken for the end, one file twice |
| `list.c`, `chmod.c` | the process's directory, `statBuf`, open directories; two modes | `listDir` with its recursion; stat and chmod | unchecked `chdir()` and `lstat()`, entries removed meanwhile |
| `hitkey.c`, `kbhit()` of `rpi6.c` | the terminal, `O_NONBLOCK`, stdin's buffer | kbhit, the loop around it | the terminal is not the program's own; keys taken out and put back |
| `getPressure()`, `getTemperature()` of `rpi6.c` | a sensor's registers, bytes and shorts | trigger, poll, read, compute | signs, division by zero, failed reads, two threads at once |
| `limit.c`, `time.c`, `factorial.c`, `BuildSystem/`, `ShellScript/` | none | one pass of output | nothing a model could add |
| `rpi4.c`, `alsapcm.c` | | | they do not compile |

The programs do not call each other. They interact through the kernel: a
client and a server through a TCP connection, the threads of one server through
global variables and the descriptor table, `main()` and the threads of `rpi6.c`
through `is_run` and the two sensors, `posix_sem.c` and `thread.c` through a
semaphore, the servers and clients of `Process_Signal/` through a queue or a
FIFO, parents and children through descriptors, memory and `waitpid()`, and the
programs of `File/` with whoever else uses a file or the terminal.

### What makes each part correct

* A connection is read by, answered by and closed by the thread created for it.
* The reply is the one the request calls for, once, and it arrives.
* Every descriptor is closed once, by the one who has it, on every path.
* Nobody who has sent what is needed waits for ever.
* A measurement is the result of the conversion that was asked for; sensors are
  off when the program is done.
* An echo server sends each client its own text, and stops at a `q` and only
  then.
* Nobody waits at a semaphore or a queue for somebody who is not coming, and what
  a program has created is removed in the end.
* A message is lost only for a reason: another client's end, a removal, a death.
* A status, a line or a number that is shown is that of the child, the thread or
  the segment it is said to be of.
* No child, zombie or segment stays behind unless somebody was killed.
* A copy is a copy, a listing shows each entry's own attributes, keys arrive in
  their order, and a computed temperature is what the sensor has measured.

Not all of that holds; see *Where comments and code disagree* below.

## The modules

| Module | Models | Extends |
|---|---|---|
| `HttpConn` | one browser's connection, the kernel's side of it and the steps of `clnt_connection()` that `webserver.c` and `rpi6.c` share line by line | |
| `WebServer` | `webserver.c` | `HttpConn` |
| `Rpi6` | `rpi6.c` | `HttpConn` |
| `EchoService` | what the three echo servers promise (abstract) | |
| `EchoConn` | `tcp_client.c`, the kernel's side, the calls the servers make; the refinement mapping | |
| `TcpServer`, `SelectServer`, `EpollServer` | the three echo servers | `EchoConn` |
| `Semaphores` | `posix_sem.c` and `thread.c` on one named semaphore | |
| `EchoServers` | the four echo servers side by side | `EchoConn`, instances of the four |
| `MessageService` | what both message queues promise (abstract) | |
| `MsgQueue` | the two message servers and their clients; the refinement mapping | |
| `UdpEcho` | `udp_server.c`, `udp_client.c` and a network that is not reliable | |
| `Processes` | the kernel's process table: fork, exit, zombies, waitpid, kill | |
| `Commands` | `IPC/pipe.c`, `system.c`, `spawn.c` | `Processes` |
| `Pipes` | `Process_Signal/pipe.c`, `socketpair.c` | `Processes` |
| `Memory` | `fork.c`, `vfork.c`, `thread_mutex.c` | `Processes` |
| `SharedMemory`, `Fifo`, `SysvSem`, `Signals`, `Daemon` | `shm.c`; `fifo_server.c` and `fifo_client.c`; `sem.c`; `handleSingal.c`; `daemon.c` | `Processes` |
| `Programs` | all of these side by side over one process table | `Processes`, instances of the eight |
| `FileCopy`, `FileModes`, `Listing` | `copy.c` and `fcopy.c`; `chmod.c` and the permissions of `list.c`; `listDir()` | |
| `Keyboard`, `Sensors` | `kbhit()` and its loops; `getPressure()` and `getTemperature()` | |
| `Tools` | these five side by side | instances of the five |
| `MC...` | instances for TLC | the module |
| `HttpConnProofs` | every step of `HttpConn` keeps the types | `HttpConn` |
| `WebServerProofs`, `Rpi6Proofs` | theorems about `WebServer` and `Rpi6` | `HttpConnProofs` |
| `SemaphoresProofs`, `EchoServersProofs`, `MsgQueueProofs` | theorems about those modules, and in the second about its four instances | the module |
| `ProgramsProofs` | theorems about `Programs`, with a section for each of its eight instances | `Programs` |
| `ToolsProofs` | theorems about `Tools`, with a section for each of its five instances | `Tools` |

### HttpConn

A request is two segments: the request line, and everything up to the blank
line. `sent[c]` counts those that have arrived, `taken[c]` those some `read()`
has taken. `fds` is the descriptor table; `accept()` and `dup()` return the
lowest free number, as POSIX requires, since the reuse of numbers is what makes
the races of `rpi6.c` bite. Descriptors the program holds besides connections
are `System` (none in `WebServer`, where the listening socket never takes part).

A handler thread has the name of the browser whose `accept()` created it, and
`rfd[h]`, `wfd[h]` are the descriptors under its two streams. `hpc[h]` is where
it is:

| `hpc` | code in `webserver.c` (`rpi6.c`) |
|---|---|
| `load` | `int csock = *((int*)arg)` 78 (416) |
| `open_r`, `open_w` | `fdopen`, `fdopen(dup())` 85-86 (423-424) |
| `line` | `fgets`, `strtok` 89-95 (427-433) |
| `dispatch` | POST, GET, the rest 97-103 (435-441) |
| `headers` | the header loop 116-121 (489-494); in `rpi6.c` first the path and the form 443-486 |
| `data` | `sendData` 124 (497) |
| `close_r`, `close_w` | `fclose` twice 127-128 (500-501) |

A step is everything between two operations another thread, or the peer, can
notice. `fdopen()` of a descriptor that is not open returns NULL and the use of
it kills the process (`Die`); `fgets()` at the end of the stream leaves
`reg_line` as the stack had it, so the method is then any of the three; the
header loop never looks at `fgets()`'s result, so it spins (`Spin`). `Close`
resets the connection when the last descriptor goes while bytes are unread, and
a reset may overtake a reply that is still under way.

### WebServer

`main()` is `AcceptStep`, `CreateStep`, `Join`. `sendData()` puts the page into
the stream's buffer (`stream`), and `fclose()` sends it. `file` is what the thread
has cut out of the request line it got hold of. `Written` is what the `fputs()`
calls put into the buffer: the header, and of a file of one block or of two each
block, with `"junk"` wherever `read()` has not filled or terminated `buf`. What a
browser ought to get is stated apart from that: `Contents` is the header and the
blocks of the file it asked for, `RightReply` allows nothing else but junk, and
`ErrorOrContents` not even that.

### Rpi6

Adds `main()` with the keyboard (`Quit` is its own action: nobody has to press
`q`), the joystick, the accept loop without a join, `strtok()` and the sensors.

`strtok()` is modelled by what it does to strings seen as sequences of
delimiters: `olds` is its static pointer, shared by all threads, and each call
is one step. `Rest` gives what stands behind the method in the request line of
a plain page and of the form. A `NULL` that goes into `strcpy()` kills the
process.

A sensor has a power bit, a busy bit (`ONE_SHOT`) and the owner of the last
sample. A register access through a descriptor that is no longer the sensor's
fails, and -1 is not 0, so polling goes on. The result registers are read one by
one (`Read`), as main() may close the sensor between two of them: `result` holds
whose conversions a thread's bytes are of, and `Free` stands for the byte 255
that a failed access leaves (`Origin`).

### The echo servers

The client sends `BUFSIZ` bytes (8192), more than a segment, hence two segments
of which the first begins with the text. `mesg` is what the server's buffer
begins with, a client's text or something else (`Filler`), and `EchoAndClose`
writes whatever it holds by then. `EchoService` has five variables; `Implements`
in `EchoConn` maps `said`, `heard` and `up` to it. What the service does not allow
is to send a client a text that is not its own, answer before reading, answer
twice, or stop without a `q` that was read. It allows a client to lose its echo in
two cases, the ones the code has: the rest of its text came after the server's
only `read()`, or the server had stopped before it read anything of it.

`SelectServer`: `client_fd` keeps its stale cells, `select()` that fails leaves
the set as it is, the loop uses both as the code does. `EpollServer`: `events`
keeps the cells of earlier rounds, `Reported` are the orders in which the
kernel may report, `rdl` is its ready list.

`EchoServers` starts one of these three, over the same `EchoConn`, or
`udp_server.c` with its clients, in an instance of `UdpEcho` whose `spc`, `mesg`
and `got` are named `upc`, `datagram` and `shown` here. Its `Implements` is one
refinement of `EchoService` for the three TCP servers, its `Counts` says that
`client_index` and `nfds` are the number of open connections, although the
arrays they are used with are not those connections; `InStep` and `OwnQuit` are
those of `UdpEcho`.

### Semaphores

`name` is the semaphore that has the name `posix_sem` now; `sem_unlink()` takes
the name away, and the semaphore lives on for those who have it open, so each
program has its own `sem[g]`. `pc[g]` is where `main()` is. In `posix_sem.c`
`Test` is the loop's test with the `cnt++` or `cnt--` that follows, `V` is
`sem_wait()` and `P` is `sem_post()`: the names are the code's, with their
meaning turned round. In `thread.c` `cnt++` and `cnt--` are a load and a store
each, since nothing protects them. The `usleep()` calls change no state; in
particular the test of `cnt` at line 26 only delays. `Kill` ends a process at
any point and leaves the kernel as it is; `Open` starts the program again.

`ValueAssumption` says of 7 and 8 that the second is at most one more than the
first. `NotStuck` depends on it: `posix_sem.c` keeps all it has taken but one.

### MsgQueue

`api` says which pair of programs is run. A System V queue is created by the
server with `IPC_EXCL` and is gone for everybody once it is removed, with all
that is in it; a POSIX queue is opened if it is there, and `mq_unlink()` only
takes its name. Each process of `Server` and `Client` is one run of its program,
so a restart is another member of the set. A client sends a text and an end
(`mtype` 2, or `q`). `Size` is the real size of the two System V messages, and
`MaxBytes` the kernel's default, so two ends do not leave room for a third.

`MessageService` knows neither queues nor names: it has the messages that wait,
those that servers have taken and those that were acted on. `Implements` maps
the contents of all queues to the first (`InQueues`), the buffers of the servers
that handle a message to the second (`InHands`), and `shown` and `ended` to the
third. A message may be lost there in two ways only: with a server that dies
(`Die`), and when an end is acted on (`Stop`), which is how the System V queue is
removed. A POSIX queue that nobody reads any more keeps its messages for ever,
which the service allows, and so does the code.

### UdpEcho

A datagram is its client, the number of the line (which the program does not
send: it is there to state `InStep`) and whether it starts with `q`. `requests`
and `answers` are sets, from which any member may be delivered, and may stay to
be delivered again. Two copies of the same answer that are under way together
are one member. A datagram for a server that is not running is lost silently.
Starting and killing the server are `Outside`, which `EchoServers` adds to the
steps of the server and of the clients.

### Processes and Programs

`Processes` is the part of the kernel that these programs have in common. `pc`,
`parent` and `exit` are the process table; a process that ends becomes a zombie
of its parent, or is gone at once if nobody will wait for it. `fork()` takes the
next number, or fails; `failed` remembers which calls did, so that a property
can say what is excused. `Kill` is a signal from outside, which leaves kernel
objects as they are. `sigchld` is the disposition a program inherits: when it is
ignored, `waitpid()` finds no child.

Each of the eight modules extends it with the variables of its programs, and
`Programs` composes them: `program` is one of thirteen, `ModuleOf` its module,
and a step of a module leaves the variables of the others alone (`Only`). The
modules' own properties are the parts of `Outcome`, `NothingLeft`, `Protected`
and `AllEnd`.

| Module | Places (`pc`) and the code | Property |
|---|---|---|
| `Commands` | `fork`, `child`, `run`, `exec`, `wait`, `collect` of `main()` and `run_ps()`; `run`, `exec`, `sh`, `wait`, `failed` of `system()`. `main` and `pid` are the two variables named `pid`, and `st` is `status`, which starts as garbage. A child whose `execve()` fails goes to `wait`, as the code does, and then on through `main()`. | `OwnStatus`, `Reaped` |
| `Pipes` | `open[p]` is what each process has open; every copy `fork()` has made counts for the end of the data and for SIGPIPE. | `Delivered`, `Reaped` |
| `SharedMemory` | `key` is the segment with `SHM_KEY`, `Stale` from a killed run or `Fresh`; `Attach` fails if it is gone. | `SameMemory`, `NothingLeft` |
| `Fifo` | `file[p]` is the FIFO (named after its server) that `p` has open or waits in `open()` for, `met` those whose `open()` is answered. | `Delivered` |
| `Memory` | `space[p]` is the process whose memory `p` works in: its own after `fork()`, its parent's after `vfork()` and in a thread. | `OwnChanges` |
| `Signals` | `stack` are the handlers at work, innermost first; `Deliverable` what the kernel would deliver next, before `main()` goes on. | `Survival` |
| `Daemon` | `fds` with what is under each descriptor; `OpenNull` is `open()` and both `dup()` calls, `Hangup` the terminal going away. | `Detached` |
| `SysvSem` | `adj` is what the end of a process adds to its semaphore. | `Undone`, `NothingLeft` |

Things to note: the programs are built as their comments say, without
optimisation, so `vfork()`'s parent has `var` in the memory it shares and shows
89; a `status` that was never set is a value of its own, `"garbage"`, that a
reader of the screen cannot tell; `pid` and `status` of `spawn.c` are on the
stack at each call of `system()`, where the call before has left its own or
something else has come since, so after a `posix_spawn()` that fails `waitpid()`
may be given 0, -1 or a number of before, and the status of an earlier command
may be returned once more.

### Tools

`FileCopy` numbers the bytes that are ever in the first file, so that a byte
copied twice or to the wrong place shows. `Put` is `write()` with the room there
is: a short write is no error. In `fcopy.c` `fwrite()` goes into `stream`, which
is flushed now and then and by `fclose()`. `same` says that both arguments name
one file.

`Listing` keeps a frame for each call of `listDir()` with what `readdir()` will
return (`todo`), the last `statBuf` and `dirName`. Names are looked up from
`cwd`, whatever directory the call has open, since this is what `lstat()` and
`opendir()` do, and found if every directory on the way lets itself be searched
(`Found`). `argv` is what it is started for: `.` (the empty path), one name or
several. `closed` directories can be opened but not entered, which is how
`chdir()` fails; `foreign` is an entry whose owner `getpwuid()` does not find,
which ends the program.

`FileModes` is `chmod.c` with another process between any two calls, and
`Permission`, the nine characters `list.c` makes of a mode. The property says of
the modes themselves what `chmod.c` has done, 0644 to the bit, and of the
characters what is right about them; nothing in it depends on the last one being
wrong where others may not execute.

`Keyboard` has the keys in three places: the kernel's queue, stdin's buffer, and
`ch` between `getchar()` and `ungetc()`. `Sensors` does the arithmetic on real
bytes: `Short` has a sign, the calibration's temperatures have ten bits, and
`Line` is a fraction, `Undefined` when the two readings are equal. `mine` is
what the conversion a thread has started has really measured. Each of the three
writes that begin a measurement may fail without anybody noticing (`Reset`,
`Power`, `Begin`), and so may each read.

## The runs

`pass` runs find no violation; each `violation` run checks one statement of a
comment in the repository that the code does not keep.

| Run | Shows | Instance |
|---|---|---|
| `WebServer_serve` | `TypeOK`, `OwnConnection`, `NoLeak`, `RightReply`, `GetNeverReset`, `Answered`, SIGPIPE included | 2 browsers, one of which may stall or leave, 5 kinds of request |
| `Rpi6_serial` | `Fresh`, `Answered` when browsers come one at a time; `Stops` | 2 browsers: page, form, POST; `q` and the joystick |
| `Rpi6_concurrent` | `TypeOK`, `SystemFds`, with every race on `csock` and on descriptor numbers; `MeasurementEnds` with two threads on the same sensors | 2 browsers at once |
| `EchoServers_serve` | `TypeOK`, `Counts`, `InStep`, `OwnQuit`, `Implements`, `Answered` (as long as no two connections are open at once, for `select_server.c`) | 3 clients of `tcp_server.c`, 2 of each of the others; one may stall or be killed; 2 lines and 2 faults for `udp_server.c` |
| `Semaphores_run` | `TypeOK`, `NotStuck`, `NothingLeft`, `ThreadEnds`, `CountEnds` | 2 turns of each thread from a value of 1, `posix_sem.c` counts to 2 |
| `MsgQueue_run` | `TypeOK`, `LostToOthers`, `NothingLeft`, `Implements`, `EndStops`, `ClientEnds`, for both kinds of queue | 2 servers, 3 clients |
| `Processes_run` | `TypeOK`, `Outcome`, `SameMemory`, `NothingLeft`, `Protected`, `AllEnd` | 13 programs, at most 5 processes, 1 kill, any call may fail |
| `Tools_run` | `TypeOK`, `Kept`, `Measured`, `AllEnd` | 8 programs and functions; files of 4 bytes, `list` for `.`, for a directory with 2 subdirectories and for one of these by its path, 3 keys, 2 threads on a sensor |
| `WebServer_missing` | `ErrorOrContents` fails | 1 browser that asks for a file that is not there |
| `Rpi6_csock`, `Rpi6_off` | `OwnConnection`, `OffAtExit` fail | 2 browsers at once |
| `SelectServer_starve` | `ConnectedIsEchoed` fails | 2 clients |

Bounds. Two connections are enough for every race between two threads, and each
thread runs through all of its places; three echo clients let one be accepted,
one queued and one not yet connected. The queue is shorter than `listen()`'s 8
or 10, so that it can be full. `Fd` has two numbers for each connection (one in
the echo servers), so `accept()` and `dup()` never fail in an instance; that the
descriptors do not run out in `webserver.c` is `NoLeak`. `client_fd` of
`select_server.c` has one cell for each client of the instance, and `events` of
`epoll_server.c` one more than that, so the ends of those arrays (5 and 32) are
not reached. `Serial` in `Rpi6` lets the next browser connect when the last one
is done.

In `Semaphores` each program is killed once at most and two semaphores are
created, enough for a stale one and a new one at a time; both programs can be
run again as often as that allows. Two turns let an update be lost in each
direction and the value reach 0; the sizes of the source are 10, 7 and 8, to
which the theorems apply. In `MsgQueue` two servers are enough for one to find
the other's queue, before or after its death, and three clients for the third
to find a full queue; `MaxMsg` is 2 instead of 10, so that a POSIX queue is full
as well. For `udp_server.c` two faults are enough for a loss after a repetition,
and two lines for an answer to be a line late.

In `Processes_run` five processes are what `IPC/pipe.c` needs: itself, its child
and three times `ps`, one of which may be a second parent. Two FIFO servers can
take the name from each other, and two clients can find one server each; two
runs of `sem.c` with one semaphore in the system show one that another run has
left. `sem.c` counts to 2 instead of 8 (the theorems are for any limit). Three
signals are enough for one to arrive while the handler is at work for another
that has interrupted a third. `MCLimits` has no limit, one below 3, and two
above it, of which one lies below the number of descriptors in use; `Assumed` is
4 instead of 1024 for the same reason. In `Tools_run` the buffer holds two bytes
and the file up to four, so there are empty, partial and several whole blocks;
three directories may be open at once, which is enough for the tree and small
enough for the endless recursion to end. `MCClimate`, `MCWeather` and
`MCCalibration` lie at the limits of bytes and signs, and one calibration has
two equal readings.

`CHECK_DEADLOCK FALSE` is in every configuration because the programs really
may stop: the process ends, or every client of the instance has been served and
the server waits in `accept()`.

Fairness. Weak fairness of a server's own steps and of each handler thread: the
scheduler of Linux runs every thread that can run. Weak fairness of a sensor's
conversion: it takes a fixed time. A well-behaved peer sends the rest of what it
has begun; one in `Unreliable` need not. Nothing makes anybody connect, leave,
press `q` or push the joystick. In `Semaphores` and `MsgQueue` weak fairness of
every process and thread that has been started; nobody has to start one, and
nobody is killed by fairness. With `udp_server.c` weak fairness of the server and
of a client that has an answer; the network has to do nothing but deliver what
it does not lose. In `Programs` and `Tools` weak fairness of each process's own
steps and of a conversion; users, signals, kills and other processes are left
free. `AllEnd` therefore says what each program waits for that nobody has
promised (`Waits`); in `Sensors` that is a conversion of a sensor that is off,
because a write to `CTRL_REG1` has failed and the one to `CTRL_REG2` has not: the
loop at rpi6.c:260-263 and 289-292 then has no end. No step needs strong fairness.

The operators named `Faulty...`, and `ReturnEarly`, `FallThrough`,
`SkipHeaders`, `ClosingSendPage`, `UnflushedSendPage`, `ClearingReadFrom` and
`UnsignedShort`, are no part of a specification: each is an action with one
plausible programming error, and stands beside the action it would replace. With
it in place the property it is listed with in `PROJECT.json` fails, which shows
that the property depends on that line of the code.

### Where comments and code disagree

| Run | The comment | The code |
|---|---|---|
| `WebServer_missing` | `sendError()` answers a request with a problem (webserver.c:199), `sendData()` sends the contents of the file (223) | 200, and whatever `buf` holds: `open()` and `read()` are not checked (149-152) |
| `Rpi6_csock` | a thread is passed its client's socket (webserver.c:206) | all threads read one variable (rpi6.c:406-407) |
| `Rpi6_off` | devices are put in order (211) | a thread switches a sensor on again (521) |
| `SelectServer_starve` | a message is found and sent back (118-120) | the array forgets an open connection (93) |

The modules contain these behaviours too, and no run singles them out:

| The comment | The code | In the model |
|---|---|---|
| POST is acknowledged (webserver.c:215) | the close resets the connection, the reply can be lost (99) | `Close`, a reset that overtakes `out` |
| the form is analysed (rpi6.c:599-601) | `strtok` is shared by the threads (463-480) | `Strtok` of two threads |
| an event is read and answered (epoll_server.c:119) | the shrinking bound skips it, and it is not reported again (71, 100); it takes three clients | `Turn`, `LoopDone` |
| p() blocks at 0 (thread.c:41, 86-87) | `p()` is `sem_post()`; it is `v()` that blocks | `ThreadV`, `ThreadP` |
| the result is that of System V (posix_sem.c:53) | a semaphore that has a name outlives a killed run, and is shared with `thread.c` | the exceptions in `CountEnds` and `ThreadEnds` |
| several browsers at the same time (webserver.c:3) | the join lets a stalled browser block all (70) | the exception in `WebServer!Answered` |
| streams closed, thread ended (webserver.c:222) | the header loop ignores the end of the stream (117) | `Spin`, and the same exception |
| the contents of the file are sent (webserver.c:223) | and what the buffer holds behind them (152) | `"junk"` in `Written` |
| mutexes for the threads (rpi6.c:56, 80) | no running thread takes one (520), and two threads mix their bytes (266-272, 342-350) | `Measure` of two threads in `Rpi6`, `mixed` in `Sensors` |
| devices are put in order (rpi6.c:211) | SIGINT ends the process first (197) | `Quit` |
| the text is given back (tcp_client.c:72) | a close with unread bytes resets (tcp_server.c:57) | `EchoAndClose` where something is `Unread` |
| q ends the server (tcp_client.c:73) | `mesg` is overwritten in the same round (select_server.c:97, epoll_server.c:104) | `LoopEnd` after the round |
| `kbhit()` detects a key (hitkey.c:1) | it returns 0 in any case (32), so `q` never ends the loop; the terminal stays raw | `Ungetc`, `Waits` for ever |
| the mode is read as `rw-r--r--` (chmod.c:26) | `list.c` shows `rw-r--r-x`: `permission[9]` is set twice (76, 82) | `Permission` |
| SIGQUIT is shown, and then SIGINT unblocked, by a branch of the handler (handleSingal.c:55-60) | SIGQUIT is blocked and no handler is registered for it (15, 21-31) | `SigHandler` has no such branch |
| the parent shows the child's exit status (IPC/pipe.c:50) | a child whose `execve()` failed shows a `status` nobody has set (24, 49) | `OwnStatus` allows `"garbage"` to a second parent only |
| it works just as with fork() and exec() (spawn.c:42) | neither `posix_spawn()` nor `waitpid()` is checked, so a `status` nobody has set may be returned, or an earlier command's (14-17) | `System`, `WaitSh` |
| subdirectories are shown recursively (list.c:126) | a directory that can be opened but not entered is looked for in the one above, until the descriptors run out (38, 111) | `Chdir`, the exceptions in `Listed` |
| back to where it was before (list.c:118) | `chdir("..")` leads back from one name only, not from `.`, which the usage at 139 gives, or from several (119) | `Closedir`; `Listed` speaks of `Len(argv) = 1` |
| the file is copied, and 0 means success (copy.c:40, 55) | a short write or a failed read gives 0 as well, and a file copied onto itself is emptied (34, 44-45) | `lost` and `same` in `Copied` |
| data from the child is read (socketpair.c:35) | the parent has the writing side open too, and waits for ever if the child was killed | `Waits` of `Pipes` |
| stop at five (select_server.c:76) | the test stands behind `continue` and `return` | not in the model: see the bounds |

## The proofs

Eight modules hold theorems, and TLAPS checks every one of them. Those about
the HTTP servers hold for every set of browsers, every set of descriptor numbers
(finite or not) and every length of the queue, from the named assumptions in the
modules: descriptors are natural numbers, the mark `Free` is neither a browser
nor a device, no browser is a device; in `Rpi6` that `Slot` gives each device a
number of its own; and that browsers ask only for what the modules list. The
assumptions of the others say of the bounds that they are numbers, and what the
constants of the source satisfy (`Limit # 0`, `Assumed > 2` where the code has
1024, `MaxMsg # 0`); that the clients of `EchoServers` and the servers of
`MsgQueue` are finitely many, since connections and queues are counted; that
a process does not play two roles; and that the two numbers after `First` are
there for the threads of `thread_mutex.c`.

**WebServer** (`TypeCorrect`, `LedgerCorrect`, `OwnConnectionCorrect`,
`NoLeakCorrect`, `RightReplyCorrect`, `GetNeverResetCorrect`). The inductive
invariant is `TypeOK /\ Ledger`. `NoLeak` and `OwnConnection` are not inductive
alone: that the table is empty at `accept()` needs to be known of each earlier
place of the thread. `Ledger` says it: which descriptors are open, and whose, at
each place of `main()` and of the only thread that can be running. A descriptor
returned by `dup()` differs from the first since it was free and the first was
not. `RightReply` and `GetNeverReset` speak of what has been sent and what has
been read, which depends on how far the thread has come with the request, and of
which file it has cut out: `Stories` gives for each place of the thread how many
pieces it has taken, which method it has found and whether a reply is out, and
`Queue` that nobody is accepted twice. When the process has died there is no
story any more, but the replies that are out stay right (`Replies`).

**Rpi6** (`TypeCorrect`, `SystemFdsCorrect`, `FreshCorrect`). Without a join a
thread can hold a number that belongs to somebody else by now, so nothing like
`Ledger` holds. The invariant is that no descriptor variable (`csock`, `rfd`,
`wfd` of any thread) ever equals the number of an open system descriptor
(`Apart`), that the system descriptors main() has not closed are open
(`SystemFds`), and that variables are set before they are used (`Assigned`). It
is inductive because a number enters those variables only from `accept()` and
`dup()`, which return free ones, and system descriptors are never free until
main() closes them, when no promise is made about them any more.

`TypeCorrect` is more than bookkeeping for the parser: the strings a thread
holds are tokens of whatever `strtok()`'s one pointer is at, which another
thread may have moved. That a token is never empty (`HasWord`, `CutWord`) is why
`Cut` has a first character that is no separator to begin at; the least such
position is there because the natural numbers are well ordered (`Least`).

`FreshCorrect` has the hypothesis `Serial`, as the run that checks it: without
it two threads measure at the same time and `Fresh` is false, which is the
disagreement about the mutexes above. With it at most one browser is not done
with (`Alone`), the queue holds nobody whose thread has begun (`Waiting`), a
device that main() has closed never comes back (`NotBack`), and the result
registers are traced to the one who has triggered the conversion (`Samples`).
What is proved of the bytes is that each is of the thread's own conversion, or of
a device that main() has closed.

**EchoServers** (`TypeCorrect`, `CountsCorrect`, `ImplementsCorrect`,
`InStepCorrect`, `OwnQuitCorrect`), for any finite set of clients and any number
of lines and faults. The steps of the clients and of the kernel are the same
for the three TCP servers, and `NetInv` says of them that no connection is twice in
the queue or in the table (`Line`, `Table`), that nobody has been answered
while the connection is open (`Waiting`), and that while a client that has been
read is still open `mesg` holds its text (`Heard`): from there follows that it is
echoed its own. Each server has an
invariant of its own on top: `csock` and the place (`TcpInv`), `client_index` or
`nfds` against the number of descriptors in use (`SelectInv`, `EpollInv`). That
an accepted connection raises this number by one and a closed one lowers it is
one lemma about finite sets (`UsedCount`). `Implements` is proved step by step:
each action maps to a step of `EchoService` or changes none of its variables.
The one thing the code does not guarantee is what `mesg` of `epoll_server.c`
holds before the first message. If it began with `q` the server would end
without a client's `q`, so the theorem has the hypothesis `"q" \notin Stack`;
`QuitRead` then says that a `q` in `mesg` is some client's. With `udp_server.c`
no connection is ever made, and the invariant is about datagrams: `InStep`
becomes inductive with `Single` (no two datagrams of one client are anywhere in
the network or the server, as long as none is repeated) and `Awaited` (each is of
the line its client waits for); `OwnQuit` with `Quits`, which says the same of
every q under way.

**Semaphores** (`TypeCorrect`, `NotStuckCorrect`, `NothingLeftCorrect`), for all
numbers of turns and all values that satisfy `ValueAssumption`. The invariant
keeps books of the semaphores: what is missing from one of its initial value,
the turns of `thread.c` counted in (`Drawn`), is what `posix_sem.c` has taken
(`Taken`), while it uses that semaphore, and at most `Limit - 1` afterwards
(`Joined`); a semaphore that still has the name is used by somebody, and has
been used by nobody else (`Named`). A kill ends the books, not the types.
`NotStuck` follows by arithmetic: at 0, with all posts made, `Limit` are missing,
so `posix_sem.c` is there and about to give one back. The range of `cnt` in
`TypeOK` follows from `Updates`: each thread loads a value between minus the
decrements and the increments there were so far.

**MsgQueue** (`TypeCorrect`, `LostToOthersCorrect`, `NothingLeftCorrect`,
`ImplementsCorrect`), for any number of servers and clients, any limits and both
kinds of queue. That a text is lost only for a reason becomes inductive when it
says where a text is: shown, in the hand of a server, or in a queue that is
served (`Texts`). It needs that a client's text is ahead of its end in the queue
(`Queues`) and is out of it once the end has been taken (`Order`), since
`msgrcv()` and `mq_receive()` take members from different places; and it needs
that the System V queue which a server reads is its own, while a POSIX queue can
be taken over (`Servers`). `Named` is `NothingLeft` with the server that does
it. The limits of the types come from counting the messages of each kind
(`CountAppend`, `CountTail`). That both kinds of queue implement
`MessageService` is proved step by step, each action mapped to one of the
service or to a stutter, and needs one conjunct more (`Once`): no message is at
two places, neither twice in a queue nor in two hands nor in a queue and a hand,
and a client is past what it has sent (`Past`). It is inductive since what a
client is about to send is then nowhere yet.

**Programs** (`TypeCorrect`, `OutcomeCorrect`, `SameMemoryCorrect`,
`NothingLeftCorrect`, and the action property `ProtectedCorrect`). Whichever
program was started, only its module takes steps (`OneModule`) and nobody else's
variables change, so the invariant is that of the module which runs. All of them
share `TableInv`: the process table has its types, an unborn process has neither
children nor a parent, and only who has ended has a status; one lemma for each
operation of `Processes` says that it keeps this. On top of it:

* `CmdInv`: what `pid` and `status` of each process may hold at each place,
  which child that `pid` is, which command a `status` on the stack is of (`Kept`,
  `Last`, `Earlier`), and that a zombie is a child of somebody who is still to
  wait; `OwnStatus` and `Reaped` follow.
* `PipeInv`: there is one child, and while the parent has yet to read there is
  something to read, or somebody with the writing side open who will write it,
  unless a kill or a missing program has prevented it.
* `ShmInv`: `SameMemory` speaks of the loops only, so the invariant follows the
  two processes from the moment they look the segment up: what one has looked
  up is what the other one has, or what has the key while the other one has not
  looked yet (`Shared`), which needs that there are only two (`OneChild`). As
  long as a segment has the key somebody is on the way to removing it
  (`Removed`).
* `FifoInv`: which server or client has which FIFO open at which place, and
  that what is in a FIFO will be read, or is of a client that has come too late,
  as long as no server was killed.
* `MemInv`: whose memory each process works in, and how often each value has
  been changed at each place; the mutex keeps the two threads' changes apart.
* `SigInv`: what is blocked, registered and ignored at each place of `main()`,
  and which handlers may be on the stack. `Survival` is then a statement about
  one step.
* `DaeInv`: which descriptors are closed at each place, so that `open()` and
  both `dup()` find 0, 1 and 2; here the lowest free descriptor is again a case
  of `Least`.
* `SemInv`: an account for each run of `sem.c`. While it counts, its semaphore
  is its count and one more, and what its end would add is minus the count, so
  together they are 1. `Undone` alone does not say what is still to be undone.

**Tools** (`TypeCorrect`, `KeptCorrect`, `MeasuredCorrect`), for any sizes of
files and buffers, any tree of directories, any keys, modes, readings and any
number of threads. As in `Programs` only the module of the program that runs
takes steps (`OneModule`), and the invariant is that module's. `Kept` joins the
properties of the first four:

* `CopyInv`, for `Copied`: the bytes of the first file are numbered in order, so
  its contents are known (`Numbered`); what waits to be written are the last
  bytes read (`Ahead`, `Waiting`), and the second file holds numbers that grow
  and, as long as nothing was lost, are the first ones without a gap
  (`Written`). Of a file copied onto itself nothing is left anywhere
  (`Emptied`).
* `ModesInv`, for `Changed`: what each file has between the two `chmod()` calls,
  as long as nobody else has changed a mode.
* `KeysInv`, for `Keys`: what was pressed is what was got, then `ch`, then
  stdin's buffer, then the queue (`Order`); the key put back has to be in front
  of the buffer, so nothing may be in it between `getchar()` and `ungetc()`
  (`Places`). `Restored` says in which state `rpi6.c` has the terminal at each of
  its places.
* `ListInv`, for `Listed`: each call's directory is the parent of the next one's
  and `cwd` is where the innermost call looks, as long as no directory is barred
  (`OnPath`); what has been fetched, named and entered is where it belongs, and
  each entry is shown, on the way, or below something that is (`Complete`). That
  *every* path is shown at the end follows without induction over the tree: of
  the paths below the argument that are not shown one is shortest (`Least`), and
  its parent is below the argument too and was shown (`AllShown`).

`Measured` follows from `SensorsInv`: which bytes a thread has read so far, and
that they are those of the conversion it has asked for, unless another thread
has mixed in (`mixed`) or a call has failed (`failures`). That the bytes put
together again give the reading, sign included, is arithmetic (`ShortOfBytes`,
`LongOfBytes`, `TenBitsOf`, `PointsOfBytes`), and so is that the straight line
through the calibration's points has no denominator exactly if the two readings
are equal (`LineIs`). The assumptions are what the directory tree of the kernel
and the registers can be: every entry has its directory, `.` and `..` are no
entries and `list` is started for a directory (`TreeAssumption`), a reading fits
its bytes (`SensorAssumption`), `EOF` is no key (`KeyAssumption`), a mode is a
set of the modelled bits (`ModesAssumption`).

Every invariant and every action property that a passing run checks is thereby a
theorem, and so are both refinements. Only model-checked: liveness (`Answered`,
`Stops`, `MeasurementEnds`, `ThreadEnds`, `CountEnds`, `EndStops`, `ClientEnds`,
`AllEnd`), since TLAPS has no rule that would turn fairness and `ENABLED` into a
proof here; and the disagreements above, which are counterexamples.

## Limits of the model

* `pthread_create()`, `socket()`, `bind()`, `listen()` and the opening of the
  devices succeed; the joystick's device is opened before the first connection.
* A blocked `read()` finds its descriptor when it returns, not when it was
  called.
* `strtok()`'s pointer is kept as the text it points at. A later write to the
  buffer it points into is not seen by the model.
* The stack's contents are any value the following steps can tell apart, where
  a program sends or tests them; in `EpollServer` what `mesg` holds before the
  first message is the constant `Stack`; the run and `ImplementsCorrect` leave
  out that it begins with `q`, the other theorems do not.
* Replies of one handler arrive whole, and a file has one block or two. Bytes on
  the page, printed lines, path handling (the loop at webserver.c:107-113) and
  addresses are left out.
* `maxfd` in `select_server.c` is left out: it only grows.
* `sem_open()`, `mq_open()` by a server and `pthread_create()` succeed, and no
  signal interrupts a call. What goes to the screen is left out, but for the
  texts of `MsgQueue`.
* The UDP programs' errors and empty datagrams are left out, and so is `mesg[n]`.
  At the end of the keyboard's input `udp_client.c` sends the line before once
  more, which is the same line typed again.
* In `Programs` calls that fail are `fork()`, `exec`, `posix_spawn()`, and those
  that race with another process (`shmget()`, `shmat()`, `mkfifo()`, `open()`,
  `semget()`); `pipe()`, `socketpair()`, `signal()` and `pthread_create()`
  succeed. Process numbers are not used again. Waiting in `sleep()` is no
  state, so the properties hold whoever sleeps how long.
* In `Listing` the argument is a directory below the one the program is started
  in, or that one; absolute paths and arguments with `..` are left out. All
  entries of a directory are fetched by its first `readdir()`. `dirName` keeps
  pointers into the buffer they are fetched into, which a directory too large
  for one buffer overwrites, and it has 255 cells: neither is in the model.
* In `Sensors` the line for humidity is left out; it is computed like that for
  temperature, from other registers. Doubles are exact.

## Not modelled

`rpi4.c` and `alsapcm.c` do not compile, so there is no behaviour to be true to:
the first has `case "p":` and uses a variable it does not declare, the second has
text behind its last comment. `limit.c`, `time.c` and `factorial.c` compute or
print something in one pass; `BuildSystem/` and `ShellScript/` are a Makefile
exercise and scripts, `index.html` is data. What is left out inside modelled
parts is listed above.

## Plan

1. Done: every program of `NetworkProgramming/`, `Process_Signal/`, `IPC/` and
   `File/` that compiles and has a state; the two compositions; proofs in eight
   modules.
2. Done: every invariant and action property that a run checks is a theorem;
   `EchoService` is implemented by the three TCP servers, `MessageService` by
   both kinds of message queue.
3. Open: what of `Answered` is safety, that no reply is sent into a connection
   that was closed; a run of `select_server.c` at the limit of five descriptors;
   one abstract specification for `webserver.c` and what remains of it in
   `rpi6.c` while one browser comes at a time.
