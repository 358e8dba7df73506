------------------------------- MODULE Syscalls -------------------------------
(***************************************************************************)
(* kafel/src/syscalls/*.c and kafel/src/syscall.c: the system calls of     *)
(* each architecture.  An entry <<nr, sizes>> is the number of the call    *)
(* and the sizes in bytes of its arguments, one decimal digit per          *)
(* argument (0: none).  The arguments' names are left out: the k-th is     *)
(* written ArgNames[k].  The order of a list does not matter, because no   *)
(* list has one name twice.                                                *)
(***************************************************************************)
EXTENDS Integers, Sequences, TLC

(* arm_syscalls.c *)
Arm_1 == [accept |-> <<285, 444>>, accept4 |-> <<366, 4444>>, access |-> <<33, 44>>, acct |-> <<51, 4>>,
  add_key |-> <<309, 44444>>, adjtimex |-> <<124, 4>>, alarm |-> <<27, 4>>, arm_fadvise64_64 |-> <<270, 488>>,
  bdflush |-> <<134, 44>>, bind |-> <<282, 444>>, bpf |-> <<386, 444>>, breakpoint |-> <<983041, 0>>, brk |->
  <<45, 4>>, cacheflush |-> <<983042, 444>>, capget |-> <<184, 44>>, capset |-> <<185, 44>>, chdir |-> <<12,
  4>>, chmod |-> <<15, 42>>, chown |-> <<212, 444>>, chown16 |-> <<182, 422>>, chroot |-> <<61, 4>>,
  clock_adjtime |-> <<372, 44>>, clock_getres |-> <<264, 44>>, clock_gettime |-> <<263, 44>>]
Arm_2 == [clock_nanosleep |-> <<265, 4444>>, clock_settime |-> <<262, 44>>, clone |-> <<120, 44444>>, close
  |-> <<6, 4>>, connect |-> <<283, 444>>, copy_file_range |-> <<391, 444444>>, creat |-> <<8, 42>>,
  delete_module |-> <<129, 44>>, dup |-> <<41, 4>>, dup2 |-> <<63, 44>>, dup3 |-> <<358, 444>>, epoll_create
  |-> <<250, 4>>, epoll_create1 |-> <<357, 4>>, epoll_ctl |-> <<251, 4444>>, epoll_pwait |-> <<346, 444444>>,
  epoll_wait |-> <<252, 4444>>, eventfd |-> <<351, 4>>, eventfd2 |-> <<356, 44>>, execve |-> <<11, 444>>,
  execveat |-> <<387, 44444>>, exit |-> <<1, 4>>, exit_group |-> <<248, 4>>]
Arm_3 == [faccessat |-> <<334, 444>>, fallocate |-> <<352, 4488>>, fanotify_init |-> <<367, 44>>,
  fanotify_mark |-> <<368, 44844>>, fchdir |-> <<133, 4>>, fchmod |-> <<94, 42>>, fchmodat |-> <<333, 442>>,
  fchown |-> <<207, 444>>, fchown16 |-> <<95, 422>>, fchownat |-> <<325, 44444>>, fcntl |-> <<55, 444>>,
  fcntl64 |-> <<221, 444>>, fdatasync |-> <<148, 4>>, fgetxattr |-> <<231, 4444>>, finit_module |-> <<379,
  444>>, flistxattr |-> <<234, 444>>, flock |-> <<143, 44>>, fork |-> <<2, 0>>, fremovexattr |-> <<237, 44>>,
  fsetxattr |-> <<228, 44444>>, fstat64 |-> <<197, 44>>, fstatat64 |-> <<327, 4444>>]
Arm_4 == [fstatfs |-> <<100, 44>>, fstatfs64 |-> <<267, 444>>, fsync |-> <<118, 4>>, ftruncate |-> <<93, 44>>,
  ftruncate64 |-> <<194, 48>>, futex |-> <<240, 444444>>, futimesat |-> <<326, 444>>, getcpu |-> <<345, 444>>,
  getcwd |-> <<183, 44>>, getdents |-> <<141, 444>>, getdents64 |-> <<217, 444>>, getegid |-> <<202, 0>>,
  getegid16 |-> <<50, 0>>, geteuid |-> <<201, 0>>, geteuid16 |-> <<49, 0>>, getgid |-> <<200, 0>>, getgid16
  |-> <<47, 0>>, getgroups |-> <<205, 44>>, getgroups16 |-> <<80, 44>>, getitimer |-> <<105, 44>>,
  get_mempolicy |-> <<320, 44444>>, getpeername |-> <<287, 444>>, getpgid |-> <<132, 4>>, getpgrp |-> <<65,
  0>>, getpid |-> <<20, 0>>, getppid |-> <<64, 0>>, getpriority |-> <<96, 44>>, getrandom |-> <<384, 444>>,
  getresgid |-> <<211, 444>>, getresgid16 |-> <<171, 444>>]
Arm_5 == [getresuid |-> <<209, 444>>, getresuid16 |-> <<165, 444>>, getrlimit |-> <<191, 44>>, get_robust_list
  |-> <<339, 444>>, getrusage |-> <<77, 44>>, getsid |-> <<147, 4>>, getsockname |-> <<286, 444>>, getsockopt
  |-> <<295, 44444>>, gettid |-> <<224, 0>>, gettimeofday |-> <<78, 44>>, getuid |-> <<199, 0>>, getuid16 |->
  <<24, 0>>, getxattr |-> <<229, 4444>>, init_module |-> <<128, 444>>, inotify_add_watch |-> <<317, 444>>,
  inotify_init |-> <<316, 0>>, inotify_init1 |-> <<360, 4>>, inotify_rm_watch |-> <<318, 44>>, io_cancel |->
  <<247, 444>>, ioctl |-> <<54, 444>>, io_destroy |-> <<244, 4>>, io_getevents |-> <<245, 44444>>, ioprio_get
  |-> <<315, 44>>, ioprio_set |-> <<314, 444>>, io_setup |-> <<243, 44>>]
Arm_6 == [io_submit |-> <<246, 444>>, ipc |-> <<117, 444444>>, kcmp |-> <<378, 44444>>, kexec_load |-> <<347,
  4444>>, keyctl |-> <<311, 44444>>, kill |-> <<37, 44>>, lchown |-> <<198, 444>>, lchown16 |-> <<16, 422>>,
  lgetxattr |-> <<230, 4444>>, link |-> <<9, 44>>, linkat |-> <<330, 44444>>, listen |-> <<284, 44>>,
  listxattr |-> <<232, 444>>, llistxattr |-> <<233, 444>>, llseek |-> <<140, 44444>>, lookup_dcookie |->
  <<249, 844>>, lremovexattr |-> <<236, 44>>, lseek |-> <<19, 444>>, lsetxattr |-> <<227, 44444>>, lstat64 |->
  <<196, 44>>]
Arm_7 == [madvise |-> <<220, 444>>, mbind |-> <<319, 444444>>, membarrier |-> <<389, 44>>, memfd_create |->
  <<385, 44>>, mincore |-> <<219, 444>>, mkdir |-> <<39, 42>>, mkdirat |-> <<323, 442>>, mknod |-> <<14,
  424>>, mknodat |-> <<324, 4424>>, mlock |-> <<150, 44>>, mlock2 |-> <<390, 444>>, mlockall |-> <<152, 4>>,
  mmap |-> <<90, 444444>>, mmap2 |-> <<192, 444444>>, mount |-> <<21, 44444>>, move_pages |-> <<344, 444444>>,
  mprotect |-> <<125, 444>>, mq_getsetattr |-> <<279, 444>>, mq_notify |-> <<278, 44>>, mq_open |-> <<274,
  4424>>]
Arm_8 == [mq_timedreceive |-> <<277, 44444>>, mq_timedsend |-> <<276, 44444>>, mq_unlink |-> <<275, 4>>,
  mremap |-> <<163, 44444>>, msgctl |-> <<304, 444>>, msgget |-> <<303, 44>>, msgrcv |-> <<302, 44444>>,
  msgsnd |-> <<301, 4444>>, msync |-> <<144, 444>>, munlock |-> <<151, 44>>, munlockall |-> <<153, 0>>, munmap
  |-> <<91, 44>>, name_to_handle_at |-> <<370, 44444>>, nanosleep |-> <<162, 44>>, newfstat |-> <<108, 44>>,
  newlstat |-> <<107, 44>>, newstat |-> <<106, 44>>, newuname |-> <<122, 4>>, nfsservctl |-> <<169, 444>>,
  nice |-> <<34, 4>>, old_getrlimit |-> <<76, 44>>, old_oldumount |-> <<22, 4>>, old_select |-> <<82, 4>>]
Arm_9 == [open |-> <<5, 442>>, openat |-> <<322, 4442>>, open_by_handle_at |-> <<371, 444>>, pause |-> <<29,
  0>>, pciconfig_iobase |-> <<271, 444>>, pciconfig_read |-> <<272, 44444>>, pciconfig_write |-> <<273,
  44444>>, perf_event_open |-> <<364, 44444>>, personality |-> <<136, 4>>, pipe |-> <<42, 4>>, pipe2 |->
  <<359, 44>>, pivot_root |-> <<218, 44>>, poll |-> <<168, 444>>, ppoll |-> <<336, 44444>>, prctl |-> <<172,
  44444>>, pread64 |-> <<180, 4448>>, preadv |-> <<361, 44444>>, preadv2 |-> <<392, 444444>>, prlimit64 |->
  <<369, 4444>>, process_vm_readv |-> <<376, 444444>>]
Arm_10 == [process_vm_writev |-> <<377, 444444>>, pselect6 |-> <<335, 444444>>, ptrace |-> <<26, 4444>>,
  pwrite64 |-> <<181, 4448>>, pwritev |-> <<362, 44444>>, pwritev2 |-> <<393, 444444>>, quotactl |-> <<131,
  4444>>, read |-> <<3, 444>>, readahead |-> <<225, 484>>, readdir |-> <<89, 444>>, readlink |-> <<85, 444>>,
  readlinkat |-> <<332, 4444>>, readv |-> <<145, 444>>, reboot |-> <<88, 4444>>, recv |-> <<291, 4444>>,
  recvfrom |-> <<292, 444444>>, recvmmsg |-> <<365, 44444>>, recvmsg |-> <<297, 444>>]
Arm_11 == [remap_file_pages |-> <<253, 44444>>, removexattr |-> <<235, 44>>, rename |-> <<38, 44>>, renameat
  |-> <<329, 4444>>, renameat2 |-> <<382, 44444>>, request_key |-> <<310, 4444>>, restart_syscall |-> <<0,
  0>>, rmdir |-> <<40, 4>>, rt_sigaction |-> <<174, 4444>>, rt_sigpending |-> <<176, 44>>, rt_sigprocmask |->
  <<175, 4444>>, rt_sigqueueinfo |-> <<178, 444>>, rt_sigreturn |-> <<173, 0>>, rt_sigsuspend |-> <<179, 44>>,
  rt_sigtimedwait |-> <<177, 4444>>, rt_tgsigqueueinfo |-> <<363, 4444>>, sched_getaffinity |-> <<242, 444>>,
  sched_getattr |-> <<381, 4444>>, sched_getparam |-> <<155, 44>>, sched_get_priority_max |-> <<159, 4>>,
  sched_get_priority_min |-> <<160, 4>>, sched_getscheduler |-> <<157, 4>>, sched_rr_get_interval |-> <<161,
  44>>]
Arm_12 == [sched_setaffinity |-> <<241, 444>>, sched_setattr |-> <<380, 444>>, sched_setparam |-> <<154, 44>>,
  sched_setscheduler |-> <<156, 444>>, sched_yield |-> <<158, 0>>, seccomp |-> <<383, 444>>, select |-> <<142,
  44444>>, semctl |-> <<300, 4444>>, semget |-> <<299, 444>>, semop |-> <<298, 444>>, semtimedop |-> <<312,
  4444>>, send |-> <<289, 4444>>, sendfile |-> <<187, 4444>>, sendfile64 |-> <<239, 4444>>, sendmmsg |->
  <<374, 4444>>, sendmsg |-> <<296, 444>>, sendto |-> <<290, 444444>>, setdomainname |-> <<121, 44>>, setfsgid
  |-> <<216, 4>>, setfsgid16 |-> <<139, 2>>, setfsuid |-> <<215, 4>>, setfsuid16 |-> <<138, 2>>]
Arm_13 == [setgid |-> <<214, 4>>, setgid16 |-> <<46, 2>>, setgroups |-> <<206, 44>>, setgroups16 |-> <<81,
  44>>, sethostname |-> <<74, 44>>, setitimer |-> <<104, 444>>, set_mempolicy |-> <<321, 444>>, setns |->
  <<375, 44>>, setpgid |-> <<57, 44>>, setpriority |-> <<97, 444>>, setregid |-> <<204, 44>>, setregid16 |->
  <<71, 22>>, setresgid |-> <<210, 444>>, setresgid16 |-> <<170, 222>>, setresuid |-> <<208, 444>>,
  setresuid16 |-> <<164, 222>>, setreuid |-> <<203, 44>>, setreuid16 |-> <<70, 22>>, setrlimit |-> <<75, 44>>,
  set_robust_list |-> <<338, 44>>, setsid |-> <<66, 0>>, setsockopt |-> <<294, 44444>>, set_tid_address |->
  <<256, 4>>, settimeofday |-> <<79, 44>>]
Arm_14 == [set_tls |-> <<983045, 4>>, setuid |-> <<213, 4>>, setuid16 |-> <<23, 2>>, setxattr |-> <<226,
  44444>>, shmat |-> <<305, 444>>, shmctl |-> <<308, 444>>, shmdt |-> <<306, 4>>, shmget |-> <<307, 444>>,
  shutdown |-> <<293, 44>>, sigaction |-> <<67, 444>>, sigaltstack |-> <<186, 44>>, signalfd |-> <<349, 444>>,
  signalfd4 |-> <<355, 4444>>, sigpending |-> <<73, 4>>, sigprocmask |-> <<126, 444>>, sigreturn |-> <<119,
  0>>, sigsuspend |-> <<72, 444>>, socket |-> <<281, 444>>, socketcall |-> <<102, 44>>, socketpair |-> <<288,
  4444>>, splice |-> <<340, 444444>>, stat64 |-> <<195, 44>>, statfs |-> <<99, 44>>]
Arm_15 == [statfs64 |-> <<266, 444>>, stime |-> <<25, 4>>, swapoff |-> <<115, 4>>, swapon |-> <<87, 44>>,
  symlink |-> <<83, 44>>, symlinkat |-> <<331, 444>>, sync |-> <<36, 0>>, sync_file_range2 |-> <<341, 4488>>,
  syncfs |-> <<373, 4>>, syscall |-> <<113, 0>>, sysctl |-> <<149, 4>>, sysfs |-> <<135, 444>>, sysinfo |->
  <<116, 4>>, syslog |-> <<103, 444>>, tee |-> <<342, 4444>>, tgkill |-> <<268, 444>>, time |-> <<13, 4>>,
  timer_create |-> <<257, 444>>, timer_delete |-> <<261, 4>>, timerfd_create |-> <<350, 44>>, timerfd_gettime
  |-> <<354, 44>>, timerfd_settime |-> <<353, 4444>>, timer_getoverrun |-> <<260, 4>>, timer_gettime |->
  <<259, 44>>, timer_settime |-> <<258, 4444>>]
Arm_16 == [times |-> <<43, 4>>, tkill |-> <<238, 44>>, truncate |-> <<92, 44>>, truncate64 |-> <<193, 48>>,
  umask |-> <<60, 4>>, umount |-> <<52, 44>>, unlink |-> <<10, 4>>, unlinkat |-> <<328, 444>>, unshare |->
  <<337, 4>>, uselib |-> <<86, 4>>, userfaultfd |-> <<388, 4>>, usr26 |-> <<983043, 0>>, usr32 |-> <<983044,
  0>>, ustat |-> <<62, 44>>, utime |-> <<30, 44>>, utimensat |-> <<348, 4444>>, utimes |-> <<269, 44>>, vfork
  |-> <<190, 0>>, vhangup |-> <<111, 0>>, vmsplice |-> <<343, 4444>>, vserver |-> <<313, 0>>, wait4 |-> <<114,
  4444>>, waitid |-> <<280, 44444>>, write |-> <<4, 444>>, writev |-> <<146, 444>>]
arm_syscall_list ==
  Arm_1 @@ Arm_2 @@ Arm_3 @@ Arm_4 @@ Arm_5 @@ Arm_6 @@ Arm_7 @@ Arm_8 @@ Arm_9 @@ Arm_10 @@ Arm_11
  @@ Arm_12 @@ Arm_13 @@ Arm_14 @@ Arm_15 @@ Arm_16

(* aarch64_syscalls.c *)
Aarch64_1 == [accept |-> <<202, 488>>, accept4 |-> <<242, 4884>>, acct |-> <<89, 8>>, add_key |-> <<217,
  88884>>, adjtimex |-> <<171, 8>>, bind |-> <<200, 484>>, bpf |-> <<280, 484>>, brk |-> <<214, 8>>, capget
  |-> <<90, 88>>, capset |-> <<91, 88>>, chdir |-> <<49, 8>>, chroot |-> <<51, 8>>, clock_adjtime |-> <<266,
  48>>, clock_getres |-> <<114, 48>>, clock_gettime |-> <<113, 48>>, clock_nanosleep |-> <<115, 4488>>,
  clock_settime |-> <<112, 48>>, clone |-> <<220, 88888>>, close |-> <<57, 4>>, connect |-> <<203, 484>>,
  copy_file_range |-> <<285, 484884>>, delete_module |-> <<106, 84>>, dup |-> <<23, 4>>]
Aarch64_2 == [dup3 |-> <<24, 444>>, epoll_create1 |-> <<20, 4>>, epoll_ctl |-> <<21, 4448>>, epoll_pwait |->
  <<22, 484488>>, eventfd2 |-> <<19, 44>>, execve |-> <<221, 888>>, execveat |-> <<281, 48884>>, exit |->
  <<93, 4>>, exit_group |-> <<94, 4>>, faccessat |-> <<48, 484>>, fadvise64 |-> <<223, 4884>>, fallocate |->
  <<47, 4488>>, fanotify_init |-> <<262, 44>>, fanotify_mark |-> <<263, 44848>>, fchdir |-> <<50, 4>>, fchmod
  |-> <<52, 42>>, fchmodat |-> <<53, 482>>, fchown |-> <<55, 444>>, fchownat |-> <<54, 48444>>, fcntl |->
  <<25, 448>>, fdatasync |-> <<83, 4>>]
Aarch64_3 == [fgetxattr |-> <<10, 4888>>, finit_module |-> <<273, 484>>, flistxattr |-> <<13, 488>>, flock |->
  <<32, 44>>, fremovexattr |-> <<16, 48>>, fsetxattr |-> <<7, 48884>>, fstatfs |-> <<44, 48>>, fsync |-> <<82,
  4>>, ftruncate |-> <<46, 48>>, futex |-> <<98, 844884>>, getcpu |-> <<168, 888>>, getcwd |-> <<17, 88>>,
  getdents64 |-> <<61, 484>>, getegid |-> <<177, 0>>, geteuid |-> <<175, 0>>, getgid |-> <<176, 0>>, getgroups
  |-> <<158, 48>>, getitimer |-> <<102, 48>>, get_mempolicy |-> <<236, 88888>>, getpeername |-> <<205, 488>>,
  getpgid |-> <<155, 4>>, getpid |-> <<172, 0>>, getppid |-> <<173, 0>>, getpriority |-> <<141, 44>>,
  getrandom |-> <<278, 884>>, getresgid |-> <<150, 888>>]
Aarch64_4 == [getresuid |-> <<148, 888>>, getrlimit |-> <<163, 48>>, get_robust_list |-> <<100, 488>>,
  getrusage |-> <<165, 48>>, getsid |-> <<156, 4>>, getsockname |-> <<204, 488>>, getsockopt |-> <<209,
  44488>>, gettid |-> <<178, 0>>, gettimeofday |-> <<169, 88>>, getuid |-> <<174, 0>>, getxattr |-> <<8,
  8888>>, init_module |-> <<105, 888>>, inotify_add_watch |-> <<27, 484>>, inotify_init1 |-> <<26, 4>>,
  inotify_rm_watch |-> <<28, 44>>, io_cancel |-> <<3, 888>>, ioctl |-> <<29, 448>>, io_destroy |-> <<1, 8>>,
  io_getevents |-> <<4, 88888>>, ioprio_get |-> <<31, 44>>, ioprio_set |-> <<30, 444>>, io_setup |-> <<0,
  48>>, io_submit |-> <<2, 888>>]
Aarch64_5 == [kcmp |-> <<272, 44488>>, kexec_load |-> <<104, 8888>>, keyctl |-> <<219, 48888>>, kill |->
  <<129, 44>>, lgetxattr |-> <<9, 8888>>, linkat |-> <<37, 48484>>, listen |-> <<201, 44>>, listxattr |->
  <<11, 888>>, llistxattr |-> <<12, 888>>, lookup_dcookie |-> <<18, 888>>, lremovexattr |-> <<15, 88>>, lseek
  |-> <<62, 484>>, lsetxattr |-> <<6, 88884>>, madvise |-> <<233, 884>>, mbind |-> <<235, 888884>>, membarrier
  |-> <<283, 44>>, memfd_create |-> <<279, 84>>, migrate_pages |-> <<238, 4888>>, mincore |-> <<232, 888>>,
  mkdirat |-> <<34, 482>>]
Aarch64_6 == [mknodat |-> <<33, 4824>>, mlock |-> <<228, 88>>, mlock2 |-> <<284, 884>>, mlockall |-> <<230,
  4>>, mmap |-> <<222, 888888>>, mount |-> <<40, 88888>>, move_pages |-> <<239, 488884>>, mprotect |-> <<226,
  888>>, mq_getsetattr |-> <<185, 488>>, mq_notify |-> <<184, 48>>, mq_open |-> <<180, 8428>>, mq_timedreceive
  |-> <<183, 48888>>, mq_timedsend |-> <<182, 48848>>, mq_unlink |-> <<181, 8>>, mremap |-> <<216, 88888>>,
  msgctl |-> <<187, 448>>, msgget |-> <<186, 44>>, msgrcv |-> <<188, 48884>>, msgsnd |-> <<189, 4884>>]
Aarch64_7 == [msync |-> <<227, 884>>, munlock |-> <<229, 88>>, munlockall |-> <<231, 0>>, munmap |-> <<215,
  88>>, name_to_handle_at |-> <<264, 48884>>, nanosleep |-> <<101, 88>>, newfstat |-> <<80, 48>>, newfstatat
  |-> <<79, 4884>>, newuname |-> <<160, 8>>, nfsservctl |-> <<42, 488>>, openat |-> <<56, 4842>>,
  open_by_handle_at |-> <<265, 484>>, perf_event_open |-> <<241, 84448>>, personality |-> <<92, 4>>, pipe2 |->
  <<59, 84>>, pivot_root |-> <<41, 88>>, ppoll |-> <<73, 84888>>, prctl |-> <<167, 48888>>, pread64 |-> <<67,
  4888>>, preadv |-> <<69, 88888>>, preadv2 |-> <<286, 888884>>]
Aarch64_8 == [prlimit64 |-> <<261, 4488>>, process_vm_readv |-> <<270, 488888>>, process_vm_writev |-> <<271,
  488888>>, pselect6 |-> <<72, 488888>>, ptrace |-> <<117, 8888>>, pwrite64 |-> <<68, 4888>>, pwritev |->
  <<70, 88888>>, pwritev2 |-> <<287, 888884>>, quotactl |-> <<60, 4848>>, read |-> <<63, 488>>, readahead |->
  <<213, 488>>, readlinkat |-> <<78, 4884>>, readv |-> <<65, 888>>, reboot |-> <<142, 4448>>, recvfrom |->
  <<207, 488488>>, recvmmsg |-> <<243, 48448>>, recvmsg |-> <<212, 484>>]
Aarch64_9 == [remap_file_pages |-> <<234, 88888>>, removexattr |-> <<14, 88>>, renameat |-> <<38, 4848>>,
  renameat2 |-> <<276, 48484>>, request_key |-> <<218, 8884>>, restart_syscall |-> <<128, 0>>, rt_sigaction
  |-> <<134, 4888>>, rt_sigpending |-> <<136, 88>>, rt_sigprocmask |-> <<135, 4888>>, rt_sigqueueinfo |->
  <<138, 448>>, rt_sigreturn |-> <<139, 0>>, rt_sigsuspend |-> <<133, 88>>, rt_sigtimedwait |-> <<137, 8888>>,
  rt_tgsigqueueinfo |-> <<240, 4448>>, sched_getaffinity |-> <<123, 448>>, sched_getattr |-> <<275, 4844>>,
  sched_getparam |-> <<121, 48>>, sched_get_priority_max |-> <<125, 4>>, sched_get_priority_min |-> <<126,
  4>>, sched_getscheduler |-> <<120, 4>>, sched_rr_get_interval |-> <<127, 48>>, sched_setaffinity |-> <<122,
  448>>, sched_setattr |-> <<274, 484>>]
Aarch64_10 == [sched_setparam |-> <<118, 48>>, sched_setscheduler |-> <<119, 448>>, sched_yield |-> <<124,
  0>>, seccomp |-> <<277, 448>>, semctl |-> <<191, 4448>>, semget |-> <<190, 444>>, semop |-> <<193, 484>>,
  semtimedop |-> <<192, 4848>>, sendfile |-> <<71, 4488>>, sendmmsg |-> <<269, 4844>>, sendmsg |-> <<211,
  484>>, sendto |-> <<206, 488484>>, setdomainname |-> <<162, 84>>, setfsgid |-> <<152, 4>>, setfsuid |->
  <<151, 4>>, setgid |-> <<144, 4>>, setgroups |-> <<159, 48>>, sethostname |-> <<161, 84>>, setitimer |->
  <<103, 488>>, set_mempolicy |-> <<237, 488>>, setns |-> <<268, 44>>, setpgid |-> <<154, 44>>, setpriority
  |-> <<140, 444>>]
Aarch64_11 == [setregid |-> <<143, 44>>, setresgid |-> <<149, 444>>, setresuid |-> <<147, 444>>, setreuid |->
  <<145, 44>>, setrlimit |-> <<164, 48>>, set_robust_list |-> <<99, 88>>, setsid |-> <<157, 0>>, setsockopt
  |-> <<208, 44484>>, set_tid_address |-> <<96, 8>>, settimeofday |-> <<170, 88>>, setuid |-> <<146, 4>>,
  setxattr |-> <<5, 88884>>, shmat |-> <<196, 484>>, shmctl |-> <<195, 448>>, shmdt |-> <<197, 8>>, shmget |->
  <<194, 484>>, shutdown |-> <<210, 44>>, sigaltstack |-> <<132, 88>>, signalfd4 |-> <<74, 4884>>, socket |->
  <<198, 444>>, socketpair |-> <<199, 4448>>, splice |-> <<76, 484884>>, statfs |-> <<43, 88>>]
Aarch64_12 == [swapoff |-> <<225, 8>>, swapon |-> <<224, 84>>, symlinkat |-> <<36, 848>>, sync |-> <<81, 0>>,
  sync_file_range2 |-> <<84, 4884>>, syncfs |-> <<267, 4>>, sysinfo |-> <<179, 8>>, syslog |-> <<116, 484>>,
  tee |-> <<77, 4484>>, tgkill |-> <<131, 444>>, timer_create |-> <<107, 488>>, timer_delete |-> <<111, 4>>,
  timerfd_create |-> <<85, 44>>, timerfd_gettime |-> <<87, 48>>, timerfd_settime |-> <<86, 4488>>,
  timer_getoverrun |-> <<109, 4>>, timer_gettime |-> <<108, 48>>, timer_settime |-> <<110, 4488>>, times |->
  <<153, 8>>, tkill |-> <<130, 44>>, truncate |-> <<45, 88>>, umask |-> <<166, 4>>, unlinkat |-> <<35, 484>>,
  unshare |-> <<97, 8>>, userfaultfd |-> <<282, 4>>]
Aarch64_13 == [utimensat |-> <<88, 4884>>, vhangup |-> <<58, 0>>, vmsplice |-> <<75, 4884>>, wait4 |-> <<260,
  4848>>, waitid |-> <<95, 44848>>, write |-> <<64, 488>>, writev |-> <<66, 888>>]
aarch64_syscall_list ==
  Aarch64_1 @@ Aarch64_2 @@ Aarch64_3 @@ Aarch64_4 @@ Aarch64_5 @@ Aarch64_6 @@ Aarch64_7 @@
  Aarch64_8 @@ Aarch64_9 @@ Aarch64_10 @@ Aarch64_11 @@ Aarch64_12 @@ Aarch64_13

(* amd64_syscalls.c *)
Amd64_1 == [accept |-> <<43, 488>>, accept4 |-> <<288, 4884>>, access |-> <<21, 84>>, acct |-> <<163, 8>>,
  add_key |-> <<248, 88884>>, adjtimex |-> <<159, 8>>, afs_syscall |-> <<183, 0>>, alarm |-> <<37, 4>>,
  arch_prctl |-> <<158, 48>>, bind |-> <<49, 484>>, bpf |-> <<321, 484>>, brk |-> <<12, 8>>, capget |-> <<125,
  88>>, capset |-> <<126, 88>>, chdir |-> <<80, 8>>, chmod |-> <<90, 82>>, chown |-> <<92, 844>>, chroot |->
  <<161, 8>>, clock_adjtime |-> <<305, 48>>, clock_getres |-> <<229, 48>>, clock_gettime |-> <<228, 48>>,
  clock_nanosleep |-> <<230, 4488>>, clock_settime |-> <<227, 48>>, clone |-> <<56, 88888>>]
Amd64_2 == [close |-> <<3, 4>>, connect |-> <<42, 484>>, copy_file_range |-> <<326, 484884>>, creat |-> <<85,
  82>>, create_module |-> <<174, 88>>, delete_module |-> <<176, 84>>, dup |-> <<32, 4>>, dup2 |-> <<33, 44>>,
  dup3 |-> <<292, 444>>, epoll_create |-> <<213, 4>>, epoll_create1 |-> <<291, 4>>, epoll_ctl |-> <<233,
  4448>>, epoll_ctl_old |-> <<214, 0>>, epoll_pwait |-> <<281, 484488>>, epoll_wait |-> <<232, 4844>>,
  epoll_wait_old |-> <<215, 0>>, eventfd |-> <<284, 4>>, eventfd2 |-> <<290, 44>>, execve |-> <<59, 888>>,
  execveat |-> <<322, 48884>>, exit |-> <<60, 4>>, exit_group |-> <<231, 4>>, faccessat |-> <<269, 484>>,
  fadvise64 |-> <<221, 4884>>]
Amd64_3 == [fallocate |-> <<285, 4488>>, fanotify_init |-> <<300, 44>>, fanotify_mark |-> <<301, 44848>>,
  fchdir |-> <<81, 4>>, fchmod |-> <<91, 42>>, fchmodat |-> <<268, 482>>, fchown |-> <<93, 444>>, fchownat |->
  <<260, 48444>>, fcntl |-> <<72, 448>>, fdatasync |-> <<75, 4>>, fgetxattr |-> <<193, 4888>>, finit_module
  |-> <<313, 484>>, flistxattr |-> <<196, 488>>, flock |-> <<73, 44>>, fork |-> <<57, 0>>, fremovexattr |->
  <<199, 48>>, fsetxattr |-> <<190, 48884>>, fstatfs |-> <<138, 48>>, fsync |-> <<74, 4>>, ftruncate |-> <<77,
  48>>, futex |-> <<202, 844884>>, futimesat |-> <<261, 488>>]
Amd64_4 == [getcpu |-> <<309, 888>>, getcwd |-> <<79, 88>>, getdents |-> <<78, 484>>, getdents64 |-> <<217,
  484>>, getegid |-> <<108, 0>>, geteuid |-> <<107, 0>>, getgid |-> <<104, 0>>, getgroups |-> <<115, 48>>,
  getitimer |-> <<36, 48>>, get_kernel_syms |-> <<177, 8>>, get_mempolicy |-> <<239, 88888>>, getpeername |->
  <<52, 488>>, getpgid |-> <<121, 4>>, getpgrp |-> <<111, 0>>, getpid |-> <<39, 0>>, getpmsg |-> <<181, 0>>,
  getppid |-> <<110, 0>>, getpriority |-> <<140, 44>>, getrandom |-> <<318, 884>>, getresgid |-> <<120, 888>>,
  getresuid |-> <<118, 888>>, getrlimit |-> <<97, 48>>, get_robust_list |-> <<274, 488>>, getrusage |-> <<98,
  48>>, getsid |-> <<124, 4>>, getsockname |-> <<51, 488>>, getsockopt |-> <<55, 44488>>, get_thread_area |->
  <<211, 8>>, gettid |-> <<186, 0>>]
Amd64_5 == [gettimeofday |-> <<96, 88>>, getuid |-> <<102, 0>>, getxattr |-> <<191, 8888>>, init_module |->
  <<175, 888>>, inotify_add_watch |-> <<254, 484>>, inotify_init |-> <<253, 0>>, inotify_init1 |-> <<294, 4>>,
  inotify_rm_watch |-> <<255, 44>>, io_cancel |-> <<210, 888>>, ioctl |-> <<16, 448>>, io_destroy |-> <<207,
  8>>, io_getevents |-> <<208, 88888>>, ioperm |-> <<173, 884>>, iopl |-> <<172, 4>>, ioprio_get |-> <<252,
  44>>, ioprio_set |-> <<251, 444>>, io_setup |-> <<206, 48>>, io_submit |-> <<209, 888>>, kcmp |-> <<312,
  44488>>, kexec_file_load |-> <<320, 44888>>, kexec_load |-> <<246, 8888>>, keyctl |-> <<250, 48888>>, kill
  |-> <<62, 44>>]
Amd64_6 == [lchown |-> <<94, 844>>, lgetxattr |-> <<192, 8888>>, link |-> <<86, 88>>, linkat |-> <<265,
  48484>>, listen |-> <<50, 44>>, listxattr |-> <<194, 888>>, llistxattr |-> <<195, 888>>, lookup_dcookie |->
  <<212, 888>>, lremovexattr |-> <<198, 88>>, lseek |-> <<8, 484>>, lsetxattr |-> <<189, 88884>>, madvise |->
  <<28, 884>>, mbind |-> <<237, 888884>>, membarrier |-> <<324, 44>>, memfd_create |-> <<319, 84>>,
  migrate_pages |-> <<256, 4888>>, mincore |-> <<27, 888>>, mkdir |-> <<83, 82>>, mkdirat |-> <<258, 482>>,
  mknod |-> <<133, 824>>]
Amd64_7 == [mknodat |-> <<259, 4824>>, mlock |-> <<149, 88>>, mlock2 |-> <<325, 884>>, mlockall |-> <<151,
  4>>, mmap |-> <<9, 888888>>, modify_ldt |-> <<154, 488>>, mount |-> <<165, 88888>>, move_pages |-> <<279,
  488884>>, mprotect |-> <<10, 888>>, mq_getsetattr |-> <<245, 488>>, mq_notify |-> <<244, 48>>, mq_open |->
  <<240, 8428>>, mq_timedreceive |-> <<243, 48888>>, mq_timedsend |-> <<242, 48848>>, mq_unlink |-> <<241,
  8>>, mremap |-> <<25, 88888>>, msgctl |-> <<71, 448>>, msgget |-> <<68, 44>>, msgrcv |-> <<70, 48884>>]
Amd64_8 == [msgsnd |-> <<69, 4884>>, msync |-> <<26, 884>>, munlock |-> <<150, 88>>, munlockall |-> <<152,
  0>>, munmap |-> <<11, 88>>, name_to_handle_at |-> <<303, 48884>>, nanosleep |-> <<35, 88>>, newfstat |->
  <<5, 48>>, newfstatat |-> <<262, 4884>>, newlstat |-> <<6, 88>>, newstat |-> <<4, 88>>, newuname |-> <<63,
  8>>, nfsservctl |-> <<180, 488>>, open |-> <<2, 842>>, openat |-> <<257, 4842>>, open_by_handle_at |->
  <<304, 484>>, pause |-> <<34, 0>>, perf_event_open |-> <<298, 84448>>, personality |-> <<135, 4>>, pipe |->
  <<22, 8>>, pipe2 |-> <<293, 84>>, pivot_root |-> <<155, 88>>, poll |-> <<7, 844>>]
Amd64_9 == [ppoll |-> <<271, 84888>>, prctl |-> <<157, 48888>>, pread64 |-> <<17, 4888>>, preadv |-> <<295,
  88888>>, preadv2 |-> <<327, 888884>>, prlimit64 |-> <<302, 4488>>, process_vm_readv |-> <<310, 488888>>,
  process_vm_writev |-> <<311, 488888>>, pselect6 |-> <<270, 488888>>, ptrace |-> <<101, 8888>>, putpmsg |->
  <<182, 0>>, pwrite64 |-> <<18, 4888>>, pwritev |-> <<296, 88888>>, pwritev2 |-> <<328, 888884>>,
  query_module |-> <<178, 84888>>, quotactl |-> <<179, 4848>>, read |-> <<0, 488>>, readahead |-> <<187,
  488>>]
Amd64_10 == [readlink |-> <<89, 884>>, readlinkat |-> <<267, 4884>>, readv |-> <<19, 888>>, reboot |-> <<169,
  4448>>, recvfrom |-> <<45, 488488>>, recvmmsg |-> <<299, 48448>>, recvmsg |-> <<47, 484>>, remap_file_pages
  |-> <<216, 88888>>, removexattr |-> <<197, 88>>, rename |-> <<82, 88>>, renameat |-> <<264, 4848>>,
  renameat2 |-> <<316, 48484>>, request_key |-> <<249, 8884>>, restart_syscall |-> <<219, 0>>, rmdir |-> <<84,
  8>>, rt_sigaction |-> <<13, 4888>>, rt_sigpending |-> <<127, 88>>, rt_sigprocmask |-> <<14, 4888>>,
  rt_sigqueueinfo |-> <<129, 448>>, rt_sigreturn |-> <<15, 0>>, rt_sigsuspend |-> <<130, 88>>]
Amd64_11 == [rt_sigtimedwait |-> <<128, 8888>>, rt_tgsigqueueinfo |-> <<297, 4448>>, sched_getaffinity |->
  <<204, 448>>, sched_getattr |-> <<315, 4844>>, sched_getparam |-> <<143, 48>>, sched_get_priority_max |->
  <<146, 4>>, sched_get_priority_min |-> <<147, 4>>, sched_getscheduler |-> <<145, 4>>, sched_rr_get_interval
  |-> <<148, 48>>, sched_setaffinity |-> <<203, 448>>, sched_setattr |-> <<314, 484>>, sched_setparam |->
  <<142, 48>>, sched_setscheduler |-> <<144, 448>>, sched_yield |-> <<24, 0>>, seccomp |-> <<317, 448>>,
  security |-> <<185, 0>>, select |-> <<23, 48888>>, semctl |-> <<66, 4448>>, semget |-> <<64, 444>>, semop
  |-> <<65, 484>>, semtimedop |-> <<220, 4848>>, sendfile64 |-> <<40, 4488>>, sendmmsg |-> <<307, 4844>>]
Amd64_12 == [sendmsg |-> <<46, 484>>, sendto |-> <<44, 488484>>, setdomainname |-> <<171, 84>>, setfsgid |->
  <<123, 4>>, setfsuid |-> <<122, 4>>, setgid |-> <<106, 4>>, setgroups |-> <<116, 48>>, sethostname |->
  <<170, 84>>, setitimer |-> <<38, 488>>, set_mempolicy |-> <<238, 488>>, setns |-> <<308, 44>>, setpgid |->
  <<109, 44>>, setpriority |-> <<141, 444>>, setregid |-> <<114, 44>>, setresgid |-> <<119, 444>>, setresuid
  |-> <<117, 444>>, setreuid |-> <<113, 44>>, setrlimit |-> <<160, 48>>, set_robust_list |-> <<273, 88>>,
  setsid |-> <<112, 0>>, setsockopt |-> <<54, 44484>>, set_thread_area |-> <<205, 8>>, set_tid_address |->
  <<218, 8>>, settimeofday |-> <<164, 88>>]
Amd64_13 == [setuid |-> <<105, 4>>, setxattr |-> <<188, 88884>>, shmat |-> <<30, 484>>, shmctl |-> <<31,
  448>>, shmdt |-> <<67, 8>>, shmget |-> <<29, 484>>, shutdown |-> <<48, 44>>, sigaltstack |-> <<131, 88>>,
  signalfd |-> <<282, 488>>, signalfd4 |-> <<289, 4884>>, socket |-> <<41, 444>>, socketpair |-> <<53, 4448>>,
  splice |-> <<275, 484884>>, statfs |-> <<137, 88>>, swapoff |-> <<168, 8>>, swapon |-> <<167, 84>>, symlink
  |-> <<88, 88>>, symlinkat |-> <<266, 848>>, sync |-> <<162, 0>>, sync_file_range |-> <<277, 4884>>, syncfs
  |-> <<306, 4>>, sysctl |-> <<156, 8>>, sysfs |-> <<139, 488>>]
Amd64_14 == [sysinfo |-> <<99, 8>>, syslog |-> <<103, 484>>, tee |-> <<276, 4484>>, tgkill |-> <<234, 444>>,
  time |-> <<201, 8>>, timer_create |-> <<222, 488>>, timer_delete |-> <<226, 4>>, timerfd_create |-> <<283,
  44>>, timerfd_gettime |-> <<287, 48>>, timerfd_settime |-> <<286, 4488>>, timer_getoverrun |-> <<225, 4>>,
  timer_gettime |-> <<224, 48>>, timer_settime |-> <<223, 4488>>, times |-> <<100, 8>>, tkill |-> <<200, 44>>,
  truncate |-> <<76, 88>>, tuxcall |-> <<184, 0>>, umask |-> <<95, 4>>, umount |-> <<166, 84>>, unlink |->
  <<87, 8>>, unlinkat |-> <<263, 484>>, unshare |-> <<272, 8>>, uselib |-> <<134, 8>>, userfaultfd |-> <<323,
  4>>, ustat |-> <<136, 48>>]
Amd64_15 == [utime |-> <<132, 88>>, utimensat |-> <<280, 4884>>, utimes |-> <<235, 88>>, vfork |-> <<58, 0>>,
  vhangup |-> <<153, 0>>, vmsplice |-> <<278, 4884>>, vserver |-> <<236, 0>>, wait4 |-> <<61, 4848>>, waitid
  |-> <<247, 44848>>, write |-> <<1, 488>>, writev |-> <<20, 888>>]
amd64_syscall_list ==
  Amd64_1 @@ Amd64_2 @@ Amd64_3 @@ Amd64_4 @@ Amd64_5 @@ Amd64_6 @@ Amd64_7 @@ Amd64_8 @@ Amd64_9 @@
  Amd64_10 @@ Amd64_11 @@ Amd64_12 @@ Amd64_13 @@ Amd64_14 @@ Amd64_15

(* mipso32_syscalls.c *)
Mipso32_1 == [accept |-> <<4168, 444>>, accept4 |-> <<4334, 4444>>, access |-> <<4033, 44>>, acct |-> <<4051,
  4>>, add_key |-> <<4280, 44444>>, adjtimex |-> <<4124, 4>>, alarm |-> <<4027, 4>>, bdflush |-> <<4134, 44>>,
  bind |-> <<4169, 444>>, bpf |-> <<4355, 444>>, breakpoint |-> <<983041, 0>>, brk |-> <<4045, 4>>, cacheflush
  |-> <<4147, 444>>, capget |-> <<4204, 44>>, capset |-> <<4205, 44>>, chdir |-> <<4012, 4>>, chmod |->
  <<4015, 42>>, chown |-> <<4202, 444>>, chroot |-> <<4061, 4>>, clock_adjtime |-> <<4341, 44>>, clock_getres
  |-> <<4264, 44>>, clock_gettime |-> <<4263, 44>>]
Mipso32_2 == [clock_nanosleep |-> <<4265, 4444>>, clock_settime |-> <<4262, 44>>, clone |-> <<4120, 44444>>,
  close |-> <<4006, 4>>, connect |-> <<4170, 444>>, copy_file_range |-> <<4360, 444444>>, creat |-> <<4008,
  42>>, delete_module |-> <<4129, 44>>, dup |-> <<4041, 4>>, dup2 |-> <<4063, 44>>, dup3 |-> <<4327, 444>>,
  epoll_create |-> <<4248, 4>>, epoll_create1 |-> <<4326, 4>>, epoll_ctl |-> <<4249, 4444>>, epoll_pwait |->
  <<4313, 444444>>, epoll_wait |-> <<4250, 4444>>, eventfd |-> <<4319, 4>>, eventfd2 |-> <<4325, 44>>, execve
  |-> <<4011, 444>>, execveat |-> <<4356, 44444>>, exit |-> <<4001, 4>>, exit_group |-> <<4246, 4>>]
Mipso32_3 == [faccessat |-> <<4300, 444>>, fallocate |-> <<4320, 4488>>, fanotify_init |-> <<4336, 44>>,
  fanotify_mark |-> <<4337, 44844>>, fchdir |-> <<4133, 4>>, fchmod |-> <<4094, 42>>, fchmodat |-> <<4299,
  442>>, fchown |-> <<4095, 444>>, fchownat |-> <<4291, 44444>>, fcntl |-> <<4055, 444>>, fcntl64 |-> <<4220,
  444>>, fdatasync |-> <<4152, 4>>, fgetxattr |-> <<4229, 4444>>, finit_module |-> <<4348, 444>>, flistxattr
  |-> <<4232, 444>>, flock |-> <<4143, 44>>, fork |-> <<2, 0>>, fremovexattr |-> <<4235, 44>>, fsetxattr |->
  <<4226, 44444>>, fstat64 |-> <<4215, 44>>, fstatat64 |-> <<4293, 4444>>]
Mipso32_4 == [fstatfs |-> <<4100, 44>>, fstatfs64 |-> <<4256, 444>>, fsync |-> <<4118, 4>>, ftruncate |->
  <<4093, 44>>, ftruncate64 |-> <<4212, 48>>, futex |-> <<4238, 444444>>, futimesat |-> <<4292, 444>>, getcpu
  |-> <<4312, 444>>, getcwd |-> <<4203, 44>>, getdents |-> <<4141, 444>>, getdents64 |-> <<4219, 444>>,
  getegid |-> <<202, 0>>, getegid16 |-> <<50, 0>>, geteuid |-> <<201, 0>>, geteuid16 |-> <<49, 0>>, getgid |->
  <<200, 0>>, getgid16 |-> <<47, 0>>, getgroups |-> <<4080, 44>>, getitimer |-> <<4105, 44>>, get_mempolicy
  |-> <<4269, 44444>>, getpeername |-> <<4171, 444>>, getpgid |-> <<4132, 4>>, getpgrp |-> <<65, 0>>, getpid
  |-> <<20, 0>>, getppid |-> <<64, 0>>, getpriority |-> <<4096, 44>>, getrandom |-> <<4353, 444>>, getresgid
  |-> <<4191, 444>>]
Mipso32_5 == [getresuid |-> <<4186, 444>>, getrlimit |-> <<4076, 44>>, get_robust_list |-> <<4310, 444>>,
  getrusage |-> <<4077, 44>>, getsid |-> <<4151, 4>>, getsockname |-> <<4172, 444>>, getsockopt |-> <<4173,
  44444>>, gettid |-> <<224, 0>>, gettimeofday |-> <<4078, 44>>, getuid |-> <<199, 0>>, getuid16 |-> <<24,
  0>>, getxattr |-> <<4227, 4444>>, init_module |-> <<4128, 444>>, inotify_add_watch |-> <<4285, 444>>,
  inotify_init |-> <<316, 0>>, inotify_init1 |-> <<4329, 4>>, inotify_rm_watch |-> <<4286, 44>>, io_cancel |->
  <<4245, 444>>, ioctl |-> <<4054, 444>>, io_destroy |-> <<4242, 4>>, io_getevents |-> <<4243, 44444>>,
  ioprio_get |-> <<4315, 44>>, ioprio_set |-> <<4314, 444>>, io_setup |-> <<4241, 44>>]
Mipso32_6 == [io_submit |-> <<4244, 444>>, ipc |-> <<4117, 444444>>, kcmp |-> <<4347, 44444>>, kexec_load |->
  <<4311, 4444>>, keyctl |-> <<4282, 44444>>, kill |-> <<4037, 44>>, lchown |-> <<4016, 444>>, lgetxattr |->
  <<4228, 4444>>, link |-> <<4009, 44>>, linkat |-> <<4296, 44444>>, listen |-> <<4174, 44>>, listxattr |->
  <<4230, 444>>, llistxattr |-> <<4231, 444>>, lookup_dcookie |-> <<4247, 844>>, lremovexattr |-> <<4234,
  44>>, lseek |-> <<4019, 444>>, lsetxattr |-> <<4225, 44444>>]
Mipso32_7 == [lstat64 |-> <<4214, 44>>, madvise |-> <<4218, 444>>, mbind |-> <<4268, 444444>>, membarrier |->
  <<4358, 44>>, memfd_create |-> <<4354, 44>>, mincore |-> <<4217, 444>>, mkdir |-> <<4039, 42>>, mkdirat |->
  <<4289, 442>>, mknod |-> <<4014, 424>>, mknodat |-> <<4290, 4424>>, mlock |-> <<4154, 44>>, mlock2 |->
  <<4359, 444>>, mlockall |-> <<4156, 4>>, mmap |-> <<4090, 444444>>, mmap2 |-> <<4210, 444444>>, mount |->
  <<4021, 44444>>, move_pages |-> <<4308, 444444>>, mprotect |-> <<4125, 444>>, mq_getsetattr |-> <<4276,
  444>>, mq_notify |-> <<4275, 44>>]
Mipso32_8 == [mq_open |-> <<4271, 4424>>, mq_timedreceive |-> <<4274, 44444>>, mq_timedsend |-> <<4273,
  44444>>, mq_unlink |-> <<4272, 4>>, mremap |-> <<4167, 44444>>, msync |-> <<4144, 444>>, munlock |-> <<4155,
  44>>, munlockall |-> <<153, 0>>, munmap |-> <<4091, 44>>, name_to_handle_at |-> <<4339, 44444>>, nanosleep
  |-> <<4166, 44>>, nfsservctl |-> <<4189, 444>>, nice |-> <<4034, 4>>]
Mipso32_9 == [open |-> <<4005, 442>>, openat |-> <<4288, 4442>>, open_by_handle_at |-> <<4340, 444>>, pause
  |-> <<29, 0>>, perf_event_open |-> <<4333, 44444>>, personality |-> <<4136, 4>>, pipe |-> <<4042, 4>>, pipe2
  |-> <<4328, 44>>, pivot_root |-> <<4216, 44>>, poll |-> <<4188, 444>>, ppoll |-> <<4302, 44444>>, prctl |->
  <<4192, 44444>>, pread64 |-> <<4200, 4448>>, preadv |-> <<4330, 44444>>, preadv2 |-> <<4361, 444444>>,
  prlimit64 |-> <<4338, 4444>>, process_vm_readv |-> <<4345, 444444>>]
Mipso32_10 == [process_vm_writev |-> <<4346, 444444>>, pselect6 |-> <<4301, 444444>>, ptrace |-> <<4026,
  4444>>, pwrite64 |-> <<4201, 4448>>, pwritev |-> <<4331, 44444>>, pwritev2 |-> <<4362, 444444>>, quotactl
  |-> <<4131, 4444>>, read |-> <<4003, 444>>, readahead |-> <<4223, 484>>, readdir |-> <<4089, 444>>, readlink
  |-> <<4085, 444>>, readlinkat |-> <<4298, 4444>>, readv |-> <<4145, 444>>, reboot |-> <<4088, 4444>>, recv
  |-> <<4175, 4444>>, recvfrom |-> <<4176, 444444>>, recvmmsg |-> <<4335, 44444>>, recvmsg |-> <<4177, 444>>]
Mipso32_11 == [remap_file_pages |-> <<4251, 44444>>, removexattr |-> <<4233, 44>>, rename |-> <<4038, 44>>,
  renameat |-> <<4295, 4444>>, renameat2 |-> <<4351, 44444>>, request_key |-> <<4281, 4444>>, restart_syscall
  |-> <<0, 0>>, rmdir |-> <<4040, 4>>, rt_sigaction |-> <<4194, 4444>>, rt_sigpending |-> <<4196, 44>>,
  rt_sigprocmask |-> <<4195, 4444>>, rt_sigqueueinfo |-> <<4198, 444>>, rt_sigreturn |-> <<173, 0>>,
  rt_sigsuspend |-> <<4199, 44>>, rt_sigtimedwait |-> <<4197, 4444>>, rt_tgsigqueueinfo |-> <<4332, 4444>>,
  sched_getaffinity |-> <<4240, 444>>, sched_getattr |-> <<4350, 4444>>, sched_getparam |-> <<4159, 44>>,
  sched_get_priority_max |-> <<4163, 4>>, sched_get_priority_min |-> <<4164, 4>>, sched_getscheduler |->
  <<4161, 4>>, sched_rr_get_interval |-> <<4165, 44>>]
Mipso32_12 == [sched_setaffinity |-> <<4239, 444>>, sched_setattr |-> <<4349, 444>>, sched_setparam |->
  <<4158, 44>>, sched_setscheduler |-> <<4160, 444>>, sched_yield |-> <<158, 0>>, seccomp |-> <<4352, 444>>,
  send |-> <<4178, 4444>>, sendfile |-> <<4207, 4444>>, sendfile64 |-> <<4237, 4444>>, sendmmsg |-> <<4343,
  4444>>, sendmsg |-> <<4179, 444>>, sendto |-> <<4180, 444444>>, setdomainname |-> <<4121, 44>>, setfsgid |->
  <<4139, 4>>, setfsuid |-> <<4138, 4>>]
Mipso32_13 == [setgid |-> <<4046, 4>>, setgroups |-> <<4081, 44>>, sethostname |-> <<4074, 44>>, setitimer |->
  <<4104, 444>>, set_mempolicy |-> <<4270, 444>>, setns |-> <<4344, 44>>, setpgid |-> <<4057, 44>>,
  setpriority |-> <<4097, 444>>, setregid |-> <<4071, 44>>, setresgid |-> <<4190, 444>>, setresuid |-> <<4185,
  444>>, setreuid |-> <<4070, 44>>, setrlimit |-> <<4075, 44>>, set_robust_list |-> <<4309, 44>>, setsid |->
  <<66, 0>>, setsockopt |-> <<4181, 44444>>, set_tid_address |-> <<4252, 4>>]
Mipso32_14 == [settimeofday |-> <<4079, 44>>, setuid |-> <<4023, 4>>, setxattr |-> <<4224, 44444>>, shutdown
  |-> <<4182, 44>>, sigaction |-> <<4067, 444>>, sigaltstack |-> <<4206, 44>>, signalfd |-> <<4317, 444>>,
  signalfd4 |-> <<4324, 4444>>, sigpending |-> <<4073, 4>>, sigprocmask |-> <<4126, 444>>, sigreturn |->
  <<119, 0>>, sigsuspend |-> <<4072, 444>>, socket |-> <<4183, 444>>, socketcall |-> <<4102, 44>>, socketpair
  |-> <<4184, 4444>>, splice |-> <<4304, 444444>>]
Mipso32_15 == [stat64 |-> <<4213, 44>>, statfs |-> <<4099, 44>>, statfs64 |-> <<4255, 444>>, stime |-> <<4025,
  4>>, swapoff |-> <<4115, 4>>, swapon |-> <<4087, 44>>, symlink |-> <<4083, 44>>, symlinkat |-> <<4297,
  444>>, sync |-> <<36, 0>>, syncfs |-> <<4342, 4>>, syscall |-> <<113, 0>>, sysfs |-> <<4135, 444>>, sysinfo
  |-> <<4116, 4>>, syslog |-> <<4103, 444>>, tee |-> <<4306, 4444>>, tgkill |-> <<4266, 444>>, time |->
  <<4013, 4>>, timer_create |-> <<4257, 444>>, timer_delete |-> <<4261, 4>>, timerfd_create |-> <<4321, 44>>,
  timerfd_gettime |-> <<4322, 44>>, timerfd_settime |-> <<4323, 4444>>, timer_getoverrun |-> <<4260, 4>>]
Mipso32_16 == [timer_gettime |-> <<4259, 44>>, timer_settime |-> <<4258, 4444>>, times |-> <<4043, 4>>, tkill
  |-> <<4236, 44>>, truncate |-> <<4092, 44>>, truncate64 |-> <<4211, 48>>, umask |-> <<4060, 4>>, umount |->
  <<4022, 44>>, unlink |-> <<4010, 4>>, unlinkat |-> <<4294, 444>>, unshare |-> <<4303, 4>>, uselib |->
  <<4086, 4>>, userfaultfd |-> <<4357, 4>>, usr26 |-> <<983043, 0>>, usr32 |-> <<983044, 0>>, ustat |->
  <<4062, 44>>, utime |-> <<4030, 44>>, utimensat |-> <<4316, 4444>>, utimes |-> <<4267, 44>>, vfork |->
  <<190, 0>>, vhangup |-> <<111, 0>>, vmsplice |-> <<4307, 4444>>, vserver |-> <<313, 0>>, wait4 |-> <<4114,
  4444>>, waitid |-> <<4278, 44444>>, write |-> <<4004, 444>>, writev |-> <<4146, 444>>]
mipso32_syscall_list ==
  Mipso32_1 @@ Mipso32_2 @@ Mipso32_3 @@ Mipso32_4 @@ Mipso32_5 @@ Mipso32_6 @@ Mipso32_7 @@
  Mipso32_8 @@ Mipso32_9 @@ Mipso32_10 @@ Mipso32_11 @@ Mipso32_12 @@ Mipso32_13 @@ Mipso32_14 @@
  Mipso32_15 @@ Mipso32_16

(* mips64_syscalls.c *)
Mips64_1 == [accept |-> <<5042, 488>>, accept4 |-> <<5293, 4884>>, acct |-> <<5158, 8>>, add_key |-> <<5239,
  88884>>, adjtimex |-> <<5154, 8>>, bind |-> <<5048, 484>>, bpf |-> <<5315, 484>>, brk |-> <<5012, 8>>,
  capget |-> <<5123, 88>>, capset |-> <<5124, 88>>, chdir |-> <<5078, 8>>, chroot |-> <<5156, 8>>,
  clock_adjtime |-> <<5300, 48>>, clock_getres |-> <<5223, 48>>, clock_gettime |-> <<5222, 48>>,
  clock_nanosleep |-> <<5224, 4488>>, clock_settime |-> <<5221, 48>>, clone |-> <<5055, 88888>>, close |->
  <<5003, 4>>, connect |-> <<5041, 484>>, copy_file_range |-> <<285, 484884>>, delete_module |-> <<5169, 84>>,
  dup |-> <<5031, 4>>]
Mips64_2 == [dup3 |-> <<5286, 444>>, epoll_create1 |-> <<5285, 4>>, epoll_ctl |-> <<5208, 4448>>, epoll_pwait
  |-> <<5272, 484488>>, eventfd2 |-> <<5284, 44>>, execve |-> <<5057, 888>>, execveat |-> <<5316, 48884>>,
  exit |-> <<5058, 4>>, exit_group |-> <<5205, 4>>, faccessat |-> <<5259, 484>>, fadvise64 |-> <<5215, 4884>>,
  fallocate |-> <<5279, 4488>>, fanotify_init |-> <<5295, 44>>, fanotify_mark |-> <<5296, 44848>>, fchdir |->
  <<5079, 4>>, fchmod |-> <<5089, 42>>, fchmodat |-> <<5258, 482>>, fchown |-> <<5091, 444>>, fchownat |->
  <<5250, 48444>>, fcntl |-> <<5070, 448>>, fdatasync |-> <<5073, 4>>]
Mips64_3 == [fgetxattr |-> <<5185, 4888>>, finit_module |-> <<5307, 484>>, flistxattr |-> <<5188, 488>>, flock
  |-> <<5071, 44>>, fremovexattr |-> <<16, 48>>, fsetxattr |-> <<5182, 48884>>, fstatfs |-> <<5135, 48>>,
  fsync |-> <<5072, 4>>, ftruncate |-> <<5075, 48>>, futex |-> <<5194, 844884>>, getcpu |-> <<5271, 888>>,
  getcwd |-> <<5077, 88>>, getdents64 |-> <<5308, 484>>, getegid |-> <<177, 0>>, geteuid |-> <<175, 0>>,
  getgid |-> <<176, 0>>, getgroups |-> <<158, 48>>, getitimer |-> <<5035, 48>>, get_mempolicy |-> <<5228,
  88888>>, getpeername |-> <<5051, 488>>, getpgid |-> <<5119, 4>>, getpid |-> <<172, 0>>, getppid |-> <<173,
  0>>, getpriority |-> <<141, 44>>, getrandom |-> <<5313, 884>>, getresgid |-> <<5118, 888>>]
Mips64_4 == [getresuid |-> <<5116, 888>>, getrlimit |-> <<5095, 48>>, get_robust_list |-> <<5269, 488>>,
  getrusage |-> <<5096, 48>>, getsid |-> <<5122, 4>>, getsockname |-> <<5050, 488>>, getsockopt |-> <<5054,
  44488>>, gettid |-> <<178, 0>>, gettimeofday |-> <<169, 88>>, getuid |-> <<174, 0>>, getxattr |-> <<8,
  8888>>, init_module |-> <<5168, 888>>, inotify_add_watch |-> <<5244, 484>>, inotify_init1 |-> <<26, 4>>,
  inotify_rm_watch |-> <<5245, 44>>, io_cancel |-> <<5204, 888>>, ioctl |-> <<5015, 448>>, io_destroy |->
  <<5201, 8>>, io_getevents |-> <<5202, 88888>>, ioprio_get |-> <<5274, 44>>, ioprio_set |-> <<5273, 444>>,
  io_setup |-> <<5200, 48>>, io_submit |-> <<5203, 888>>]
Mips64_5 == [kcmp |-> <<5306, 44488>>, kexec_load |-> <<5270, 8888>>, keyctl |-> <<5241, 48888>>, kill |->
  <<5060, 44>>, lgetxattr |-> <<5184, 8888>>, linkat |-> <<5255, 48484>>, listen |-> <<5049, 44>>, listxattr
  |-> <<5186, 888>>, llistxattr |-> <<5187, 888>>, lookup_dcookie |-> <<5206, 888>>, lremovexattr |-> <<5190,
  88>>, lseek |-> <<5008, 484>>, lsetxattr |-> <<5181, 88884>>, madvise |-> <<5027, 884>>, mbind |-> <<5227,
  888884>>, membarrier |-> <<5318, 44>>, memfd_create |-> <<5314, 84>>, migrate_pages |-> <<5246, 4888>>,
  mincore |-> <<5026, 888>>, mkdirat |-> <<5248, 482>>]
Mips64_6 == [mknodat |-> <<5249, 4824>>, mlock |-> <<5146, 88>>, mlock2 |-> <<5319, 884>>, mlockall |->
  <<5148, 4>>, mmap |-> <<5009, 888888>>, mount |-> <<5160, 88888>>, move_pages |-> <<5267, 488884>>, mprotect
  |-> <<5010, 888>>, mq_getsetattr |-> <<5235, 488>>, mq_notify |-> <<5234, 48>>, mq_open |-> <<5230, 8428>>,
  mq_timedreceive |-> <<5233, 48888>>, mq_timedsend |-> <<5232, 48848>>, mq_unlink |-> <<5231, 8>>, mremap |->
  <<5024, 88888>>, msgctl |-> <<5069, 448>>, msgget |-> <<5066, 44>>, msgrcv |-> <<5068, 48884>>, msgsnd |->
  <<5067, 4884>>]
Mips64_7 == [msync |-> <<5025, 884>>, munlock |-> <<5147, 88>>, munlockall |-> <<231, 0>>, munmap |-> <<215,
  88>>, name_to_handle_at |-> <<5298, 48884>>, nanosleep |-> <<5034, 88>>, newfstat |-> <<80, 48>>, newfstatat
  |-> <<5252, 4884>>, newuname |-> <<160, 8>>, nfsservctl |-> <<5173, 488>>, openat |-> <<5247, 4842>>,
  open_by_handle_at |-> <<5299, 484>>, perf_event_open |-> <<241, 84448>>, personality |-> <<5132, 4>>, pipe2
  |-> <<5287, 84>>, pivot_root |-> <<5151, 88>>, ppoll |-> <<5261, 84888>>, prctl |-> <<5153, 48888>>, pread64
  |-> <<5016, 4888>>, preadv |-> <<5289, 88888>>, preadv2 |-> <<286, 888884>>]
Mips64_8 == [prlimit64 |-> <<5297, 4488>>, process_vm_readv |-> <<5304, 488888>>, process_vm_writev |->
  <<5305, 488888>>, pselect6 |-> <<5260, 488888>>, ptrace |-> <<5099, 8888>>, pwrite64 |-> <<5017, 4888>>,
  pwritev |-> <<5290, 88888>>, pwritev2 |-> <<287, 888884>>, quotactl |-> <<5172, 4848>>, read |-> <<5000,
  488>>, readahead |-> <<5179, 488>>, readlinkat |-> <<5257, 4884>>, readv |-> <<5018, 888>>, reboot |->
  <<5164, 4448>>, recvfrom |-> <<5044, 488488>>, recvmmsg |-> <<5294, 48448>>, recvmsg |-> <<5046, 484>>]
Mips64_9 == [remap_file_pages |-> <<5210, 88888>>, removexattr |-> <<5189, 88>>, renameat |-> <<5254, 4848>>,
  renameat2 |-> <<5311, 48484>>, request_key |-> <<5240, 8884>>, restart_syscall |-> <<128, 0>>, rt_sigaction
  |-> <<5013, 4888>>, rt_sigpending |-> <<5125, 88>>, rt_sigprocmask |-> <<5014, 4888>>, rt_sigqueueinfo |->
  <<5127, 448>>, rt_sigreturn |-> <<139, 0>>, rt_sigsuspend |-> <<133, 88>>, rt_sigtimedwait |-> <<5126,
  8888>>, rt_tgsigqueueinfo |-> <<5291, 4448>>, sched_getaffinity |-> <<5196, 448>>, sched_getattr |-> <<5310,
  4844>>, sched_getparam |-> <<5140, 48>>, sched_get_priority_max |-> <<5143, 4>>, sched_get_priority_min |->
  <<5144, 4>>, sched_getscheduler |-> <<5142, 4>>, sched_rr_get_interval |-> <<5145, 48>>, sched_setaffinity
  |-> <<5195, 448>>, sched_setattr |-> <<5309, 484>>]
Mips64_10 == [sched_setparam |-> <<5139, 48>>, sched_setscheduler |-> <<5141, 448>>, sched_yield |-> <<124,
  0>>, seccomp |-> <<277, 448>>, semctl |-> <<5064, 4448>>, semget |-> <<5062, 444>>, semop |-> <<5063, 484>>,
  semtimedop |-> <<5214, 4848>>, sendfile |-> <<71, 4488>>, sendmmsg |-> <<5302, 4844>>, sendmsg |-> <<5045,
  484>>, sendto |-> <<5043, 488484>>, setdomainname |-> <<5166, 84>>, setfsgid |-> <<5121, 4>>, setfsuid |->
  <<5120, 4>>, setgid |-> <<5104, 4>>, setgroups |-> <<5114, 48>>, sethostname |-> <<5165, 84>>, setitimer |->
  <<5036, 488>>, set_mempolicy |-> <<5229, 488>>, setns |-> <<5303, 44>>, setpgid |-> <<5107, 44>>,
  setpriority |-> <<5138, 444>>]
Mips64_11 == [setregid |-> <<5112, 44>>, setresgid |-> <<5117, 444>>, setresuid |-> <<5115, 444>>, setreuid
  |-> <<5111, 44>>, setrlimit |-> <<5155, 48>>, set_robust_list |-> <<5268, 88>>, setsid |-> <<157, 0>>,
  setsockopt |-> <<208, 44484>>, set_tid_address |-> <<5212, 8>>, settimeofday |-> <<5159, 88>>, setuid |->
  <<5103, 4>>, setxattr |-> <<5180, 88884>>, shmat |-> <<5029, 484>>, shmctl |-> <<5030, 448>>, shmdt |->
  <<5065, 8>>, shmget |-> <<5028, 484>>, shutdown |-> <<5047, 44>>, sigaltstack |-> <<5129, 88>>, signalfd4
  |-> <<5283, 4884>>, socket |-> <<5040, 444>>, socketpair |-> <<5052, 4448>>, splice |-> <<5263, 484884>>,
  statfs |-> <<5134, 88>>]
Mips64_12 == [swapoff |-> <<5163, 8>>, swapon |-> <<5162, 84>>, symlinkat |-> <<5256, 848>>, sync |-> <<81,
  0>>, sync_file_range2 |-> <<84, 4884>>, syncfs |-> <<5301, 4>>, sysinfo |-> <<5097, 8>>, syslog |-> <<5101,
  484>>, tee |-> <<5265, 4484>>, tgkill |-> <<5225, 444>>, timer_create |-> <<5216, 488>>, timer_delete |->
  <<5220, 4>>, timerfd_create |-> <<5280, 44>>, timerfd_gettime |-> <<5281, 48>>, timerfd_settime |-> <<5282,
  4488>>, timer_getoverrun |-> <<5219, 4>>, timer_gettime |-> <<5218, 48>>, timer_settime |-> <<5217, 4488>>,
  times |-> <<5098, 8>>, tkill |-> <<5192, 44>>, truncate |-> <<5074, 88>>, umask |-> <<5093, 4>>, unlinkat
  |-> <<5253, 484>>, unshare |-> <<5262, 8>>, userfaultfd |-> <<5317, 4>>]
Mips64_13 == [utimensat |-> <<5275, 4884>>, vhangup |-> <<58, 0>>, vmsplice |-> <<5266, 4884>>, wait4 |->
  <<5059, 4848>>, waitid |-> <<5237, 44848>>, write |-> <<5001, 488>>, writev |-> <<5019, 888>>]
mips64_syscall_list ==
  Mips64_1 @@ Mips64_2 @@ Mips64_3 @@ Mips64_4 @@ Mips64_5 @@ Mips64_6 @@ Mips64_7 @@ Mips64_8 @@
  Mips64_9 @@ Mips64_10 @@ Mips64_11 @@ Mips64_12 @@ Mips64_13

(* i386_syscalls.c *)
I386_1 == [accept4 |-> <<364, 4444>>, access |-> <<33, 44>>, acct |-> <<51, 4>>, add_key |-> <<286, 44444>>,
  adjtimex |-> <<124, 4>>, alarm |-> <<27, 4>>, arch_prctl |-> <<384, 44>>, bdflush |-> <<134, 44>>, bind |->
  <<361, 444>>, brk |-> <<45, 4>>, capget |-> <<184, 44>>, capset |-> <<185, 44>>, chdir |-> <<12, 4>>, chmod
  |-> <<15, 42>>, chown |-> <<212, 444>>, chown16 |-> <<182, 422>>, chroot |-> <<61, 4>>, clock_adjtime |->
  <<343, 44>>, clock_getres |-> <<266, 44>>, clock_gettime |-> <<265, 44>>, clock_nanosleep |-> <<267, 4444>>,
  clock_settime |-> <<264, 44>>, clone |-> <<120, 44444>>, close |-> <<6, 4>>]
I386_2 == [connect |-> <<362, 444>>, copy_file_range |-> <<377, 444444>>, creat |-> <<8, 42>>, delete_module
  |-> <<129, 44>>, dup |-> <<41, 4>>, dup2 |-> <<63, 44>>, dup3 |-> <<330, 444>>, epoll_create |-> <<254, 4>>,
  epoll_create1 |-> <<329, 4>>, epoll_ctl |-> <<255, 4444>>, epoll_pwait |-> <<319, 444444>>, epoll_wait |->
  <<256, 4444>>, eventfd |-> <<323, 4>>, eventfd2 |-> <<328, 44>>, execve |-> <<11, 444>>, execveat |-> <<358,
  44444>>, exit |-> <<1, 4>>, exit_group |-> <<252, 4>>, faccessat |-> <<307, 444>>, fadvise64 |-> <<250,
  4844>>, fadvise64_64 |-> <<272, 4884>>]
I386_3 == [fallocate |-> <<324, 4488>>, fanotify_init |-> <<338, 44>>, fanotify_mark |-> <<339, 44844>>,
  fchdir |-> <<133, 4>>, fchmod |-> <<94, 42>>, fchmodat |-> <<306, 442>>, fchown |-> <<207, 444>>, fchown16
  |-> <<95, 422>>, fchownat |-> <<298, 44444>>, fcntl |-> <<55, 444>>, fcntl64 |-> <<221, 444>>, fdatasync |->
  <<148, 4>>, fgetxattr |-> <<231, 4444>>, finit_module |-> <<350, 444>>, flistxattr |-> <<234, 444>>, flock
  |-> <<143, 44>>, fork |-> <<2, 0>>, fremovexattr |-> <<237, 44>>, fsetxattr |-> <<228, 44444>>, fstat |->
  <<28, 44>>, fstat64 |-> <<197, 44>>, fstatat64 |-> <<300, 4444>>]
I386_4 == [fstatfs |-> <<100, 44>>, fstatfs64 |-> <<269, 444>>, fsync |-> <<118, 4>>, ftruncate |-> <<93,
  44>>, ftruncate64 |-> <<194, 48>>, futex |-> <<240, 444444>>, futimesat |-> <<299, 444>>, getcpu |-> <<318,
  444>>, getcwd |-> <<183, 44>>, getdents |-> <<141, 444>>, getdents64 |-> <<220, 444>>, getegid |-> <<202,
  0>>, getegid16 |-> <<50, 0>>, geteuid |-> <<201, 0>>, geteuid16 |-> <<49, 0>>, getgid |-> <<200, 0>>,
  getgid16 |-> <<47, 0>>, getgroups |-> <<205, 44>>, getgroups16 |-> <<80, 44>>, getitimer |-> <<105, 44>>,
  getpeername |-> <<368, 444>>, getpgid |-> <<132, 4>>, getpgrp |-> <<65, 0>>, getpid |-> <<20, 0>>, getppid
  |-> <<64, 0>>, getpriority |-> <<96, 44>>, getrandom |-> <<355, 444>>, getresgid |-> <<211, 444>>,
  getresgid16 |-> <<171, 444>>, getresuid |-> <<209, 444>>]
I386_5 == [getresuid16 |-> <<165, 444>>, getrlimit |-> <<191, 44>>, get_robust_list |-> <<312, 444>>,
  getrusage |-> <<77, 44>>, getsid |-> <<147, 4>>, getsockname |-> <<367, 444>>, getsockopt |-> <<365,
  44444>>, get_thread_area |-> <<244, 4>>, gettid |-> <<224, 0>>, gettimeofday |-> <<78, 44>>, getuid |->
  <<199, 0>>, getuid16 |-> <<24, 0>>, getxattr |-> <<229, 4444>>, init_module |-> <<128, 444>>,
  inotify_add_watch |-> <<292, 444>>, inotify_init |-> <<291, 0>>, inotify_init1 |-> <<332, 4>>,
  inotify_rm_watch |-> <<293, 44>>, io_cancel |-> <<249, 444>>, ioctl |-> <<54, 444>>, io_destroy |-> <<246,
  4>>, io_getevents |-> <<247, 44444>>, ioperm |-> <<101, 444>>, iopl |-> <<110, 4>>, ioprio_get |-> <<290,
  44>>, ioprio_set |-> <<289, 444>>]
I386_6 == [io_setup |-> <<245, 44>>, io_submit |-> <<248, 444>>, ipc |-> <<117, 444444>>, kexec_load |->
  <<283, 4444>>, keyctl |-> <<288, 44444>>, kill |-> <<37, 44>>, lchown |-> <<198, 444>>, lchown16 |-> <<16,
  422>>, lgetxattr |-> <<230, 4444>>, link |-> <<9, 44>>, linkat |-> <<303, 44444>>, listen |-> <<363, 44>>,
  listxattr |-> <<232, 444>>, llistxattr |-> <<233, 444>>, llseek |-> <<140, 44444>>, lookup_dcookie |->
  <<253, 844>>, lremovexattr |-> <<236, 44>>, lseek |-> <<19, 444>>, lsetxattr |-> <<227, 44444>>, lstat |->
  <<84, 44>>]
I386_7 == [lstat64 |-> <<196, 44>>, madvise |-> <<219, 444>>, membarrier |-> <<375, 44>>, memfd_create |->
  <<356, 44>>, mincore |-> <<218, 444>>, mkdir |-> <<39, 42>>, mkdirat |-> <<296, 442>>, mknod |-> <<14,
  424>>, mknodat |-> <<297, 4424>>, mlock |-> <<150, 44>>, mlock2 |-> <<376, 444>>, mlockall |-> <<152, 4>>,
  mmap_pgoff |-> <<192, 444444>>, modify_ldt |-> <<123, 444>>, mount |-> <<21, 44444>>, mprotect |-> <<125,
  444>>, mq_getsetattr |-> <<282, 444>>, mq_notify |-> <<281, 44>>, mq_open |-> <<277, 4424>>, mq_timedreceive
  |-> <<280, 44444>>, mq_timedsend |-> <<279, 44444>>]
I386_8 == [mq_unlink |-> <<278, 4>>, mremap |-> <<163, 44444>>, msync |-> <<144, 444>>, munlock |-> <<151,
  44>>, munlockall |-> <<153, 0>>, munmap |-> <<91, 44>>, name_to_handle_at |-> <<341, 44444>>, nanosleep |->
  <<162, 44>>, newfstat |-> <<108, 44>>, newlstat |-> <<107, 44>>, newstat |-> <<106, 44>>, newuname |->
  <<122, 4>>, nice |-> <<34, 4>>, old_getrlimit |-> <<76, 44>>, old_mmap |-> <<90, 4>>, old_readdir |-> <<89,
  444>>, old_select |-> <<82, 4>>, oldumount |-> <<22, 4>>, olduname |-> <<59, 4>>, open |-> <<5, 442>>,
  openat |-> <<295, 4442>>, open_by_handle_at |-> <<342, 444>>, pause |-> <<29, 0>>, perf_event_open |->
  <<336, 44444>>, personality |-> <<136, 4>>]
I386_9 == [pipe |-> <<42, 4>>, pipe2 |-> <<331, 44>>, pivot_root |-> <<217, 44>>, poll |-> <<168, 444>>, ppoll
  |-> <<309, 44444>>, prctl |-> <<172, 44444>>, pread64 |-> <<180, 4448>>, preadv |-> <<333, 44444>>, preadv2
  |-> <<378, 444444>>, prlimit64 |-> <<340, 4444>>, process_vm_readv |-> <<347, 444444>>, process_vm_writev
  |-> <<348, 444444>>, pselect6 |-> <<308, 444444>>, ptrace |-> <<26, 4444>>, pwrite64 |-> <<181, 4448>>,
  pwritev |-> <<334, 44444>>, pwritev2 |-> <<379, 444444>>, quotactl |-> <<131, 4444>>]
I386_10 == [read |-> <<3, 444>>, readahead |-> <<225, 484>>, readlink |-> <<85, 444>>, readlinkat |-> <<305,
  4444>>, readv |-> <<145, 444>>, reboot |-> <<88, 4444>>, recvfrom |-> <<371, 444444>>, recvmmsg |-> <<337,
  44444>>, recvmsg |-> <<372, 444>>, remap_file_pages |-> <<257, 44444>>, removexattr |-> <<235, 44>>, rename
  |-> <<38, 44>>, renameat |-> <<302, 4444>>, renameat2 |-> <<353, 44444>>, request_key |-> <<287, 4444>>,
  restart_syscall |-> <<0, 0>>, rmdir |-> <<40, 4>>, rt_sigaction |-> <<174, 4444>>, rt_sigpending |-> <<176,
  44>>, rt_sigprocmask |-> <<175, 4444>>]
I386_11 == [rt_sigqueueinfo |-> <<178, 444>>, rt_sigsuspend |-> <<179, 44>>, rt_sigtimedwait |-> <<177,
  4444>>, rt_tgsigqueueinfo |-> <<335, 4444>>, sched_getaffinity |-> <<242, 444>>, sched_getattr |-> <<352,
  4444>>, sched_getparam |-> <<155, 44>>, sched_get_priority_max |-> <<159, 4>>, sched_get_priority_min |->
  <<160, 4>>, sched_getscheduler |-> <<157, 4>>, sched_rr_get_interval |-> <<161, 44>>, sched_setaffinity |->
  <<241, 444>>, sched_setattr |-> <<351, 444>>, sched_setparam |-> <<154, 44>>, sched_setscheduler |-> <<156,
  444>>, sched_yield |-> <<158, 0>>, seccomp |-> <<354, 444>>, select |-> <<142, 44444>>, sendfile |-> <<187,
  4444>>, sendfile64 |-> <<239, 4444>>, sendmmsg |-> <<345, 4444>>, sendmsg |-> <<370, 444>>]
I386_12 == [sendto |-> <<369, 444444>>, setdomainname |-> <<121, 44>>, setfsgid |-> <<216, 4>>, setfsgid16 |->
  <<139, 2>>, setfsuid |-> <<215, 4>>, setfsuid16 |-> <<138, 2>>, setgid |-> <<214, 4>>, setgid16 |-> <<46,
  2>>, setgroups |-> <<206, 44>>, setgroups16 |-> <<81, 44>>, sethostname |-> <<74, 44>>, setitimer |-> <<104,
  444>>, setns |-> <<346, 44>>, setpgid |-> <<57, 44>>, setpriority |-> <<97, 444>>, setregid |-> <<204, 44>>,
  setregid16 |-> <<71, 22>>, setresgid |-> <<210, 444>>, setresgid16 |-> <<170, 222>>, setresuid |-> <<208,
  444>>, setresuid16 |-> <<164, 222>>, setreuid |-> <<203, 44>>, setreuid16 |-> <<70, 22>>, setrlimit |->
  <<75, 44>>]
I386_13 == [set_robust_list |-> <<311, 44>>, setsid |-> <<66, 0>>, setsockopt |-> <<366, 44444>>,
  set_thread_area |-> <<243, 4>>, set_tid_address |-> <<258, 4>>, settimeofday |-> <<79, 44>>, setuid |->
  <<213, 4>>, setuid16 |-> <<23, 2>>, setxattr |-> <<226, 44444>>, sgetmask |-> <<68, 0>>, shutdown |-> <<373,
  44>>, sigaction |-> <<67, 444>>, sigaltstack |-> <<186, 44>>, signal |-> <<48, 44>>, signalfd |-> <<321,
  444>>, signalfd4 |-> <<327, 4444>>, sigpending |-> <<73, 4>>, sigprocmask |-> <<126, 444>>, sigsuspend |->
  <<72, 444>>, socket |-> <<359, 444>>, socketcall |-> <<102, 44>>, socketpair |-> <<360, 4444>>, splice |->
  <<313, 444444>>, ssetmask |-> <<69, 4>>]
I386_14 == [stat |-> <<18, 44>>, stat64 |-> <<195, 44>>, statfs |-> <<99, 44>>, statfs64 |-> <<268, 444>>,
  statx |-> <<383, 44444>>, stime |-> <<25, 4>>, swapoff |-> <<115, 4>>, swapon |-> <<87, 44>>, symlink |->
  <<83, 44>>, symlinkat |-> <<304, 444>>, sync |-> <<36, 0>>, sync_file_range |-> <<314, 4884>>, syncfs |->
  <<344, 4>>, sysctl |-> <<149, 4>>, sysfs |-> <<135, 444>>, sysinfo |-> <<116, 4>>, syslog |-> <<103, 444>>,
  tee |-> <<315, 4444>>, tgkill |-> <<270, 444>>, time |-> <<13, 4>>, timer_create |-> <<259, 444>>,
  timer_delete |-> <<263, 4>>, timerfd_create |-> <<322, 44>>, timerfd_gettime |-> <<326, 44>>]
I386_15 == [timerfd_settime |-> <<325, 4444>>, timer_getoverrun |-> <<262, 4>>, timer_gettime |-> <<261, 44>>,
  timer_settime |-> <<260, 4444>>, times |-> <<43, 4>>, tkill |-> <<238, 44>>, truncate |-> <<92, 44>>,
  truncate64 |-> <<193, 48>>, umask |-> <<60, 4>>, umount |-> <<52, 44>>, uname |-> <<109, 4>>, unlink |->
  <<10, 4>>, unlinkat |-> <<301, 444>>, unshare |-> <<310, 4>>, ustat |-> <<62, 44>>, utime |-> <<30, 44>>,
  utimensat |-> <<320, 4444>>, utimes |-> <<271, 44>>, vfork |-> <<190, 0>>, vhangup |-> <<111, 0>>, vm86 |->
  <<166, 44>>, vm86old |-> <<113, 4>>, vmsplice |-> <<316, 4444>>, wait4 |-> <<114, 4444>>, waitid |-> <<284,
  44444>>]
I386_16 == [waitpid |-> <<7, 444>>, write |-> <<4, 444>>, writev |-> <<146, 444>>]
i386_syscall_list ==
  I386_1 @@ I386_2 @@ I386_3 @@ I386_4 @@ I386_5 @@ I386_6 @@ I386_7 @@ I386_8 @@ I386_9 @@ I386_10
  @@ I386_11 @@ I386_12 @@ I386_13 @@ I386_14 @@ I386_15 @@ I386_16

(* riscv64_syscalls.c *)
Riscv64_1 == [accept |-> <<202, 488>>, accept4 |-> <<242, 4884>>, acct |-> <<89, 8>>, add_key |-> <<217,
  88884>>, adjtimex |-> <<171, 8>>, bind |-> <<200, 484>>, bpf |-> <<280, 484>>, brk |-> <<214, 8>>, capget
  |-> <<90, 88>>, capset |-> <<91, 88>>, chdir |-> <<49, 8>>, chroot |-> <<51, 8>>, clock_adjtime |-> <<266,
  48>>, clock_getres |-> <<114, 48>>, clock_gettime |-> <<113, 48>>, clock_nanosleep |-> <<115, 4488>>,
  clock_settime |-> <<112, 48>>, clone |-> <<220, 88888>>, close |-> <<57, 4>>, connect |-> <<203, 484>>,
  copy_file_range |-> <<285, 484884>>, delete_module |-> <<106, 84>>, dup |-> <<23, 4>>]
Riscv64_2 == [dup3 |-> <<24, 444>>, epoll_create1 |-> <<20, 4>>, epoll_ctl |-> <<21, 4448>>, epoll_pwait |->
  <<22, 484488>>, eventfd2 |-> <<19, 44>>, execve |-> <<221, 888>>, execveat |-> <<281, 48884>>, exit |->
  <<93, 4>>, exit_group |-> <<94, 4>>, faccessat |-> <<48, 484>>, fadvise64 |-> <<223, 4884>>, fallocate |->
  <<47, 4488>>, fanotify_init |-> <<262, 44>>, fanotify_mark |-> <<263, 44848>>, fchdir |-> <<50, 4>>, fchmod
  |-> <<52, 42>>, fchmodat |-> <<53, 482>>, fchown |-> <<55, 444>>, fchownat |-> <<54, 48444>>, fcntl |->
  <<25, 448>>, fdatasync |-> <<83, 4>>]
Riscv64_3 == [fgetxattr |-> <<10, 4888>>, finit_module |-> <<273, 484>>, flistxattr |-> <<13, 488>>, flock |->
  <<32, 44>>, fremovexattr |-> <<16, 48>>, fsetxattr |-> <<7, 48884>>, fstatfs |-> <<44, 48>>, fsync |-> <<82,
  4>>, ftruncate |-> <<46, 48>>, futex |-> <<98, 844884>>, getcpu |-> <<168, 888>>, getcwd |-> <<17, 88>>,
  getdents64 |-> <<61, 484>>, getegid |-> <<177, 0>>, geteuid |-> <<175, 0>>, getgid |-> <<176, 0>>, getgroups
  |-> <<158, 48>>, getitimer |-> <<102, 48>>, get_mempolicy |-> <<236, 88888>>, getpeername |-> <<205, 488>>,
  getpgid |-> <<155, 4>>, getpid |-> <<172, 0>>, getppid |-> <<173, 0>>, getpriority |-> <<141, 44>>,
  getrandom |-> <<278, 884>>, getresgid |-> <<150, 888>>]
Riscv64_4 == [getresuid |-> <<148, 888>>, getrlimit |-> <<163, 48>>, get_robust_list |-> <<100, 488>>,
  getrusage |-> <<165, 48>>, getsid |-> <<156, 4>>, getsockname |-> <<204, 488>>, getsockopt |-> <<209,
  44488>>, gettid |-> <<178, 0>>, gettimeofday |-> <<169, 88>>, getuid |-> <<174, 0>>, getxattr |-> <<8,
  8888>>, init_module |-> <<105, 888>>, inotify_add_watch |-> <<27, 484>>, inotify_init1 |-> <<26, 4>>,
  inotify_rm_watch |-> <<28, 44>>, io_cancel |-> <<3, 888>>, ioctl |-> <<29, 448>>, io_destroy |-> <<1, 8>>,
  io_getevents |-> <<4, 88888>>, ioprio_get |-> <<31, 44>>, ioprio_set |-> <<30, 444>>, io_setup |-> <<0,
  48>>, io_submit |-> <<2, 888>>]
Riscv64_5 == [kcmp |-> <<272, 44488>>, kexec_load |-> <<104, 8888>>, keyctl |-> <<219, 48888>>, kill |->
  <<129, 44>>, lgetxattr |-> <<9, 8888>>, linkat |-> <<37, 48484>>, listen |-> <<201, 44>>, listxattr |->
  <<11, 888>>, llistxattr |-> <<12, 888>>, lookup_dcookie |-> <<18, 888>>, lremovexattr |-> <<15, 88>>, lseek
  |-> <<62, 484>>, lsetxattr |-> <<6, 88884>>, madvise |-> <<233, 884>>, mbind |-> <<235, 888884>>, membarrier
  |-> <<283, 44>>, memfd_create |-> <<279, 84>>, migrate_pages |-> <<238, 4888>>, mincore |-> <<232, 888>>,
  mkdirat |-> <<34, 482>>]
Riscv64_6 == [mknodat |-> <<33, 4824>>, mlock |-> <<228, 88>>, mlock2 |-> <<284, 884>>, mlockall |-> <<230,
  4>>, mmap |-> <<222, 888888>>, mount |-> <<40, 88888>>, move_pages |-> <<239, 488884>>, mprotect |-> <<226,
  888>>, mq_getsetattr |-> <<185, 488>>, mq_notify |-> <<184, 48>>, mq_open |-> <<180, 8428>>, mq_timedreceive
  |-> <<183, 48888>>, mq_timedsend |-> <<182, 48848>>, mq_unlink |-> <<181, 8>>, mremap |-> <<216, 88888>>,
  msgctl |-> <<187, 448>>, msgget |-> <<186, 44>>, msgrcv |-> <<188, 48884>>, msgsnd |-> <<189, 4884>>]
Riscv64_7 == [msync |-> <<227, 884>>, munlock |-> <<229, 88>>, munlockall |-> <<231, 0>>, munmap |-> <<215,
  88>>, name_to_handle_at |-> <<264, 48884>>, nanosleep |-> <<101, 88>>, newfstat |-> <<80, 48>>, newfstatat
  |-> <<79, 4884>>, newuname |-> <<160, 8>>, nfsservctl |-> <<42, 488>>, openat |-> <<56, 4842>>,
  open_by_handle_at |-> <<265, 484>>, perf_event_open |-> <<241, 84448>>, personality |-> <<92, 4>>, pipe2 |->
  <<59, 84>>, pivot_root |-> <<41, 88>>, ppoll |-> <<73, 84888>>, prctl |-> <<167, 48888>>, pread64 |-> <<67,
  4888>>, preadv |-> <<69, 88888>>, preadv2 |-> <<286, 888884>>]
Riscv64_8 == [prlimit64 |-> <<261, 4488>>, process_vm_readv |-> <<270, 488888>>, process_vm_writev |-> <<271,
  488888>>, pselect6 |-> <<72, 488888>>, ptrace |-> <<117, 8888>>, pwrite64 |-> <<68, 4888>>, pwritev |->
  <<70, 88888>>, pwritev2 |-> <<287, 888884>>, quotactl |-> <<60, 4848>>, read |-> <<63, 488>>, readahead |->
  <<213, 488>>, readlinkat |-> <<78, 4884>>, readv |-> <<65, 888>>, reboot |-> <<142, 4448>>, recvfrom |->
  <<207, 488488>>, recvmmsg |-> <<243, 48448>>, recvmsg |-> <<212, 484>>]
Riscv64_9 == [remap_file_pages |-> <<234, 88888>>, removexattr |-> <<14, 88>>, renameat2 |-> <<276, 48484>>,
  request_key |-> <<218, 8884>>, restart_syscall |-> <<128, 0>>, rt_sigaction |-> <<134, 4888>>, rt_sigpending
  |-> <<136, 88>>, rt_sigprocmask |-> <<135, 4888>>, rt_sigqueueinfo |-> <<138, 448>>, rt_sigreturn |-> <<139,
  0>>, rt_sigsuspend |-> <<133, 88>>, rt_sigtimedwait |-> <<137, 8888>>, rt_tgsigqueueinfo |-> <<240, 4448>>,
  sched_getaffinity |-> <<123, 448>>, sched_getattr |-> <<275, 4844>>, sched_getparam |-> <<121, 48>>,
  sched_get_priority_max |-> <<125, 4>>, sched_get_priority_min |-> <<126, 4>>, sched_getscheduler |-> <<120,
  4>>, sched_rr_get_interval |-> <<127, 48>>, sched_setaffinity |-> <<122, 448>>, sched_setattr |-> <<274,
  484>>, sched_setparam |-> <<118, 48>>]
Riscv64_10 == [sched_setscheduler |-> <<119, 448>>, sched_yield |-> <<124, 0>>, seccomp |-> <<277, 448>>,
  semctl |-> <<191, 4448>>, semget |-> <<190, 444>>, semop |-> <<193, 484>>, semtimedop |-> <<192, 4848>>,
  sendfile |-> <<71, 4488>>, sendmmsg |-> <<269, 4844>>, sendmsg |-> <<211, 484>>, sendto |-> <<206, 488484>>,
  setdomainname |-> <<162, 84>>, setfsgid |-> <<152, 4>>, setfsuid |-> <<151, 4>>, setgid |-> <<144, 4>>,
  setgroups |-> <<159, 48>>, sethostname |-> <<161, 84>>, setitimer |-> <<103, 488>>, set_mempolicy |-> <<237,
  488>>, setns |-> <<268, 44>>, setpgid |-> <<154, 44>>, setpriority |-> <<140, 444>>, setregid |-> <<143,
  44>>]
Riscv64_11 == [setresgid |-> <<149, 444>>, setresuid |-> <<147, 444>>, setreuid |-> <<145, 44>>, setrlimit |->
  <<164, 48>>, set_robust_list |-> <<99, 88>>, setsid |-> <<157, 0>>, setsockopt |-> <<208, 44484>>,
  set_tid_address |-> <<96, 8>>, settimeofday |-> <<170, 88>>, setuid |-> <<146, 4>>, setxattr |-> <<5,
  88884>>, shmat |-> <<196, 484>>, shmctl |-> <<195, 448>>, shmdt |-> <<197, 8>>, shmget |-> <<194, 484>>,
  shutdown |-> <<210, 44>>, sigaltstack |-> <<132, 88>>, signalfd4 |-> <<74, 4884>>, socket |-> <<198, 444>>,
  socketpair |-> <<199, 4448>>, splice |-> <<76, 484884>>, statfs |-> <<43, 88>>, swapoff |-> <<225, 8>>]
Riscv64_12 == [swapon |-> <<224, 84>>, symlinkat |-> <<36, 848>>, sync |-> <<81, 0>>, sync_file_range2 |->
  <<84, 4884>>, syncfs |-> <<267, 4>>, sysinfo |-> <<179, 8>>, syslog |-> <<116, 484>>, tee |-> <<77, 4484>>,
  tgkill |-> <<131, 444>>, timer_create |-> <<107, 488>>, timer_delete |-> <<111, 4>>, timerfd_create |->
  <<85, 44>>, timerfd_gettime |-> <<87, 48>>, timerfd_settime |-> <<86, 4488>>, timer_getoverrun |-> <<109,
  4>>, timer_gettime |-> <<108, 48>>, timer_settime |-> <<110, 4488>>, times |-> <<153, 8>>, tkill |-> <<130,
  44>>, truncate |-> <<45, 88>>, umask |-> <<166, 4>>, unlinkat |-> <<35, 484>>, unshare |-> <<97, 8>>,
  userfaultfd |-> <<282, 4>>]
Riscv64_13 == [utimensat |-> <<88, 4884>>, vhangup |-> <<58, 0>>, vmsplice |-> <<75, 4884>>, wait4 |-> <<260,
  4848>>, waitid |-> <<95, 44848>>, write |-> <<64, 488>>, writev |-> <<66, 888>>]
riscv64_syscall_list ==
  Riscv64_1 @@ Riscv64_2 @@ Riscv64_3 @@ Riscv64_4 @@ Riscv64_5 @@ Riscv64_6 @@ Riscv64_7 @@
  Riscv64_8 @@ Riscv64_9 @@ Riscv64_10 @@ Riscv64_11 @@ Riscv64_12 @@ Riscv64_13
-----------------------------------------------------------------------------
SYSCALL_MAX_ARGS == 6
ArgNames == <<"arg1", "arg2", "arg3", "arg4", "arg5", "arg6">>

(* syscall_lists, and the bits KAFEL_TARGET_ARCH_ in ascending order: the  *)
(* order in which a set of target architectures is gone through.           *)
Archs == <<"ARM", "AARCH64", "X86", "X86_64", "MIPS", "MIPS64", "RISCV64">>
syscalls_lookup ==
  [ARM |-> arm_syscall_list, AARCH64 |-> aarch64_syscall_list, X86 |-> i386_syscall_list,
   X86_64 |-> amd64_syscall_list, MIPS |-> mipso32_syscall_list,
   MIPS64 |-> mips64_syscall_list, RISCV64 |-> riscv64_syscall_list]
DefaultArch == "X86_64"   \* KAFEL_DEFAULT_TARGET_ARCH on the machine the judge is built for

(* syscall_lookup: the table, and the entry of a name it has *)
Known(arch, name) == name \in DOMAIN syscalls_lookup[arch]
NrOf(arch, name)  == syscalls_lookup[arch][name][1]
ArgsOf(arch, name) ==
  LET sizes == syscalls_lookup[arch][name][2]
      arity == CHOOSE n \in 0..SYSCALL_MAX_ARGS : 10^n > sizes /\ (n > 0 => 10^(n - 1) <= sizes)
  IN [k \in 1..arity |-> [name |-> ArgNames[k], size |-> (sizes \div 10^(arity - k)) % 10]]
=============================================================================
