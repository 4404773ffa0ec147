SPECIFICATION MCSpec
CONSTANTS
    t1 = t1
    t2 = t2
    file1 = file1
    file2 = file2
    Tasks = {t1, t2}
    Supers = {t1}
    Inodes = {1, 2, 3}
    NSLOT = 2
    Paths <- ThreePaths
    Calls = {"open", "creat", "mkdir", "rmdir", "unlink", "link", "chdir", "chmod", "stat", "access", "mknod", "chroot"}
    Modes = {"closed", "sticky"}
    MaxCalls = 3
SYMMETRY Alike
INVARIANTS   FilesCounted MountsAgree
