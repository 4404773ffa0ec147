SPECIFICATION Spec
CONSTANTS
    Tasks = {t0, t1, t2}
    Root = t0
    Frames = {f1, f2, f3, f4, f5, f6, f7}
    Low = Low
    Blocks <- OneBlock
    Pages <- TwoPages
    FilePages <- TextPage
    ArgPage <- ArgPage1
    Execs = {e}
    Data = {v}
    Zero = Zero
    Args = Args
    None = None
VIEW FrameView
INVARIANT FramesSound
PROPERTY PrivateUnlessSpoiled
